-------------------------- MODULE FcfsMergingProofs --------------------------
(***************************************************************************)
(* Theorems about the slots of the reorder buffers: which instruction a    *)
(* read that waits in the read queue belongs to, and what becomes of the   *)
(* reads merged with it.                                                   *)
(*                                                                         *)
(* A read is inserted with a completion time BIGNUM cycles away, which the *)
(* simulation loop cannot tell from a real one: if the DRAM did not answer *)
(* in time, the instruction would retire without its data and leave its    *)
(* slot to another.  That it answers is liveness, of each scheduler.  Here *)
(* it is a hypothesis, InTime, and TLC checks it in the runs.              *)
(***************************************************************************)
EXTENDS FcfsMerging, UsimmProofs

-----------------------------------------------------------------------------
\* Positions in a reorder buffer.

LEMMA AroundOnce ==
  ASSUME NEW R \in Nat \ {0}, NEW x \in Nat, x < 2 * R
  PROVE  x % R = IF x < R THEN x ELSE x - R
<1>1. CASE x < R
  BY <1>1
<1>2. CASE x >= R
  BY <1>2
<1> QED BY <1>1, <1>2

LEMMA SlotIs ==
  ASSUME NEW r \in ReorderBuffer, NEW i \in 0 .. ROBSIZE
  PROVE  /\ r.head \in 0 .. ROBSIZE - 1 /\ r.inflight \in 0 .. ROBSIZE
         /\ Slot(r, i) = IF r.head + i < ROBSIZE THEN r.head + i ELSE r.head + i - ROBSIZE
<1>1. ROBSIZE \in Nat \ {0} /\ r.head \in 0 .. ROBSIZE - 1 /\ r.inflight \in 0 .. ROBSIZE
  BY LoopSizes DEF ReorderBuffer, Slots
<1>2. r.head + i \in Nat /\ r.head + i < 2 * ROBSIZE
  BY <1>1
<1> QED BY <1>1, <1>2, AroundOnce DEF Slot

LEMMA SlotsDiffer ==
  ASSUME NEW r \in ReorderBuffer, NEW i \in 0 .. ROBSIZE - 1, NEW j \in 0 .. ROBSIZE - 1, i # j
  PROVE  Slot(r, i) # Slot(r, j)
<1>1. i \in 0 .. ROBSIZE /\ j \in 0 .. ROBSIZE /\ ROBSIZE \in Nat
  BY LoopSizes
<1>2. r.head \in 0 .. ROBSIZE - 1
  BY <1>1, SlotIs
<1> QED BY <1>1, <1>2, SlotIs

\* Retirement renumbers the slots that stay.
LEMMA AfterRetiring ==
  ASSUME NEW r \in ReorderBuffer, NEW n \in 0 .. r.inflight, NEW later \in ReorderBuffer,
         later.head = Slot(r, n), NEW i \in n .. r.inflight
  PROVE  i - n \in 0 .. r.inflight - n /\ Slot(later, i - n) = Slot(r, i)
<1>1. ROBSIZE \in Nat \ {0} /\ r.head \in 0 .. ROBSIZE - 1 /\ r.inflight \in 0 .. ROBSIZE
  BY LoopSizes DEF ReorderBuffer, Slots
<1>2. /\ i \in 0 .. ROBSIZE /\ n \in 0 .. ROBSIZE /\ i - n \in 0 .. ROBSIZE
      /\ i - n \in 0 .. r.inflight - n
  BY <1>1
<1>3. Slot(r, i) = IF r.head + i < ROBSIZE THEN r.head + i ELSE r.head + i - ROBSIZE
  BY <1>2, SlotIs
<1>4. Slot(r, n) = IF r.head + n < ROBSIZE THEN r.head + n ELSE r.head + n - ROBSIZE
  BY <1>2, SlotIs
<1>5. Slot(later, i - n) = IF later.head + (i - n) < ROBSIZE THEN later.head + (i - n)
                           ELSE later.head + (i - n) - ROBSIZE
  BY <1>2, SlotIs
<1> QED BY <1>1, <1>2, <1>3, <1>4, <1>5

\* The slot at the tail is free, and the next one follows it.
LEMMA TailIsFree ==
  ASSUME NEW r \in ReorderBuffer, r.tail = Slot(r, r.inflight), r.inflight # ROBSIZE
  PROVE  /\ r.inflight + 1 \in 0 .. ROBSIZE
         /\ \A i \in 0 .. r.inflight - 1 : Slot(r, i) # r.tail
         /\ (r.tail + 1) % ROBSIZE = Slot(r, r.inflight + 1)
<1>1. ROBSIZE \in Nat \ {0} /\ r.head \in 0 .. ROBSIZE - 1 /\ r.inflight \in 0 .. ROBSIZE
  BY LoopSizes DEF ReorderBuffer, Slots
<1>2. r.inflight + 1 \in 0 .. ROBSIZE /\ r.inflight \in 0 .. ROBSIZE - 1
  BY <1>1
<1>3. ASSUME NEW i \in 0 .. r.inflight - 1 PROVE Slot(r, i) # r.tail
  <2>1. i \in 0 .. ROBSIZE - 1 /\ i # r.inflight
    BY <1>1
  <2> QED BY <1>2, <2>1, SlotsDiffer
<1>4. Slot(r, r.inflight) = IF r.head + r.inflight < ROBSIZE THEN r.head + r.inflight
                            ELSE r.head + r.inflight - ROBSIZE
  BY <1>1, SlotIs
<1>5. Slot(r, r.inflight + 1) =
        IF r.head + (r.inflight + 1) < ROBSIZE THEN r.head + (r.inflight + 1)
        ELSE r.head + (r.inflight + 1) - ROBSIZE
  BY <1>2, SlotIs
<1>6. r.tail \in 0 .. ROBSIZE - 1
  BY DEF ReorderBuffer, Slots
<1>7. (r.tail + 1) % ROBSIZE = IF r.tail + 1 < ROBSIZE THEN r.tail + 1 ELSE r.tail + 1 - ROBSIZE
  <2> DEFINE next == r.tail + 1
  <2>1. next \in Nat /\ next < 2 * ROBSIZE
    BY <1>1, <1>6
  <2> HIDE DEF next
  <2>2. next % ROBSIZE = IF next < ROBSIZE THEN next ELSE next - ROBSIZE
    BY <1>1, <2>1, AroundOnce
  <2> QED BY <1>1, <1>6, <2>2 DEF next
<1> QED BY <1>1, <1>2, <1>3, <1>4, <1>5, <1>6, <1>7

-----------------------------------------------------------------------------
\* The slots of the reads that wait.

\* No read has been kept waiting BIGNUM cycles.
InTime ==
  \A i \in DOMAIN read_queue :
    ~read_queue[i].request_served =>
      ROB[read_queue[i].thread_id].comptime[read_queue[i].instruction_id] >= 0

\* The tail is where it has to be, and a read that waits has a slot of its own.
SlotInv ==
  /\ \A c \in Cores : ROB[c].tail = Slot(ROB[c], ROB[c].inflight)
  /\ \A i \in DOMAIN read_queue :
       ~read_queue[i].request_served =>
         InFlight(read_queue[i].thread_id, read_queue[i].instruction_id)
  /\ \A i, j \in DOMAIN read_queue :
       /\ i # j /\ ~read_queue[i].request_served /\ ~read_queue[j].request_served
       => \/ read_queue[i].thread_id # read_queue[j].thread_id
          \/ read_queue[i].instruction_id # read_queue[j].instruction_id

\* Types used all the time.
LEMMA CoreTypes ==
  ASSUME UsimmInv
  PROVE  /\ ROB \in [Cores -> ReorderBuffer] /\ read_queue \in Seq(ReadRequest)
         /\ \A i \in DOMAIN read_queue :
              read_queue[i].thread_id \in Cores /\ read_queue[i].instruction_id \in Slots
<1>1. ROB \in [Cores -> ReorderBuffer] /\ read_queue \in Seq(ReadRequest)
  BY DEF UsimmInv, UsimmTypeOK
<1>2. \A i \in DOMAIN read_queue : read_queue[i] \in ReadRequest
  BY <1>1
<1> QED BY <1>1, <1>2 DEF ReadRequest

\* Steps that move no slot and, of the read queue, keep some requests or mark them served.
Shrinks(f) ==
  /\ \A k \in DOMAIN read_queue' :
       /\ f[k] \in DOMAIN read_queue
       /\ read_queue'[k].thread_id = read_queue[f[k]].thread_id
       /\ read_queue'[k].instruction_id = read_queue[f[k]].instruction_id
       /\ ~read_queue'[k].request_served => ~read_queue[f[k]].request_served
  /\ \A j, k \in DOMAIN read_queue' : j # k => f[j] # f[k]

SlotsStay ==
  \A c \in Cores : /\ ROB'[c].head = ROB[c].head /\ ROB'[c].tail = ROB[c].tail
                   /\ ROB'[c].inflight = ROB[c].inflight

LEMMA ShrinkingKeeps ==
  ASSUME UsimmInv, SlotInv, SlotsStay, NEW f, Shrinks(f)
  PROVE  SlotInv'
<1>1. \A c \in Cores : \A i : Slot(ROB'[c], i) = Slot(ROB[c], i)
  BY DEF SlotsStay, Slot
<1>2. \A c \in Cores : ROB'[c].tail = Slot(ROB'[c], ROB'[c].inflight)
  BY <1>1 DEF SlotInv, SlotsStay
<1>3. ASSUME NEW c \in Cores, NEW s, InFlight(c, s) PROVE InFlight(c, s)'
  BY <1>1, <1>3 DEF InFlight, SlotsStay
<1>4. ASSUME NEW k \in DOMAIN read_queue', ~read_queue'[k].request_served
      PROVE  InFlight(read_queue[k].thread_id, read_queue[k].instruction_id)'
  <2>1. /\ f[k] \in DOMAIN read_queue
        /\ read_queue'[k].thread_id = read_queue[f[k]].thread_id
        /\ read_queue'[k].instruction_id = read_queue[f[k]].instruction_id
        /\ ~read_queue[f[k]].request_served
    BY <1>4 DEF Shrinks
  <2>2. InFlight(read_queue[f[k]].thread_id, read_queue[f[k]].instruction_id)
    BY <2>1 DEF SlotInv
  <2>3. read_queue[f[k]].thread_id \in Cores
    BY <2>1, CoreTypes
  <2> QED BY <1>3, <2>1, <2>2, <2>3
<1>5. ASSUME NEW j \in DOMAIN read_queue', NEW k \in DOMAIN read_queue', j # k,
             ~read_queue'[j].request_served, ~read_queue'[k].request_served
      PROVE  \/ read_queue'[j].thread_id # read_queue'[k].thread_id
             \/ read_queue'[j].instruction_id # read_queue'[k].instruction_id
  BY <1>5 DEF Shrinks, SlotInv
<1> QED BY <1>2, <1>4, <1>5 DEF SlotInv

LEMMA SameReads ==
  ASSUME SlotsStay, UNCHANGED read_queue
  PROVE  SlotsStay /\ \E f : Shrinks(f)
<1>1. Shrinks([k \in DOMAIN read_queue |-> k])
  BY DEF Shrinks
<1> QED BY <1>1

LEMMA TickShrinks == ASSUME UsimmInv, Tick PROVE SlotsStay /\ \E f : Shrinks(f)
<1>1. UNCHANGED read_queue
  BY DEF Tick, queueVars
<1>2. SlotsStay
  BY CoreTypes DEF Tick, SlotsStay, ReorderBuffer
<1> QED BY <1>1, <1>2, SameReads

LEMMA MemoryShrinks ==
  ASSUME UsimmInv, MemoryCycle PROVE SlotsStay /\ \E f : Shrinks(f)
<1>1. read_queue \in Seq(ReadRequest) /\ read_queue' = Cleaned(read_queue) /\ UNCHANGED ROB
  BY CoreTypes DEF MemoryCycle, CleanQueues, coreVars
<1>2. read_queue' \in Seq(ReadRequest)
  BY <1>1, CleanedKeeps
<1>3. PICK f : KeptOf(read_queue, Len(read_queue), read_queue', f)
  BY <1>1, CleanedKeeps
<1>4. /\ DOMAIN read_queue = 1 .. Len(read_queue) /\ DOMAIN read_queue' = 1 .. Len(read_queue')
      /\ Len(read_queue') \in Nat
  BY <1>1, <1>2
<1>5. ASSUME NEW j \in DOMAIN read_queue', NEW k \in DOMAIN read_queue', j # k PROVE f[j] # f[k]
  <2>1. f[j] \in Int /\ f[k] \in Int /\ j \in Int /\ k \in Int
    BY <1>3, <1>4 DEF KeptOf
  <2>2. CASE j < k
    BY <1>3, <1>4, <2>1, <2>2 DEF KeptOf
  <2>3. CASE k < j
    BY <1>3, <1>4, <2>1, <2>3 DEF KeptOf
  <2> QED BY <1>5, <2>1, <2>2, <2>3
<1>6. Shrinks(f)
  BY <1>3, <1>4, <1>5 DEF KeptOf, Shrinks
<1>7. SlotsStay
  BY <1>1 DEF SlotsStay
<1> QED BY <1>6, <1>7

\* Serving a read ends its wait; its slot stays in flight.
LEMMA ScheduleShrinks == ASSUME UsimmInv, AnySchedule PROVE SlotsStay /\ \E f : Shrinks(f)
<1>1. CASE UNCHANGED <<read_queue, ROB>>
  BY <1>1, SameReads DEF SlotsStay
<1>2. CASE \E i \in DOMAIN read_queue : IssueRead(i)
  <2>1. PICK i \in DOMAIN read_queue : IssueRead(i)
    BY <1>2
  <2> DEFINE q == read_queue[i]
  <2>2. CASE UNCHANGED <<read_queue, ROB>>
    BY <2>2, <1>1
  <2>3. CASE /\ read_queue' = [read_queue EXCEPT ![i].request_served = TRUE]
             /\ ROB' = [ROB EXCEPT ![q.thread_id].comptime[q.instruction_id] = Arrival]
    <3>1. Shrinks([k \in DOMAIN read_queue |-> k])
      BY <2>3 DEF Shrinks
    <3>2. SlotsStay
      BY <2>3, CoreTypes DEF SlotsStay, ReorderBuffer
    <3> QED BY <3>1, <3>2
  <2> QED BY <2>1, <2>2, <2>3 DEF IssueRead
<1> QED BY <1>1, <1>2 DEF AnySchedule, IssueWrite, queueVars

LEMMA FetchNothingShrinks ==
  ASSUME NEW c \in Cores, FetchNothing(c) PROVE SlotsStay /\ \E f : Shrinks(f)
<1>1. SlotsStay /\ UNCHANGED read_queue
  BY DEF FetchNothing, coreVars, queueVars, SlotsStay
<1> QED BY <1>1, SameReads

LEMMA IdleShrinks == ASSUME UNCHANGED usimmVars PROVE SlotsStay /\ \E f : Shrinks(f)
BY SameReads DEF usimmVars, queueVars, coreVars, SlotsStay

\* A read that is waiting, and in time, stops the retirement of its core.
LEMMA RetiredSlots ==
  ASSUME UsimmInv, Retire, NEW c \in Cores
  PROVE  LET r == ROB[c]
             n == Retiring(r)
         IN  /\ r \in ReorderBuffer /\ ROB'[c] \in ReorderBuffer
             /\ n \in 0 .. r.inflight
             /\ \A i \in 0 .. n - 1 : r.comptime[Slot(r, i)] < 0
             /\ ROB'[c].head = Slot(r, n) /\ ROB'[c].inflight = r.inflight - n
             /\ ROB'[c].tail = r.tail /\ ROB'[c].comptime = r.comptime
<1> DEFINE r == ROB[c]
           n == Retiring(r)
<1>1. r \in ReorderBuffer
  BY CoreTypes
<1>2. /\ n \in 0 .. MAX_RETIRE /\ n <= r.inflight
      /\ \A i \in 0 .. n - 1 : r.comptime[Slot(r, i)] < 0
  <2> HIDE DEF r
  <2> QED BY <1>1, RetiringIs
<1>3. ROB'[c] \in ReorderBuffer
  <2>1. UsimmInv'
    BY RetireInv
  <2> QED BY <2>1 DEF UsimmInv, UsimmTypeOK
<1>4. r.inflight \in Nat
  BY <1>1, LoopSizes DEF ReorderBuffer
<1>5. n \in 0 .. r.inflight
  <2> HIDE DEF n, r
  <2> QED BY <1>2, <1>4, LoopSizes
<1>6. ROB'[c] = [r EXCEPT !.head = Slot(r, n), !.inflight = @ - n]
  BY DEF Retire
<1>7. /\ ROB'[c].head = Slot(r, n) /\ ROB'[c].inflight = r.inflight - n
      /\ ROB'[c].tail = r.tail /\ ROB'[c].comptime = r.comptime
  <2> HIDE DEF n, r
  <2> QED BY <1>1, <1>6 DEF ReorderBuffer
<1> QED BY <1>1, <1>2, <1>3, <1>5, <1>7

LEMMA StaysInFlight ==
  ASSUME UsimmInv, Retire, NEW c \in Cores, NEW s, InFlight(c, s), ROB[c].comptime[s] >= 0
  PROVE  InFlight(c, s)'
<1> DEFINE r == ROB[c]
           n == Retiring(r)
           later == ROB'[c]
<1>1. /\ r \in ReorderBuffer /\ later \in ReorderBuffer
      /\ n \in 0 .. r.inflight
      /\ \A i \in 0 .. n - 1 : r.comptime[Slot(r, i)] < 0
      /\ later.head = Slot(r, n) /\ later.inflight = r.inflight - n
  BY RetiredSlots
<1>2. PICK i \in 0 .. r.inflight - 1 : s = Slot(r, i)
  BY DEF InFlight
<1>3. r.inflight \in Nat
  BY <1>1, LoopSizes DEF ReorderBuffer
<1>4. r.comptime[s] \in Int /\ r.comptime[s] >= 0
  <2>1. s \in Slots
    <3>1. i \in Nat
      BY <1>2
    <3> HIDE DEF r
    <3> QED BY <1>1, <1>2, <3>1, SlotType
  <2> QED BY <1>1, <2>1, LoopSizes DEF ReorderBuffer
<1> HIDE DEF r, n, later
<1>5. i \in n .. r.inflight
  <2>1. i \notin 0 .. n - 1
    BY <1>1, <1>2, <1>4
  <2> QED BY <1>1, <1>2, <1>3, <2>1
<1>6. i - n \in 0 .. later.inflight - 1 /\ Slot(later, i - n) = s
  <2>1. Slot(later, i - n) = Slot(r, i)
    BY <1>1, <1>5, AfterRetiring
  <2>2. i - n \in 0 .. later.inflight - 1
    BY <1>1, <1>2, <1>3, <1>5
  <2> QED BY <1>2, <2>1, <2>2
<1> QED BY <1>6 DEF InFlight, later

LEMMA RetireSlots == ASSUME UsimmInv, SlotInv, InTime, Retire PROVE SlotInv'
<1>1. UNCHANGED read_queue
  BY DEF Retire, queueVars
<1>2. ASSUME NEW c \in Cores PROVE ROB'[c].tail = Slot(ROB'[c], ROB'[c].inflight)
  <2> DEFINE r == ROB[c]
             n == Retiring(r)
             later == ROB'[c]
  <2>1. /\ r \in ReorderBuffer /\ later \in ReorderBuffer /\ n \in 0 .. r.inflight
        /\ later.head = Slot(r, n) /\ later.inflight = r.inflight - n /\ later.tail = r.tail
    BY RetiredSlots
  <2>2. r.tail = Slot(r, r.inflight)
    BY DEF SlotInv
  <2>3. r.inflight \in Nat
    BY <2>1, LoopSizes DEF ReorderBuffer
  <2> HIDE DEF r, n, later
  <2>4. r.inflight \in n .. r.inflight
    BY <2>1, <2>3
  <2>5. Slot(later, r.inflight - n) = Slot(r, r.inflight)
    BY <2>1, <2>4, AfterRetiring
  <2>6. later.tail = Slot(later, later.inflight)
    BY <2>1, <2>2, <2>5
  <2> QED BY <2>6 DEF later
<1>3. ASSUME NEW i \in DOMAIN read_queue, ~read_queue[i].request_served
      PROVE  InFlight(read_queue[i].thread_id, read_queue[i].instruction_id)'
  <2> DEFINE c == read_queue[i].thread_id
             s == read_queue[i].instruction_id
  <2>1. c \in Cores /\ InFlight(c, s) /\ ROB[c].comptime[s] >= 0
    BY <1>3, CoreTypes DEF SlotInv, InTime
  <2>2. c' = c /\ s' = s
    BY <1>1
  <2> HIDE DEF c, s
  <2>3. \A d, t : d = c /\ t = s => InFlight(d, t)'
    BY <2>1, StaysInFlight
  <2> QED BY <1>1, <2>3 DEF c, s
<1> QED BY <1>1, <1>2, <1>3 DEF SlotInv

\* An instruction enters the buffer in a slot that was free, behind the others.
LEMMA EnteredSlots ==
  ASSUME UsimmInv, SlotInv, NEW c \in Cores, MayFetch(c), NEW comptime, EnterROB(c, comptime)
  PROVE  /\ \A d \in Cores : ROB'[d].tail = Slot(ROB'[d], ROB'[d].inflight)
         /\ \A d \in Cores : \A s : InFlight(d, s) => InFlight(d, s)'
         /\ \A s : s = ROB[c].tail => InFlight(c, s)'
         /\ ~InFlight(c, ROB[c].tail)
         /\ \A d \in Cores : d # c => ROB'[d] = ROB[d]
         /\ ROB'[c].head = ROB[c].head /\ ROB'[c].inflight = ROB[c].inflight + 1
         /\ ROB'[c].comptime = [ROB[c].comptime EXCEPT ![ROB[c].tail] = comptime]
<1> DEFINE r == ROB[c]
           later == ROB'[c]
<1>1. ROB \in [Cores -> ReorderBuffer]
  BY CoreTypes
<1>2. /\ r \in ReorderBuffer /\ r.inflight # ROBSIZE /\ r.tail = Slot(r, r.inflight)
      /\ r.inflight \in 0 .. ROBSIZE /\ ROBSIZE \in Nat
  BY <1>1, LoopSizes DEF MayFetch, SlotInv, ReorderBuffer
<1>3. later = [r EXCEPT !.comptime = [r.comptime EXCEPT ![r.tail] = comptime],
                        !.tail = (r.tail + 1) % ROBSIZE, !.inflight = r.inflight + 1]
  BY <1>1 DEF EnterROB
<1>4. \A d \in Cores : d # c => ROB'[d] = ROB[d]
  BY <1>1 DEF EnterROB
<1>5. /\ later.head = r.head /\ later.inflight = r.inflight + 1
      /\ later.tail = (r.tail + 1) % ROBSIZE
      /\ later.comptime = [r.comptime EXCEPT ![r.tail] = comptime]
  <2> HIDE DEF r, later
  <2> QED BY <1>2, <1>3 DEF ReorderBuffer
<1> HIDE DEF r, later
<1>6. /\ \A i \in 0 .. r.inflight - 1 : Slot(r, i) # r.tail
      /\ (r.tail + 1) % ROBSIZE = Slot(r, r.inflight + 1)
  BY <1>2, TailIsFree
<1>7. \A i : Slot(later, i) = Slot(r, i)
  BY <1>5 DEF Slot
<1>8. later.tail = Slot(later, later.inflight)
  BY <1>5, <1>6, <1>7
<1>9. \A d \in Cores : ROB'[d].tail = Slot(ROB'[d], ROB'[d].inflight)
  BY <1>4, <1>8 DEF later, SlotInv
<1>10. \A i \in 0 .. r.inflight - 1 : i \in 0 .. later.inflight - 1
  BY <1>2, <1>5
<1>11. ASSUME NEW d \in Cores, NEW s, InFlight(d, s) PROVE InFlight(d, s)'
  <2>1. CASE d # c
    BY <1>4, <1>11, <2>1 DEF InFlight
  <2>2. CASE d = c
    <3>1. PICK i \in 0 .. r.inflight - 1 : s = Slot(r, i)
      BY <1>11, <2>2 DEF InFlight, r
    <3> QED BY <3>1, <1>7, <1>10, <2>2 DEF InFlight, later
  <2> QED BY <2>1, <2>2
<1>12. \A s : s = ROB[c].tail => InFlight(c, s)'
  <2>1. r.inflight \in 0 .. later.inflight - 1 /\ r.tail = Slot(later, r.inflight)
    BY <1>2, <1>5, <1>7
  <2>2. \E i \in 0 .. ROB'[c].inflight - 1 : ROB[c].tail = Slot(ROB'[c], i)
    BY <2>1 DEF r, later
  <2> QED BY <2>2 DEF InFlight
<1>13. ~InFlight(c, ROB[c].tail)
  BY <1>6 DEF InFlight, r
<1> QED BY <1>4, <1>5, <1>9, <1>11, <1>12, <1>13 DEF r, later

LEMMA FetchedSlots ==
  ASSUME UsimmInv, SlotInv, NEW c \in Cores, MayFetch(c), NEW comptime, EnterROB(c, comptime),
         UNCHANGED read_queue
  PROVE  SlotInv'
<1>1. /\ \A d \in Cores : ROB'[d].tail = Slot(ROB'[d], ROB'[d].inflight)
      /\ \A d \in Cores : \A s : InFlight(d, s) => InFlight(d, s)'
  BY EnteredSlots
<1>2. ASSUME NEW i \in DOMAIN read_queue, ~read_queue[i].request_served
      PROVE  InFlight(read_queue[i].thread_id, read_queue[i].instruction_id)'
  <2> DEFINE d == read_queue[i].thread_id
             s == read_queue[i].instruction_id
  <2>1. d \in Cores /\ InFlight(d, s)
    BY <1>2, CoreTypes DEF SlotInv
  <2>2. d' = d /\ s' = s
    OBVIOUS
  <2> HIDE DEF d, s
  <2>3. \A e \in Cores : \A t : e = d /\ t = s => InFlight(e, t)'
    BY <1>1, <2>1
  <2> QED BY <2>1, <2>2, <2>3 DEF d, s
<1> QED BY <1>1, <1>2 DEF SlotInv

LEMMA InsertedSlots ==
  ASSUME UsimmInv, SlotInv, NEW c \in Cores, MayFetch(c), NEW comptime, EnterROB(c, comptime),
         NEW q, q.thread_id = c, q.instruction_id = ROB[c].tail,
         read_queue' = Append(read_queue, q)
  PROVE  SlotInv'
<1> DEFINE L == Len(read_queue)
<1>1. /\ \A d \in Cores : ROB'[d].tail = Slot(ROB'[d], ROB'[d].inflight)
      /\ \A d \in Cores : \A s : InFlight(d, s) => InFlight(d, s)'
      /\ \A s : s = ROB[c].tail => InFlight(c, s)'
      /\ ~InFlight(c, ROB[c].tail)
  BY EnteredSlots
<1>2. /\ L \in Nat /\ DOMAIN read_queue = 1 .. L /\ DOMAIN read_queue' = 1 .. L + 1
      /\ read_queue'[L + 1] = q /\ \A k \in 1 .. L : read_queue'[k] = read_queue[k]
  BY CoreTypes
<1>3. \A k \in 1 .. L + 1 : k = L + 1 \/ k \in 1 .. L
  BY <1>2
<1> HIDE DEF L
<1>4. ASSUME NEW k \in DOMAIN read_queue', ~read_queue'[k].request_served
      PROVE  \A d, s : /\ d = read_queue'[k].thread_id /\ s = read_queue'[k].instruction_id
                       => InFlight(d, s)'
  <2>1. CASE k = L + 1
    BY <1>1, <1>2, <2>1
  <2>2. CASE k \in 1 .. L
    <3>1. InFlight(read_queue[k].thread_id, read_queue[k].instruction_id)
      BY <1>2, <1>4, <2>2 DEF SlotInv
    <3>2. read_queue[k].thread_id \in Cores
      BY <1>2, <2>2, CoreTypes
    <3> QED BY <1>1, <1>2, <2>2, <3>1, <3>2
  <2> QED BY <1>2, <1>3, <2>1, <2>2
<1>5. ASSUME NEW k \in 1 .. L, ~read_queue[k].request_served
      PROVE  read_queue[k].thread_id # c \/ read_queue[k].instruction_id # ROB[c].tail
  <2>1. InFlight(read_queue[k].thread_id, read_queue[k].instruction_id)
    BY <1>2, <1>5 DEF SlotInv
  <2> QED BY <1>1, <2>1
<1>6. ASSUME NEW j \in DOMAIN read_queue', NEW k \in DOMAIN read_queue', j # k,
             ~read_queue'[j].request_served, ~read_queue'[k].request_served
      PROVE  \/ read_queue'[j].thread_id # read_queue'[k].thread_id
             \/ read_queue'[j].instruction_id # read_queue'[k].instruction_id
  <2>1. CASE j \in 1 .. L /\ k \in 1 .. L
    BY <1>2, <1>6, <2>1 DEF SlotInv
  <2>2. CASE j \in 1 .. L /\ k = L + 1
    BY <1>2, <1>5, <1>6, <2>2
  <2>3. CASE j = L + 1 /\ k \in 1 .. L
    BY <1>2, <1>5, <1>6, <2>3
  <2> QED BY <1>2, <1>3, <1>6, <2>1, <2>2, <2>3
<1>7. \A k \in DOMAIN read_queue' :
        ~read_queue'[k].request_served =>
          InFlight(read_queue[k].thread_id, read_queue[k].instruction_id)'
  BY <1>4 DEF InFlight
<1> QED BY <1>1, <1>6, <1>7 DEF SlotInv

LEMMA FetchSlots == ASSUME UsimmInv, SlotInv, Fetch PROVE SlotInv'
<1> PICK c \in Cores : FetchNonMemory(c) \/ FetchRead(c) \/ FetchWrite(c) \/ FetchNothing(c)
  BY DEF Fetch
<1>1. CASE FetchNonMemory(c)
  BY <1>1, FetchedSlots DEF FetchNonMemory, queueVars
<1>2. CASE FetchWrite(c)
  BY <1>2, FetchedSlots DEF FetchWrite
<1>3. CASE FetchNothing(c)
  BY <1>3, FetchNothingShrinks, ShrinkingKeeps
<1>4. CASE FetchRead(c)
  <2> DEFINE latency == ReadMatch(Addr(c))
             q == [physical_address |-> Addr(c), addr |-> CalcDramAddr(Addr(c)),
                   thread_id |-> c, instruction_id |-> ROB[c].tail, request_served |-> FALSE]
  <2>1. MayFetch(c)
    BY <1>4 DEF FetchRead
  <2>2. CASE latency # 0
    <3>1. EnterROB(c, latency + PIPELINEDEPTH) /\ UNCHANGED read_queue
      BY <1>4, <2>2 DEF FetchRead
    <3> QED BY <2>1, <3>1, FetchedSlots
  <2>3. CASE latency = 0
    <3>1. EnterROB(c, BIGNUM) /\ read_queue' = Append(read_queue, q)
      BY <1>4, <2>3 DEF FetchRead, InsertRead
    <3>2. q.thread_id = c /\ q.instruction_id = ROB[c].tail
      OBVIOUS
    <3> HIDE DEF q
    <3> QED BY <2>1, <3>1, <3>2, InsertedSlots
  <2> QED BY <2>2, <2>3
<1> QED BY <1>1, <1>2, <1>3, <1>4

LEMMA SlotStep == ASSUME UsimmInv, SlotInv, InTime, [UsimmNext]_usimmVars PROVE SlotInv'
<1>1. CASE Tick \/ MemoryCycle \/ AnySchedule \/ UNCHANGED usimmVars
  BY <1>1, TickShrinks, MemoryShrinks, ScheduleShrinks, IdleShrinks, ShrinkingKeeps
<1> QED BY <1>1, RetireSlots, FetchSlots DEF UsimmNext, LoopStep, Stop

LEMMA SlotInitially == ASSUME UsimmInit PROVE SlotInv
<1>1. read_queue = <<>>
  BY DEF UsimmInit, QueuesInit
<1>2. \A c \in Cores : ROB[c].head = 0 /\ ROB[c].tail = 0 /\ ROB[c].inflight = 0
  BY DEF UsimmInit
<1>3. Slot([head |-> 0], 0) = 0
  BY QueuesAssumption DEF Slot
<1>4. \A c \in Cores : Slot(ROB[c], 0) = 0
  BY <1>2, <1>3 DEF Slot
<1> QED BY <1>1, <1>2, <1>4 DEF SlotInv

LEMMA SlotInvariance == UsimmSpec /\ []InTime => []SlotInv
<1>1. UsimmInit => SlotInv
  BY SlotInitially
<1>2. UsimmInv /\ SlotInv /\ InTime /\ [UsimmNext]_usimmVars => SlotInv'
  BY SlotStep
<1>3. QED
  BY <1>1, <1>2, UsimmInvariance, PTL DEF UsimmSpec

\* A read that waits owns its slot, with any scheduler that serves the reads in time:
\* its instruction stays in flight until the data arrives, and no other read is given
\* the slot meanwhile.
THEOREM ReadsOwnTheirSlotsHolds == UsimmSpec /\ []InTime => []ReadsOwnTheirSlots
<1>1. SlotInv /\ InTime => ReadsOwnTheirSlots
  BY DEF SlotInv, InTime, ReadsOwnTheirSlots
<1>2. QED
  BY <1>1, SlotInvariance, PTL

\* The loop of main.c, which looks at the reorder buffers and the write queue only, does
\* not end while a read is left to be served, if the reads are served in time.
THEOREM DoneMeansDrainedHolds == UsimmSpec /\ []InTime => []DoneMeansDrained
<1>1. UsimmInit => DoneMeansDrained
  BY DEF UsimmInit, DoneMeansDrained
<1>2. ASSUME UsimmInv, SlotInv, DoneMeansDrained, [UsimmNext]_usimmVars PROVE DoneMeansDrained'
  <2>1. CASE Tick
    <3>1. \A c \in Cores : ~Finished \/ \A s : ~InFlight(c, s)
      BY DEF Finished, InFlight
    <3>2. Finished => \A i \in DOMAIN read_queue : read_queue[i].request_served
      BY <3>1, <1>2, CoreTypes DEF SlotInv
    <3> QED BY <2>1, <3>2 DEF Tick, DoneMeansDrained, Finished, queueVars
  <2>2. CASE ~expt_done /\ ~Tick
    <3>1. ~expt_done'
      BY <1>2, <2>2 DEF UsimmNext, LoopStep, AnySchedule, Stop, Retire, MemoryCycle, Fetch,
             FetchNonMemory, FetchRead, FetchWrite, FetchNothing, EnterROB, usimmVars, loopVars
    <3> QED BY <3>1 DEF DoneMeansDrained
  <2>3. CASE expt_done /\ ~Tick
    <3>1. UNCHANGED usimmVars
      BY <1>2, <2>3 DEF UsimmNext, LoopStep, AnySchedule, Stop
    <3> QED BY <1>2, <3>1 DEF DoneMeansDrained, usimmVars, queueVars, loopVars
  <2> QED BY <2>1, <2>2, <2>3
<1>3. QED
  BY <1>1, <1>2, SlotInvariance, UsimmInvariance, PTL DEF UsimmSpec

-----------------------------------------------------------------------------
\* First come first served is a scheduler.

LEMMA FirstOfIn == ASSUME NEW S, S \subseteq Nat, S # {} PROVE FirstOf(S) \in S
<1>1. \E i \in S : \A j \in S : i <= j
  BY LeastNatural
<1> QED BY <1>1 DEF FirstOf

LEMMA ServedType ==
  ASSUME UsimmInv
  PROVE  DOMAIN Served \subseteq Nat /\ Ready \subseteq DOMAIN Served
<1>1. /\ read_queue \in Seq(ReadRequest) /\ write_queue \in Seq(WriteRequest)
  BY QueuesType
<1>2. DOMAIN read_queue \subseteq Nat /\ DOMAIN write_queue \subseteq Nat
  BY <1>1
<1> QED BY <1>2 DEF Served, Ready, IssuableIn

\* Serving a request of the queue that the cycle serves.
LEMMA ServeIs ==
  ASSUME NEW i \in DOMAIN Served, Serve(i)
  PROVE  (\E j \in DOMAIN read_queue : IssueRead(j)) \/ (\E j \in DOMAIN write_queue : IssueWrite(j))
BY DEF Served, Serve

LEMMA FcfsIsAny == ASSUME UsimmInv, FcfsSchedule PROVE AnySchedule
<1>1. CASE FcfsServe
  <2>1. FirstReady \in DOMAIN Served /\ Serve(FirstReady)
    BY <1>1, ServedType, FirstOfIn DEF FcfsServe, FirstReady
  <2> QED BY <2>1, ServeIs DEF FcfsSchedule, ScheduleStep, ScheduleThen, AnySchedule
<1>2. CASE FcfsIdle
  BY <1>2 DEF FcfsIdle, Nothing, FcfsSchedule, ScheduleStep, ScheduleThen, AnySchedule
<1> QED BY <1>1, <1>2 DEF FcfsSchedule, ScheduleStep, ScheduleThen

LEMMA MergingIsUsimm ==
  ASSUME UsimmInv, [MergingNext]_<<drainVars, original>>
  PROVE  [UsimmNext]_usimmVars
<1>1. CASE ~expt_done /\ \E c \in Cores : NotedFetch(c)
  BY <1>1 DEF NotedFetch, Fetch, MergingNext, UsimmNext, LoopStep, Stop, drainVars
<1> QED BY <1>1, FcfsIsAny DEF MergingNext, UsimmNext, LoopStep, drainVars

\* The simulator with the scheduler of scheduler.c is one of the simulators of UsimmSpec,
\* so that all the theorems about those are true of it.
THEOREM MergingIsSimulator == MergingSpec => UsimmSpec
<1>1. MergingInit => UsimmInit
  BY DEF MergingInit, DrainInit
<1>2. UsimmInit => UsimmInv
  BY UsimmInitially
<1>3. UsimmInv /\ [MergingNext]_<<drainVars, original>> => [UsimmNext]_usimmVars
  BY MergingIsUsimm
<1>4. UsimmInv /\ [UsimmNext]_usimmVars => UsimmInv'
  BY UsimmStep
<1>5. QED
  BY <1>1, <1>2, <1>3, <1>4, PTL DEF MergingSpec, UsimmSpec

-----------------------------------------------------------------------------
\* Merged reads.

\* The read an instruction was merged with, if it is of the same core and still waits,
\* is of an older instruction.
OwnersFirst ==
  \A c \in Cores : \A i \in 0 .. ROB[c].inflight - 1 :
    \A owner \in original[c][Slot(ROB[c], i)] :
      owner[1] = c /\ Waits(owner) => \E j \in 0 .. i - 1 : owner[2] = Slot(ROB[c], j)

LEMMA WaitingOwner ==
  ASSUME UsimmInv, SlotInv, NEW owner, Waits(owner)
  PROVE  /\ owner[1] \in Cores /\ InFlight(owner[1], owner[2])
         /\ InTime => ROB[owner[1]].comptime[owner[2]] >= 0
BY CoreTypes DEF Waits, SlotInv, InTime

WaitsNext(owner) ==
  \E i \in DOMAIN read_queue' :
    /\ ~read_queue'[i].request_served
    /\ owner = <<read_queue'[i].thread_id, read_queue'[i].instruction_id>>

LEMMA OwnersNext ==
  ASSUME \A c \in Cores : \A i \in 0 .. ROB'[c].inflight - 1 :
           \A owner \in original'[c][Slot(ROB'[c], i)] :
             owner[1] = c /\ WaitsNext(owner) =>
               \E j \in 0 .. i - 1 : owner[2] = Slot(ROB'[c], j)
  PROVE  OwnersFirst'
BY DEF OwnersFirst, Waits, WaitsNext, Slot

\* Reads leave the queue, or are served.
LEMMA ShrinkingOwners ==
  ASSUME OwnersFirst, SlotsStay, UNCHANGED original, NEW f, Shrinks(f)
  PROVE  OwnersFirst'
<1>1. ASSUME NEW owner, WaitsNext(owner) PROVE Waits(owner)
  BY <1>1 DEF Waits, WaitsNext, Shrinks
<1>2. \A c \in Cores : \A i : Slot(ROB'[c], i) = Slot(ROB[c], i)
  BY DEF SlotsStay, Slot
<1>3. \A c \in Cores : ROB'[c].inflight = ROB[c].inflight
  BY DEF SlotsStay
<1>4. \A c \in Cores : \A i \in 0 .. ROB'[c].inflight - 1 :
        \A owner \in original'[c][Slot(ROB'[c], i)] :
          owner[1] = c /\ WaitsNext(owner) =>
            \E j \in 0 .. i - 1 : owner[2] = Slot(ROB'[c], j)
  BY <1>1, <1>2, <1>3 DEF OwnersFirst
<1> QED BY <1>4, OwnersNext

LEMMA RetireOwners ==
  ASSUME UsimmInv, SlotInv, InTime, OwnersFirst, Retire, UNCHANGED original
  PROVE  OwnersFirst'
<1> SUFFICES ASSUME NEW c \in Cores, NEW k \in 0 .. ROB'[c].inflight - 1,
                    NEW owner \in original[c][Slot(ROB'[c], k)], owner[1] = c, Waits(owner)
             PROVE  \E j \in 0 .. k - 1 : owner[2] = Slot(ROB'[c], j)
  <2>1. read_queue' = read_queue
    BY DEF Retire, queueVars
  <2>2. \A owner : WaitsNext(owner) => Waits(owner)
    BY <2>1 DEF WaitsNext, Waits
  <2> QED BY <2>2, OwnersNext
<1> DEFINE r == ROB[c]
           n == Retiring(r)
           later == ROB'[c]
<1>1. /\ r \in ReorderBuffer /\ later \in ReorderBuffer
      /\ n \in 0 .. r.inflight
      /\ \A i \in 0 .. n - 1 : r.comptime[Slot(r, i)] < 0
      /\ later.head = Slot(r, n) /\ later.inflight = r.inflight - n
  BY RetiredSlots
<1>2. r.inflight \in Nat
  BY <1>1, LoopSizes DEF ReorderBuffer
<1>3. r.comptime[owner[2]] >= 0
  BY WaitingOwner
<1>4. \A i \in 0 .. r.inflight - 1 : \A other \in original[c][Slot(r, i)] :
        other[1] = c /\ Waits(other) => \E j \in 0 .. i - 1 : other[2] = Slot(r, j)
  BY DEF OwnersFirst
<1>5. k \in 0 .. later.inflight - 1 /\ owner \in original[c][Slot(later, k)]
  OBVIOUS
<1> HIDE DEF r, n, later
<1>6. k + n \in 0 .. r.inflight - 1 /\ k + n \in n .. r.inflight /\ (k + n) - n = k
  BY <1>1, <1>2, <1>5
<1>7. Slot(later, k) = Slot(r, k + n)
  <2>1. Slot(later, (k + n) - n) = Slot(r, k + n)
    BY <1>1, <1>6, AfterRetiring
  <2> QED BY <1>6, <2>1
<1>8. PICK j \in 0 .. (k + n) - 1 : owner[2] = Slot(r, j)
  BY <1>4, <1>5, <1>6, <1>7
<1>9. j \in n .. r.inflight
  <2>1. r.comptime[Slot(r, j)] \in Int
    <3>1. j \in Nat
      BY <1>8
    <3>2. Slot(r, j) \in Slots
      BY <1>1, <3>1, SlotType
    <3> QED BY <1>1, <3>2, LoopSizes DEF ReorderBuffer
  <2>2. j \notin 0 .. n - 1
    BY <1>1, <1>3, <1>8, <2>1
  <2> QED BY <1>1, <1>2, <1>6, <1>8, <2>2
<1>10. j - n \in 0 .. k - 1 /\ Slot(later, j - n) = owner[2]
  <2>1. Slot(later, j - n) = Slot(r, j)
    BY <1>1, <1>9, AfterRetiring
  <2>2. j - n \in 0 .. k - 1
    BY <1>1, <1>2, <1>5, <1>8, <1>9
  <2> QED BY <1>8, <2>1, <2>2
<1> QED BY <1>10 DEF later

\* The instruction that enters is younger than those it is merged with, and its slot is
\* taken off the reads that were in it before.
LEMMA FetchOwners ==
  ASSUME UsimmInv, SlotInv, OwnersFirst,
         NEW c \in Cores, MayFetch(c), NEW comptime, EnterROB(c, comptime),
         NEW others, Taken(c, others), \A owner \in others : Waits(owner),
         \A owner : WaitsNext(owner) => Waits(owner) \/ owner = <<c, ROB[c].tail>>
  PROVE  OwnersFirst'
<1> SUFFICES ASSUME NEW d \in Cores, NEW i \in 0 .. ROB'[d].inflight - 1,
                    NEW owner \in original'[d][Slot(ROB'[d], i)],
                    owner[1] = d, WaitsNext(owner)
             PROVE  \E j \in 0 .. i - 1 : owner[2] = Slot(ROB'[d], j)
  BY OwnersNext
<1>1. /\ ~InFlight(c, ROB[c].tail)
      /\ \A e \in Cores : e # c => ROB'[e] = ROB[e]
      /\ ROB'[c].head = ROB[c].head /\ ROB'[c].inflight = ROB[c].inflight + 1
  BY EnteredSlots
<1>2. ROB[d] \in ReorderBuffer /\ ROB[d].inflight \in Nat
  BY CoreTypes, LoopSizes DEF ReorderBuffer
<1>3. \A k : Slot(ROB'[d], k) = Slot(ROB[d], k)
  BY <1>1 DEF Slot
<1>4. Slot(ROB[d], i) \in Slots
  <2>1. i \in Nat
    OBVIOUS
  <2> QED BY <1>2, <2>1, SlotType
<1>5. owner \in IF d = c /\ Slot(ROB[d], i) = ROB[c].tail THEN others
                ELSE original[d][Slot(ROB[d], i)] \ {<<c, ROB[c].tail>>}
  BY <1>3, <1>4 DEF Taken
<1>6. CASE d = c /\ i = ROB[c].inflight
  <2>1. Slot(ROB[c], i) = ROB[c].tail
    BY <1>6 DEF SlotInv
  <2>2. Waits(owner)
    BY <1>5, <1>6, <2>1
  <2>3. InFlight(c, owner[2])
    BY <1>6, <2>2, WaitingOwner
  <2> QED BY <1>3, <1>6, <2>3 DEF InFlight
<1>7. CASE ~(d = c /\ i = ROB[c].inflight)
  <2>1. i \in 0 .. ROB[d].inflight - 1
    BY <1>1, <1>2, <1>7
  <2>2. ~(d = c /\ Slot(ROB[d], i) = ROB[c].tail)
    BY <1>1, <2>1 DEF InFlight
  <2>3. owner \in original[d][Slot(ROB[d], i)] /\ Waits(owner)
    BY <1>5, <2>2
  <2> QED BY <1>3, <2>1, <2>3 DEF OwnersFirst
<1> QED BY <1>6, <1>7

LEMMA WaitingForWaits ==
  ASSUME NEW addr, NEW owner \in WaitingFor(addr)
  PROVE  Waits(owner)
BY DEF WaitingFor, Waits

LEMMA NotedFetchOwners ==
  ASSUME UsimmInv, SlotInv, OwnersFirst, NEW c \in Cores, NotedFetch(c)
  PROVE  OwnersFirst'
<1>1. CASE UNCHANGED read_queue
  <2>1. \A owner : WaitsNext(owner) => Waits(owner)
    BY <1>1 DEF WaitsNext, Waits
  <2>2. CASE FetchNothing(c) /\ UNCHANGED original
    BY <2>2, FetchNothingShrinks, ShrinkingOwners
  <2>3. CASE (FetchNonMemory(c) \/ FetchWrite(c)) /\ Taken(c, {})
    <3>1. MayFetch(c) /\ \E t : EnterROB(c, t)
      BY <2>3 DEF FetchNonMemory, FetchWrite
    <3> QED BY <2>1, <2>3, <3>1, FetchOwners
  <2>4. CASE FetchRead(c) /\ Taken(c, IF Holds(write_queue, Addr(c)) THEN {}
                                      ELSE WaitingFor(Addr(c)))
    <3>1. MayFetch(c) /\ \E t : EnterROB(c, t)
      BY <2>4 DEF FetchRead
    <3>2. \A owner \in IF Holds(write_queue, Addr(c)) THEN {} ELSE WaitingFor(Addr(c)) :
            Waits(owner)
      BY WaitingForWaits
    <3> QED BY <2>1, <2>4, <3>1, <3>2, FetchOwners
  <2> QED BY <2>2, <2>3, <2>4 DEF NotedFetch
<1>2. CASE read_queue' # read_queue
  <2> DEFINE q == [physical_address |-> Addr(c), addr |-> CalcDramAddr(Addr(c)),
                   thread_id |-> c, instruction_id |-> ROB[c].tail, request_served |-> FALSE]
             others == IF Holds(write_queue, Addr(c)) THEN {} ELSE WaitingFor(Addr(c))
  <2>1. FetchRead(c) /\ Taken(c, others)
    BY <1>2 DEF NotedFetch, FetchNonMemory, FetchWrite, FetchNothing, queueVars
  <2>2. MayFetch(c) /\ EnterROB(c, BIGNUM) /\ read_queue' = Append(read_queue, q)
    BY <1>2, <2>1 DEF FetchRead, InsertRead
  <2>3. \A owner : WaitsNext(owner) => Waits(owner) \/ owner = <<c, ROB[c].tail>>
    <3>1. q.thread_id = c /\ q.instruction_id = ROB[c].tail
      OBVIOUS
    <3> HIDE DEF q
    <3>2. \A k \in DOMAIN read_queue' :
            read_queue'[k] = q \/ (k \in DOMAIN read_queue /\ read_queue'[k] = read_queue[k])
      BY <2>2, CoreTypes
    <3> QED BY <3>1, <3>2 DEF WaitsNext, Waits
  <2>4. \A owner \in others : Waits(owner)
    BY WaitingForWaits
  <2> HIDE DEF others
  <2> QED BY <2>1, <2>2, <2>3, <2>4, FetchOwners
<1> QED BY <1>1, <1>2

LEMMA OwnersStep ==
  ASSUME UsimmInv, SlotInv, InTime, OwnersFirst, [MergingNext]_<<drainVars, original>>
  PROVE  OwnersFirst'
<1>1. CASE UNCHANGED original /\ (MemoryCycle \/ Tick \/ AnySchedule \/ UNCHANGED usimmVars)
  BY <1>1, TickShrinks, MemoryShrinks, ScheduleShrinks, IdleShrinks, ShrinkingOwners
<1>2. CASE UNCHANGED original /\ Retire
  BY <1>2, RetireOwners
<1>3. CASE \E c \in Cores : NotedFetch(c)
  BY <1>3, NotedFetchOwners
<1> QED BY <1>1, <1>2, <1>3, FcfsIsAny DEF MergingNext, Stop, drainVars

\* Merging a read with another of the same core is harmless, although it is complete long
\* before the other: the core retires in order, and the other is of an older instruction.
THEOREM OwnMergesWaitHolds == MergingSpec /\ []InTime => OwnMergesWait
<1>1. MergingInit => OwnersFirst
  <2>1. ASSUME MergingInit, NEW c \in Cores PROVE 0 .. ROB[c].inflight - 1 = {}
    BY <2>1 DEF MergingInit, DrainInit, UsimmInit
  <2> QED BY <2>1 DEF OwnersFirst
<1>2. ASSUME UsimmInv, SlotInv, InTime, OwnersFirst, Retire,
             NEW c \in Cores, NEW s \in Retires(c), NEW owner \in original[c][s], owner[1] = c
      PROVE  ~Waits(owner)
  <2> DEFINE r == ROB[c]
             n == Retiring(r)
  <2>1. /\ r \in ReorderBuffer /\ n \in 0 .. r.inflight
        /\ \A i \in 0 .. n - 1 : r.comptime[Slot(r, i)] < 0
        /\ ROB'[c].inflight = r.inflight - n
    BY <1>2, RetiredSlots
  <2>2. r.inflight \in Nat
    BY <2>1, LoopSizes DEF ReorderBuffer
  <2>3. PICK i \in 0 .. r.inflight - ROB'[c].inflight - 1 : s = Slot(r, i)
    BY DEF Retires
  <2>4. SUFFICES ASSUME Waits(owner) PROVE FALSE
    OBVIOUS
  <2>5. r.comptime[owner[2]] >= 0
    BY <1>2, <2>4, WaitingOwner
  <2>6. \A k \in 0 .. r.inflight - 1 : \A other \in original[c][Slot(r, k)] :
          other[1] = c /\ Waits(other) => \E j \in 0 .. k - 1 : other[2] = Slot(r, j)
    BY <1>2 DEF OwnersFirst
  <2>7. owner \in original[c][s]
    BY <1>2
  <2> HIDE DEF r, n
  <2>8. i \in 0 .. n - 1 /\ i \in 0 .. r.inflight - 1
    BY <2>1, <2>2, <2>3
  <2>9. PICK j \in 0 .. i - 1 : owner[2] = Slot(r, j)
    BY <1>2, <2>3, <2>4, <2>6, <2>7, <2>8
  <2>10. j \in 0 .. n - 1 /\ j \in Nat
    BY <2>1, <2>2, <2>8, <2>9
  <2>11. r.comptime[Slot(r, j)] \in Int
    <3>1. Slot(r, j) \in Slots
      BY <2>1, <2>10, SlotType
    <3> QED BY <2>1, <3>1, LoopSizes DEF ReorderBuffer
  <2> QED BY <2>1, <2>5, <2>9, <2>10, <2>11
<1>3. UsimmInv /\ SlotInv /\ InTime /\ OwnersFirst =>
        [Retire => \A c \in Cores : \A s \in Retires(c) :
           \A owner \in original[c][s] : owner[1] = c => ~Waits(owner)]_<<drainVars, original>>
  BY <1>2
<1>4. UsimmInv /\ SlotInv /\ InTime /\ OwnersFirst /\ [MergingNext]_<<drainVars, original>>
        => OwnersFirst'
  BY OwnersStep
<1>5. QED
  BY <1>1, <1>3, <1>4, MergingIsSimulator, SlotInvariance, UsimmInvariance, PTL
     DEF MergingSpec, OwnMergesWait
=============================================================================
