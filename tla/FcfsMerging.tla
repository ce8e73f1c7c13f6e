----------------------------- MODULE FcfsMerging -----------------------------
(***************************************************************************)
(* Fcfs with the memory of which read was merged with which, to say when a *)
(* merged read may retire.  read_matches_write_or_read_queue answers a     *)
(* read of an address some read is already waiting for with a constant     *)
(* latency, and keeps no link between the two.                             *)
(***************************************************************************)
EXTENDS Fcfs

VARIABLE original  \* [core -> [slot -> {} or the slot its read was merged with]]

MergingInit == DrainInit /\ original = [c \in Cores |-> [s \in Slots |-> {}]]

\* The reads still waiting for the address, as pairs of a core and a slot.
WaitingFor(addr) ==
  {<<q.thread_id, q.instruction_id>> :
     q \in {read_queue[i] : i \in {j \in DOMAIN read_queue :
              read_queue[j].physical_address = addr /\ ~read_queue[j].request_served}}}

\* The slot at the tail of core c is taken by an instruction merged with others.
Taken(c, others) ==
  original' = [d \in Cores |-> [s \in Slots |->
    IF d = c /\ s = ROB[c].tail THEN others ELSE original[d][s] \ {<<c, ROB[c].tail>>}]]

NotedFetch(c) ==
  \/ (FetchNonMemory(c) \/ FetchWrite(c)) /\ Taken(c, {})
  \/ FetchRead(c) /\ Taken(c, IF Holds(write_queue, Addr(c)) THEN {}
                              ELSE WaitingFor(Addr(c)))
  \/ FetchNothing(c) /\ UNCHANGED original

MergingNext ==
  \/ ~expt_done /\ UNCHANGED drain_writes /\ \E c \in Cores : NotedFetch(c)
  \/ ~expt_done /\ UNCHANGED <<drain_writes, original>> /\ (Retire \/ MemoryCycle \/ Tick)
  \/ (FcfsSchedule \/ (Stop /\ UNCHANGED drain_writes)) /\ UNCHANGED original

MergingSpec == MergingInit /\ [][MergingNext]_<<drainVars, original>>

-----------------------------------------------------------------------------

\* The slots core c retires in this step.
Retires(c) == {Slot(ROB[c], i) : i \in 0 .. ROB[c].inflight - ROB'[c].inflight - 1}

\* The read in this slot still waits in the read queue.
Waits(owner) ==
  \E i \in DOMAIN read_queue :
    /\ ~read_queue[i].request_served
    /\ owner = <<read_queue[i].thread_id, read_queue[i].instruction_id>>

\* Within a core merging is harmless, although the merged read is complete long
\* before the read it was merged with: retirement in order holds it back.
OwnMergesWait ==
  [][Retire => \A c \in Cores : \A s \in Retires(c) :
       \A owner \in original[c][s] : owner[1] = c => ~Waits(owner)]_<<drainVars, original>>
=============================================================================
