----------------------------- MODULE AddressMap -----------------------------
(***************************************************************************)
(* Physical addresses: how main.c gives the traces address spaces of their *)
(* own and makes room for them, and calc_dram_addr of                      *)
(* src/memory_controller.c, which takes an address apart.  Cores are       *)
(* numbered from 1 here and from 0 in the source.                          *)
(***************************************************************************)
EXTENDS DramTiming

CONSTANTS
  Cores,                          \* the cores, 1 .. NUMCORES
  TraceNames,                     \* [core -> name of its trace], the cases considered
  NUM_CHANNELS, NUM_COLUMNS,
  NUM_ROWS,                       \* rows of a bank in the configuration file
  CACHE_LINE_SIZE, ADDRESS_MAPPING,
  ADDRESS_BITS                    \* width of the addresses in a trace

\* main.c has memory chips for at most 16 cores, and quits without.
ASSUME CoresAssumption ==
  /\ IsFiniteSet(Cores) /\ Cores # {} /\ Cores = 1 .. Cardinality(Cores)
  /\ Cardinality(Cores) <= 16

\* 1 << n.
Pow2[n \in Nat] == IF n = 0 THEN 1 ELSE 2 * Pow2[n - 1]

\* The position of the highest bit of n.
LogBase2(n) == CHOOSE i \in 0 .. 31 : Pow2[i] <= n /\ n < Pow2[i + 1]

\* main.c asserts it of the configuration file.
ASSUME WidthsAssumption ==
  /\ ADDRESS_BITS \in Nat
  /\ LogBase2(NUM_CHANNELS) + LogBase2(NUM_RANKS) + LogBase2(NUM_BANKS) + LogBase2(NUM_ROWS)
       + LogBase2(NUM_COLUMNS) + LogBase2(CACHE_LINE_SIZE) = ADDRESS_BITS

\* calc_dram_addr sees only whole powers of two.
ASSUME PowersAssumption ==
  \A n \in {NUM_CHANNELS, NUM_RANKS, NUM_BANKS, NUM_ROWS, NUM_COLUMNS, CACHE_LINE_SIZE} :
    \E i \in 0 .. 31 : n = Pow2[i]

-----------------------------------------------------------------------------
\* Address spaces.

\* "Increase the address space and rows per bank depending on the number of input traces."
PowOf2Cores ==
  LET n == Cardinality(Cores) IN IF n = 1 THEN 1 ELSE Pow2[LogBase2(n - 1) + 1]

TotalRows == NUM_ROWS * PowOf2Cores

\* What the names of the trace files say: "MT0", "MT" for the other threads of an
\* application, "" for a trace of its own.
ASSUME NamesAssumption ==
  \A name \in TraceNames :
    /\ name \in [Cores -> {"", "MT0", "MT"}]
    /\ \A c \in Cores : name[c] = "MT" => \E d \in 1 .. c - 1 : name[d] = "MT0"

\* The last trace before c's that begins with "MT0".
CurrMTapp(name, c) ==
  CHOOSE d \in 1 .. c - 1 : name[d] = "MT0" /\ \A e \in d + 1 .. c - 1 : name[e] # "MT0"

PrefixTable(name) ==
  [c \in Cores |-> IF name[c] = "MT" THEN CurrMTapp(name, c) - 1 ELSE c - 1]

\* The most significant bits of an address are its trace's prefix.
Prefixed(addr, prefix) == addr + prefix * Pow2[ADDRESS_BITS]

\* The models with cores number the rows, whose number is an int.
ASSUME RowsAssumption == Rows = 0 .. TotalRows - 1 /\ TotalRows <= Pow2[30]

-----------------------------------------------------------------------------
\* Places.

\* The fields of an address above the offset in the cache line, least significant first.
Fields ==
  IF ADDRESS_MAPPING = 1
  THEN <<"column", "channel", "bank", "rank", "row">>
  ELSE <<"channel", "bank", "rank", "column", "row">>

FaultyWidth ==        \* the rows of the configuration file
  [column |-> LogBase2(NUM_COLUMNS), channel |-> LogBase2(NUM_CHANNELS),
   bank |-> LogBase2(NUM_BANKS), rank |-> LogBase2(NUM_RANKS), row |-> LogBase2(NUM_ROWS)]

Width ==
  [column |-> LogBase2(NUM_COLUMNS), channel |-> LogBase2(NUM_CHANNELS),
   bank |-> LogBase2(NUM_BANKS), rank |-> LogBase2(NUM_RANKS), row |-> LogBase2(TotalRows)]

\* The position of the lowest bit of each field.
Shift[i \in 1 .. 5] ==
  IF i = 1 THEN LogBase2(CACHE_LINE_SIZE) ELSE Shift[i - 1] + Width[Fields[i - 1]]

CalcDramAddr(physical_address) ==
  [field \in {"channel", "rank", "bank", "row", "column"} |->
     LET i == CHOOSE j \in 1 .. 5 : Fields[j] = field
     IN  (physical_address \div Pow2[Shift[i]]) % Pow2[Width[field]]]

\* The addresses of cache lines: in a trace, and in the address spaces of all traces.
LineAddresses == {a \in 0 .. Pow2[ADDRESS_BITS] - 1 : a % CACHE_LINE_SIZE = 0}
PhysicalAddresses == {Prefixed(a, c - 1) : a \in LineAddresses, c \in Cores}

\* A place of the DRAM holds one cache line of one address space: calc_dram_addr gives
\* different lines different places, whatever the number of traces.
PlacesApart ==
  \A a, b \in PhysicalAddresses : CalcDramAddr(a) = CalcDramAddr(b) => a = b
=============================================================================
