------------------------------ MODULE DataPort ------------------------------
(***************************************************************************)
(* rtl/core/mem_subsystem.v, data side: the CPU, four MAC masters and the  *)
(* DMA port share the single-ported system SRAM (rtl/macros/               *)
(* sram_wrapper.v).  The CPU comes first, then the MAC masters in a round  *)
(* robin, then the DMA.  One access per cycle; sram_dout is a register,    *)
(* and it is the read data of every master.                                *)
(*                                                                         *)
(* One step is one rising clock edge.  cpu, mac and dma are the requests   *)
(* on the ports in this cycle.  A CPU store with byte enables is a store   *)
(* of some word: the data it leaves behind is abstract.                    *)
(*                                                                         *)
(* Two ghosts remember the past: promised is the word that the DMA read    *)
(* under way saw at its grant, one entry per cycle, and passed counts, for *)
(* each MAC master, the grants to others while it waits.                   *)
(***************************************************************************)
EXTENDS MemoryMap

CONSTANTS
  CpuRequests, MacRequests, DmaRequests   \* what the ports can carry

ASSUME RequestAssumption ==
  CpuRequests \cup MacRequests \cup DmaRequests \subseteq Request

VARIABLES
  ram, ramDout,               \* u_ram.mem, sram_dout
  cpuRvalid, dmaReadPending, dmaRvalid,
  macRr, macRvalid,
  cpu, mac, dma,
  promised, passed

regs == <<ramDout, cpuRvalid, dmaReadPending, dmaRvalid, macRr, macRvalid>>
vars == <<ram, regs, cpu, mac, dma, promised, passed>>

Mac == 0..3

\* The order in which the MAC masters are considered: distance from mac_rr.
Rank(m) == (m - macRr) % 4

\* Mutant of MacGnt: the CPU does not come first.
MacGntBesideCpu(m) ==
  /\ mac[m].req
  /\ \A n \in Mac : mac[n].req => Rank(m) <= Rank(n)

MacGnt(m) ==
  /\ ~cpu.req
  /\ mac[m].req
  /\ \A n \in Mac : mac[n].req => Rank(m) <= Rank(n)

AnyMacGnt == \E m \in Mac : MacGnt(m)

DmaGnt == dma.req /\ ~cpu.req /\ ~\E m \in Mac : mac[m].req

\* arb_onehot and its multiplexer: the request that reaches the SRAM.
Arbitrated ==
  IF cpu.req THEN cpu
  ELSE IF AnyMacGnt THEN mac[CHOOSE m \in Mac : MacGnt(m)]
  ELSE IF dma.req THEN dma
  ELSE NoRequest

SramEnabled == Arbitrated.req /\ InRam(Arbitrated.addr)

SramIndex == RamIndex(Arbitrated.addr)

\* sram_wrapper: a write and the read register are both clocked by an access;
\* sram_dout gets the old word.
SramTick ==
  IF SramEnabled
    THEN /\ ramDout' = ram[SramIndex]
         /\ ram' = IF Arbitrated.we THEN [ram EXCEPT ![SramIndex] = Arbitrated.data]
                                    ELSE ram
    ELSE UNCHANGED <<ram, ramDout>>

\* Mutant of ResponseTick: a DMA read is answered one cycle after its grant.
ResponseTickEarly ==
  /\ cpuRvalid' = cpu.req
  /\ dmaReadPending' = (DmaGnt /\ ~dma.we)
  /\ dmaRvalid' = (DmaGnt /\ ~dma.we)
  /\ macRvalid' = [m \in Mac |-> MacGnt(m)]

ResponseTick ==
  /\ cpuRvalid' = cpu.req
  /\ dmaReadPending' = (DmaGnt /\ ~dma.we)
  /\ dmaRvalid' = dmaReadPending
  /\ macRvalid' = [m \in Mac |-> MacGnt(m)]

\* Mutant of RoundRobinTick: the pointer stays.
RoundRobinStays == UNCHANGED macRr

RoundRobinTick == macRr' = IF AnyMacGnt THEN (macRr + 1) % 4 ELSE macRr

Tick == SramTick /\ ResponseTick /\ RoundRobinTick

\* The SRAM and its output register have no reset.
Reset ==
  /\ UNCHANGED <<ram, ramDout>>
  /\ cpuRvalid' = FALSE /\ dmaReadPending' = FALSE /\ dmaRvalid' = FALSE
  /\ macRvalid' = [m \in Mac |-> FALSE]
  /\ macRr' = 0

Init0 ==
  /\ ram \in [RamWord -> Data]
  /\ ramDout \in Data
  /\ cpuRvalid = FALSE /\ dmaReadPending = FALSE /\ dmaRvalid = FALSE
  /\ macRvalid = [m \in Mac |-> FALSE]
  /\ macRr = 0

-----------------------------------------------------------------------------
(* The masters may ask for anything in any cycle.                          *)

NoPromise == [valid |-> FALSE, data |-> AnyData]

GhostTick ==
  /\ promised' = <<IF DmaGnt /\ ~dma.we /\ InRam(dma.addr)
                     THEN [valid |-> TRUE, data |-> ram[RamIndex(dma.addr)]]
                     ELSE NoPromise,
                   IF SramEnabled THEN NoPromise ELSE promised[1]>>
  /\ passed' = [m \in Mac |->
                  IF mac[m].req /\ mac'[m].req /\ ~MacGnt(m)
                    THEN passed[m] + (IF AnyMacGnt THEN 1 ELSE 0) ELSE 0]

MastersTick ==
  /\ cpu' \in CpuRequests /\ dma' \in DmaRequests
  /\ mac' \in [Mac -> MacRequests]

Init ==
  /\ Init0
  /\ cpu = NoRequest /\ dma = NoRequest /\ mac = [m \in Mac |-> NoRequest]
  /\ promised = <<NoPromise, NoPromise>>
  /\ passed = [m \in Mac |-> 0]

ClockEdge == Tick /\ MastersTick /\ GhostTick

ResetEdge ==
  /\ Reset /\ MastersTick
  /\ promised' = <<NoPromise, NoPromise>>
  /\ passed' = [m \in Mac |-> 0]

Next == ClockEdge \/ ResetEdge

Spec == Init /\ [][Next]_vars

-----------------------------------------------------------------------------
\* Every register stays within its width.
TypeOK ==
  /\ ram \in [RamWord -> Data] /\ ramDout \in Data
  /\ cpuRvalid \in BOOLEAN /\ dmaReadPending \in BOOLEAN /\ dmaRvalid \in BOOLEAN
  /\ macRr \in Mac /\ macRvalid \in [Mac -> BOOLEAN]
  /\ cpu \in Request /\ dma \in Request /\ mac \in [Mac -> Request]
  /\ promised \in [1..2 -> [valid : BOOLEAN, data : Data]]
  /\ passed \in [Mac -> Nat]

\* The DMA is answered in the second cycle after its grant, from a register
\* that every access overwrites.  The answer is the word as it was at the
\* grant if no master was served by the SRAM in the cycle between
\* (mem_subsystem.v:194-231).
UndisturbedReadIsExact ==
  promised[2].valid => dmaRvalid /\ ramDout = promised[2].data

\* Whoever is answered a cycle after its grant finds the word of its own
\* access in sram_dout, as it was at the grant: no other master's access of
\* the same cycle reaches the SRAM (mem_subsystem.v:88-135, 194-231).  The
\* answer to the DMA comes a cycle later and may fall into the same cycle as
\* one of these; the register then holds the other master's word, and what
\* is left to the DMA is UndisturbedReadIsExact.
AnsweredWithItsWord ==
  [][/\ cpuRvalid' /\ InRam(cpu.addr) => ramDout' = ram[RamIndex(cpu.addr)]
     /\ \A m \in Mac :
          macRvalid'[m] /\ InRam(mac[m].addr) => ramDout' = ram[RamIndex(mac[m].addr)]]_vars

\* A MAC master that keeps asking sees at most three grants to the others:
\* the pointer moves by one at each grant, whoever was granted
\* (mem_subsystem.v:81-121).
RoundRobinIsFair == \A m \in Mac : passed[m] <= 3
=============================================================================
