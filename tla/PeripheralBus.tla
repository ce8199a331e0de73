--------------------------- MODULE PeripheralBus ---------------------------
(***************************************************************************)
(* How software reaches the copy engine: the core's data port splits in    *)
(* rtl/soc_top.v into the memory and the peripheral page, bus/obi_to_apb.v *)
(* turns an access to that page into an APB transfer, bus/apb_bus.v picks  *)
(* the peripheral, and core/dma_regs.v holds the job, the start pulse and  *)
(* the done flag of core/dma_master.v.                                     *)
(*                                                                         *)
(* One step is one rising clock edge.  The core may access anything at any *)
(* time, within the protocol of Ibex's load/store unit: one access at a    *)
(* time, or the two halves of a misaligned one, the second requested while *)
(* the first is being answered.  The bus of the engine is that of          *)
(* DmaMaster.tla.                                                          *)
(*                                                                         *)
(* Three ghosts remember the past: outstanding are the accesses that were  *)
(* granted and not answered, oldest first; performed counts the cycles in  *)
(* which the access in the bridge reached its peripheral; lastStart is     *)
(* what became of the last start that software wrote.                      *)
(***************************************************************************)
EXTENDS MemoryMap, Sequences

CONSTANTS
  LenMod,      \* length_o has 16 bits: LenMod is 2^16
  Accesses     \* what software does: [target, reg, we, value]

Targets == {"mem", "dma", "other"}
Regs == {"src", "dst", "len", "ctrl", "stat", "irq_ack", "none"}
Word == 0 .. AddrMod - 1

Access == [target : Targets, reg : Regs, we : BOOLEAN, value : Word]

ASSUME AccessAssumption ==
  /\ LenMod \in Nat /\ 4 < LenMod /\ LenMod <= AddrMod
  /\ Accesses \subseteq Access /\ Accesses # {}

VARIABLES
  cpu,                          \* the request on the data port
  periphTurn,                   \* cpu_response_from_periph
  memRvalid,                    \* cpu_rvalid of mem_subsystem
  bridge, regs,                 \* obi_to_apb, dma_regs
  copy, waiting, granted,       \* dma_master and its bus
  outstanding, performed, lastStart

coreVars == <<cpu, outstanding>>
busVars == <<periphTurn, memRvalid, bridge, performed>>
dmaVars == <<regs, copy, waiting, granted, lastStart>>
vars == <<coreVars, busVars, dmaVars>>

Copy == INSTANCE DmaMaster WITH
          Jobs <- [src : Addr, dst : Addr, len : 0..LenMod - 1]

SomeAccess == CHOOSE a \in Accesses : TRUE

\* half: "only" a whole access, "first" or "second" of a misaligned one.
NoCpuRequest == [req |-> FALSE, access |-> SomeAccess, half |-> "only"]

ToPeriph == cpu.req /\ cpu.access.target # "mem"
ToMem == cpu.req /\ ~ToPeriph

-----------------------------------------------------------------------------
(* bus/obi_to_apb.v                                                        *)

\* Mutant of ObiGnt: the bridge takes an access while it has one.
ObiGntAlways == ToPeriph

ObiGnt == bridge.state = "idle" /\ ToPeriph

CpuGnt == IF ToPeriph THEN ObiGnt ELSE cpu.req

CpuRvalid == IF periphTurn THEN bridge.rvalid ELSE memRvalid

BridgeInit ==
  bridge = [state |-> "idle", psel |-> FALSE, penable |-> FALSE, rvalid |-> FALSE,
            rdata |-> 0, access |-> SomeAccess]

BridgeReset ==
  bridge' = [bridge EXCEPT !.state = "idle", !.psel = FALSE, !.penable = FALSE,
                           !.rvalid = FALSE, !.rdata = 0]

BridgeIdle ==
  /\ bridge.state = "idle" /\ ~ToPeriph
  /\ bridge' = [bridge EXCEPT !.rvalid = FALSE]

BridgeTake ==
  /\ bridge.state = "idle" /\ ToPeriph
  /\ bridge' = [bridge EXCEPT !.rvalid = FALSE, !.access = cpu.access,
                              !.psel = TRUE, !.state = "setup"]

BridgeSetup ==
  /\ bridge.state = "setup"
  /\ bridge' = [bridge EXCEPT !.penable = TRUE, !.state = "access"]

\* Mutant of BridgeAccess: penable is not withdrawn.
BridgeAccessEnabled(prdata) ==
  /\ bridge.state = "access"
  /\ bridge' = [bridge EXCEPT !.rdata = prdata, !.psel = FALSE,
                              !.rvalid = TRUE, !.state = "idle"]

\* Every peripheral of soc_top has pready high.
BridgeAccess(prdata) ==
  /\ bridge.state = "access"
  /\ bridge' = [bridge EXCEPT !.rdata = prdata, !.psel = FALSE, !.penable = FALSE,
                              !.rvalid = TRUE, !.state = "idle"]

BridgeTick(prdata) == BridgeIdle \/ BridgeTake \/ BridgeSetup \/ BridgeAccess(prdata)

-----------------------------------------------------------------------------
(* core/dma_regs.v                                                         *)

RegsInit ==
  regs = [src |-> 0, dst |-> 0, len |-> 0, start |-> FALSE, abort |-> FALSE,
          irqAck |-> FALSE, done |-> FALSE]

RegsReset ==
  regs' = [src |-> 0, dst |-> 0, len |-> 0, start |-> FALSE, abort |-> FALSE,
           irqAck |-> FALSE, done |-> FALSE]

Bit(n, value) == (value \div n) % 2 = 1

\* s_psel[0] && penable && pwrite
Writes(reg) ==
  /\ bridge.psel /\ bridge.penable /\ bridge.access.we
  /\ bridge.access.target = "dma" /\ bridge.access.reg = reg

Written(reg, old) ==
  IF ~Writes(reg) THEN old
  ELSE IF reg = "len" THEN bridge.access.value % LenMod
  ELSE bridge.access.value

\* The bit of a control register that a write sets in this cycle.
Sets(reg, n) == Writes(reg) /\ Bit(n, bridge.access.value)

StartWritten == Sets("ctrl", 1)

\* Mutant of StartNext: the start is not a pulse.
StartHeld == regs.start \/ StartWritten

StartNext == StartWritten

\* Mutants of DoneNext: a start leaves the flag of the job before, and any
\* write to the control register clears it.
DoneNotCleared == ~Sets("irq_ack", 1) /\ (copy.done \/ regs.done)
DoneClearedByAny == ~Writes("ctrl") /\ ~Sets("irq_ack", 1) /\ (copy.done \/ regs.done)

\* done_sticky: a write that clears it wins over a done_i in the same cycle.
DoneNext == ~StartWritten /\ ~Sets("irq_ack", 1) /\ (copy.done \/ regs.done)

RegsTick ==
  regs' = [src |-> Written("src", regs.src), dst |-> Written("dst", regs.dst),
           len |-> Written("len", regs.len), start |-> StartNext,
           abort |-> Sets("ctrl", 2), irqAck |-> Sets("irq_ack", 1),
           done |-> DoneNext]

\* STAT: err, done and busy in bits 2, 1 and 0.
Status ==
  (IF copy.err THEN 4 ELSE 0) + (IF regs.done THEN 2 ELSE 0) + (IF copy.busy THEN 1 ELSE 0)

DmaPrdata ==
  CASE bridge.access.reg = "src" -> regs.src
    [] bridge.access.reg = "dst" -> regs.dst
    [] bridge.access.reg = "len" -> regs.len
    [] bridge.access.reg = "stat" -> Status
    [] OTHER -> 0

\* apb_bus: the other peripherals have registers of their own.
Prdata == IF ~bridge.psel THEN {0}
          ELSE IF bridge.access.target = "dma" THEN {DmaPrdata} ELSE {0, 1}

\* The wires from dma_regs to dma_master; abort_o is not connected.
EngineTick ==
  \E gnt, rvalid \in BOOLEAN, rdata \in Data :
    /\ Copy!Bus(gnt, rvalid)
    /\ Copy!Tick(regs.start, [src |-> regs.src, dst |-> regs.dst, len |-> regs.len],
                 gnt, rvalid, rdata)

-----------------------------------------------------------------------------
(* soc_top's choice of the response, the memory and the core.              *)

ResponseTurn == periphTurn' = IF cpu.req /\ CpuGnt THEN ToPeriph ELSE periphTurn

MemTick == memRvalid' = ToMem

Answered == IF CpuRvalid THEN Tail(outstanding) ELSE outstanding

CoreTick ==
  /\ outstanding' = IF CpuGnt THEN Append(Answered, cpu.access) ELSE Answered
  /\ \/ /\ cpu.req /\ ~CpuGnt
        /\ UNCHANGED cpu
     \* A misaligned access may run into the peripheral page, not out of it.
     \/ /\ CpuGnt /\ cpu.half = "first"
        /\ cpu' \in [req : {TRUE}, half : {"second"},
                     access : {a \in Accesses : (a.target = "mem" => ToMem)
                                                /\ a.we = cpu.access.we}]
     \/ /\ cpu.req => CpuGnt /\ cpu.half # "first"
        /\ cpu' = NoCpuRequest
     \/ /\ ~cpu.req /\ outstanding' = <<>>
        /\ cpu' \in [req : {TRUE}, half : {"only", "first"}, access : Accesses]

PerformedTick ==
  performed' = IF ObiGnt THEN 0
               ELSE IF bridge.psel /\ bridge.penable THEN performed + 1 ELSE performed

\* A start is clean if software writes it while busy_o is low.
LastStartTick ==
  lastStart' = IF StartWritten THEN IF copy.busy THEN "overrun" ELSE "clean"
               ELSE IF Sets("irq_ack", 1) THEN "none"
               ELSE IF copy.state = "done" /\ lastStart = "clean" THEN "ended"
               ELSE lastStart

Init ==
  /\ cpu = NoCpuRequest /\ periphTurn = FALSE /\ memRvalid = FALSE
  /\ BridgeInit /\ RegsInit /\ Copy!Init
  /\ outstanding = <<>> /\ performed = 0 /\ lastStart = "none"

ClockEdge ==
  /\ \E prdata \in Prdata : BridgeTick(prdata)
  /\ RegsTick /\ EngineTick
  /\ ResponseTurn /\ MemTick /\ CoreTick
  /\ PerformedTick /\ LastStartTick

ResetEdge ==
  /\ cpu' = NoCpuRequest /\ periphTurn' = FALSE /\ memRvalid' = FALSE
  /\ BridgeReset /\ RegsReset /\ Copy!ResetEdge
  /\ outstanding' = <<>> /\ performed' = 0 /\ lastStart' = "none"

Next == ClockEdge \/ ResetEdge

Spec == Init /\ [][Next]_vars

\* The clock does not stop.
FairSpec == Spec /\ WF_vars(ClockEdge)

-----------------------------------------------------------------------------
\* Every register stays within its width.
TypeOK ==
  /\ cpu \in [req : BOOLEAN, access : Access, half : {"only", "first", "second"}]
  /\ periphTurn \in BOOLEAN /\ memRvalid \in BOOLEAN
  /\ bridge \in [state : {"idle", "setup", "access"}, psel : BOOLEAN,
                 penable : BOOLEAN, rvalid : BOOLEAN, rdata : Word, access : Access]
  /\ regs \in [src : Addr, dst : Addr, len : 0..LenMod - 1, start : BOOLEAN,
               abort : BOOLEAN, irqAck : BOOLEAN, done : BOOLEAN]
  /\ outstanding \in Seq(Access) /\ performed \in Nat
  /\ lastStart \in {"none", "clean", "overrun", "ended"}

\* Each answer belongs to the oldest access that waits for one, from the side
\* it went to, and a peripheral access has then taken effect exactly once.  No
\* answer comes while soc_top.v:285 looks at the other side.
AnsweredInOrder ==
  /\ CpuRvalid => /\ outstanding # <<>>
                  /\ periphTurn <=> Head(outstanding).target # "mem"
                  /\ periphTurn => performed = 1
  /\ bridge.rvalid => periphTurn
  /\ memRvalid => ~periphTurn

\* Every access of the core is answered (obi_to_apb.v:39-62, soc_top.v:284-286).
AccessFinishes == outstanding # <<>> ~> outstanding = <<>>

\* A start that software writes while the engine is not busy finds it idle
\* when the pulse arrives, a cycle later: it is taken, or rejected for its
\* alignment, but never lost (dma_regs.v:60-64, dma_master.v:40-52).
StartIsSeen == regs.start /\ lastStart = "clean" => copy.state = "idle"

\* The done flag never speaks of an earlier job: after a start written while
\* the engine is not busy it stays low until that job has ended, although the
\* pulse of the job before may come as late as the write itself
\* (dma_regs.v:52-64).
DoneIsOfLastJob == regs.done => lastStart # "clean"

\* From its start until it is acknowledged or the next one is started, a job
\* shows in STAT as busy, done or failed, but for the cycles in which the start
\* pulse or the done pulse is under way (dma_regs.v:52-68, 80): a program that
\* polls cannot miss it.
JobIsVisible ==
  lastStart \in {"clean", "ended"} => regs.start \/ copy.done \/ Status # 0
=============================================================================
