----------------------------- MODULE DmaSystem -----------------------------
(***************************************************************************)
(* rtl/soc_top.v around the system SRAM: the copy engine and the stream    *)
(* engine ask the arbiter, the arbiter asks the DMA port of the memory     *)
(* subsystem, and the core's load/store unit competes with them.  All      *)
(* registers move on the same clock edge, each from the values the others  *)
(* had before it.                                                          *)
(*                                                                         *)
(* The environment is the core (its loads and stores, and the start pulses *)
(* that its stores to the peripherals cause) and the result stream of the  *)
(* array.  Three ghosts remember the past: granted is what the last two    *)
(* edges granted on the DMA port, and promised and arbPassed belong to the *)
(* components (DataPort.tla, DmaArbiter.tla).                              *)
(***************************************************************************)
EXTENDS MemoryMap, Sequences

CONSTANTS
  LenMod, Jobs,               \* of the copy engine
  StreamLenMod, Configs,      \* of the stream engine
  CpuRequests,                \* loads and stores of the core
  CoreYields,                 \* the core stays off the SRAM while an engine is busy
  StreamStarts,               \* the values the stream's start pulse can take
  ResultBeats                 \* what the result stream of the array can carry

\* What the components assume of their constants, and what the system adds.
ASSUME SystemAssumption ==
  /\ LenMod \in Nat /\ LenMod > 4
  /\ Jobs # {} /\ Jobs \subseteq [src : Addr, dst : Addr, len : 0..LenMod - 1]
  /\ StreamLenMod \in Nat \ {0} /\ StreamLenMod % 4 = 0
  /\ Configs \subseteq
       [wgt : Addr, act : Addr, res : Addr,
        lenWgt : 0..StreamLenMod - 1, lenAct : 0..StreamLenMod - 1]
  /\ CpuRequests \subseteq Request
  /\ CoreYields \in BOOLEAN
  /\ StreamStarts \subseteq BOOLEAN /\ StreamStarts # {}
  /\ ResultBeats # {}
  /\ ResultBeats \subseteq [valid : BOOLEAN, last : BOOLEAN, data : Data]

VARIABLES
  copy, stream,                                          \* the engines
  nextStream, owner, ownerCount,                         \* the arbiter
  ram, ramDout, cpuRvalid, dmaReadPending, dmaRvalid,    \* the memory
  cpu, lsu,                                              \* the core
  granted, promised, arbPassed

engineVars == <<copy, stream>>
arbVars == <<nextStream, owner, ownerCount>>
memVars == <<ram, ramDout, cpuRvalid, dmaReadPending, dmaRvalid>>
coreVars == <<cpu, lsu>>
ghostVars == <<granted, promised, arbPassed>>
vars == <<engineVars, arbVars, memVars, coreVars, ghostVars>>

-----------------------------------------------------------------------------
(* What the ghosts say of each component's surroundings.                   *)

NoGrant == [by |-> "nobody", port |-> NoRequest, saw |-> AnyData]

IsRead(g) == g.port.req /\ ~g.port.we

GrantOf(client, g) == IF g.by = client THEN g.port ELSE NoRequest

OwnerOf(g) == IF IsRead(g) THEN <<g.by = "stream">> ELSE <<>>

Flight == OwnerOf(granted[2]) \o OwnerOf(granted[1])

CopyReads == \E i \in 1..2 : IsRead(granted[i]) /\ granted[i].by = "copy"

Copy == INSTANCE DmaMaster WITH
          waiting <- CopyReads, granted <- granted[1].by = "copy"

Stream == INSTANCE AxiStreamDma WITH
            pipe <- <<GrantOf("stream", granted[1]), GrantOf("stream", granted[2])>>

Arb == INSTANCE DmaArbiter WITH
         ClientRequest <- Request, streamIn <- stream.port, copyIn <- copy.port,
         flight <- Flight, passed <- arbPassed

\* What the DMA port of the memory may carry.
DmaPort == {r \in Request : r.req => ~InLocal(r.addr)}

\* soc_top keeps a request for the local buffers away from the memory, which
\* alone could grant it.
DmaRequest == [Arb!MemRequest EXCEPT !.req = Arb!MemReq /\ ~InLocal(Arb!Selected.addr)]

\* The four MAC ports of the memory subsystem are tied off.
Mem == INSTANCE DataPort WITH
         CpuRequests <- CpuRequests \cup {NoRequest},
         MacRequests <- {NoRequest},
         DmaRequests <- DmaPort,
         mac <- [m \in 0..3 |-> NoRequest], dma <- DmaRequest,
         macRr <- 0, macRvalid <- [m \in 0..3 |-> FALSE],
         passed <- [m \in 0..3 |-> 0]

CopyGnt == Arb!CopyGnt(Mem!DmaGnt)
StreamGnt == Arb!StreamGnt(Mem!DmaGnt)

-----------------------------------------------------------------------------
(* The core.  Ibex's load/store unit asks in one cycle, or in two in a row *)
(* for a misaligned access; every request to the memory is granted at      *)
(* once, and the next one follows the cycle of the last answer.            *)

CoreIdle ==
  /\ lsu = "free"
  /\ cpu' = NoRequest /\ lsu' = "free"

CoreRequest ==
  /\ lsu = "free"
  /\ CoreYields => ~copy'.busy /\ ~stream'.busy
  /\ cpu' \in {r \in CpuRequests : r.req}
  /\ lsu' \in {"first", "last"}

CoreSecondHalf ==
  /\ lsu = "first"
  /\ cpu' \in {r \in CpuRequests : r.req /\ r.we = cpu.we}
  /\ lsu' = "last"

CoreAnswered ==
  /\ lsu = "last"
  /\ cpu' = NoRequest /\ lsu' = "free"

CoreTick == CoreIdle \/ CoreRequest \/ CoreSecondHalf \/ CoreAnswered

\* A start pulse with the job it starts; without one the job does not matter.
Pulse == {[start |-> FALSE, job |-> CHOOSE j \in Jobs : TRUE]}
           \cup [start : {TRUE}, job : Jobs]

\* A start pulse follows a store of the core to a peripheral and comes with
\* its response: the core has no access to the memory on the bus then, and it
\* starts one engine at a time.
CanStart == lsu = "free" /\ ~cpu.req

\* The array marks its last result before the result buffer runs out of the
\* system SRAM.
Results == {r \in ResultBeats : InRam(NextAddr(stream.addr)) \/ r.last}

GhostTick ==
  /\ granted' =
       <<IF Mem!DmaGnt
           THEN [by |-> IF Arb!SelectStream THEN "stream" ELSE "copy",
                 port |-> DmaRequest,
                 saw |-> IF InRam(DmaRequest.addr) THEN ram[RamIndex(DmaRequest.addr)]
                                                   ELSE AnyData]
           ELSE NoGrant,
         granted[1]>>
  /\ Mem!GhostTick
  /\ Arb!PassedTick(Mem!DmaGnt)

Init ==
  /\ Copy!Init0 /\ Stream!Init0 /\ Arb!Init0 /\ Mem!Init0
  /\ cpu = NoRequest /\ lsu = "free"
  /\ granted = <<NoGrant, NoGrant>>
  /\ promised = <<Mem!NoPromise, Mem!NoPromise>>
  /\ arbPassed = [stream |-> 0, copy |-> 0]

ClockEdge ==
  /\ \E p \in Pulse, start \in StreamStarts :
       /\ p.start \/ start => CanStart /\ ~(p.start /\ start)
       /\ Copy!Tick(p.start, p.job, CopyGnt, Arb!CopyRvalid(dmaRvalid), ramDout)
       /\ \E cfg \in Configs, res \in Results :
            Stream!Tick(start, FALSE, cfg, StreamGnt, Arb!StreamRvalid(dmaRvalid),
                        ramDout, res)
  /\ Arb!Tick(Mem!DmaGnt, dmaRvalid)
  /\ Mem!Tick
  /\ CoreTick
  /\ GhostTick

ResetEdge ==
  /\ Copy!Reset /\ Stream!Reset /\ Arb!Reset /\ Mem!Reset
  /\ cpu' = NoRequest /\ lsu' = "free"
  /\ granted' = <<NoGrant, NoGrant>>
  /\ promised' = <<Mem!NoPromise, Mem!NoPromise>>
  /\ arbPassed' = [stream |-> 0, copy |-> 0]

Next == ClockEdge \/ ResetEdge

Spec == Init /\ [][Next]_vars

\* The clock does not stop.
FairSpec == Spec /\ WF_vars(ClockEdge)

-----------------------------------------------------------------------------
\* Each component meets in the system what its own module assumes of its
\* surroundings: the grants and answers of the engines, the order of the
\* answers and the requests (soc_top.v:130-183, mem_subsystem.v:123-231), so
\* that what is proved of a component alone holds here.
Contracts == Copy!Spec /\ Stream!Spec /\ Arb!Spec /\ Mem!Spec

\* The arbiter's owner queue follows the reads that the memory has accepted
\* and not answered, in its real two-cycle pipeline.
OwnersFollowMemory == Arb!OwnersMatchFlight /\ (dmaRvalid <=> IsRead(granted[2]))

\* The copy engine asks for a word of the local buffers (soc_top.v:183): it
\* waits for a grant that nobody can give, and the arbiter with it.
StuckAtLocal == copy.port.req /\ InLocal(copy.port.addr)

\* The stream engine reads its inputs.
Filling == stream.state \in {"fill_wgt", "wgt_wait", "fill_act", "act_wait"}

\* Both engines make progress, whatever the core does: a job of the copy engine
\* comes to an end, and the stream engine is done with its inputs, or reset,
\* unless the copy engine has met the window of the local buffers.  The core
\* leaves one cycle in three, and the arbiter takes turns (dma_arbiter.v:33,
\* 60-61, axi_stream_dma.v:115-163).
EnginesProgress ==
  /\ copy.busy ~> ~copy.busy \/ StuckAtLocal
  /\ Filling ~> stream.state \in {"run_array", "idle"} \/ StuckAtLocal

-----------------------------------------------------------------------------
(* The copy engine as a mover of words (WordCopy.tla).  A word is read at  *)
(* the edge that grants the fetch, and is on its way until data_buffer     *)
(* takes it.                                                               *)

Words(len) == IF len = 0 THEN 1 ELSE (len + 3) \div 4

WordOnItsWay ==
  IF IsRead(granted[1]) /\ granted[1].by = "copy" THEN granted[1].saw
                                                 ELSE granted[2].saw

PhaseOf == [idle |-> "idle", fetch |-> "read", wait_r |-> "write",
            store |-> "write", done |-> "over"]

CopyJob ==
  [phase |-> PhaseOf[copy.state],
   src |-> RamIndex(copy.src), dst |-> RamIndex(copy.dst),
   left |-> IF copy.state \in {"idle", "done"} THEN 0 ELSE Words(copy.left),
   held |-> IF copy.state = "wait_r" THEN WordOnItsWay ELSE copy.buffer]

Mover == INSTANCE WordCopy WITH
           Depth <- RamDepth, MaxWords <- Words(LenMod - 1), Value <- Data,
           memory <- ram, job <- CopyJob

\* When nobody else uses the SRAM while it is busy, the copy engine moves the
\* words of its job, one for a job of zero bytes, and touches nothing else
\* (dma_master.v, dma_arbiter.v and mem_subsystem.v together).
CopyMovesWords == Mover!MoverSpec

-----------------------------------------------------------------------------
(* What the comments and benches of the repository say, and the system     *)
(* does not do.                                                            *)

\* Read data belongs to the read it answers (dv/xcelium/soc_top_tb.sv:337-343
\* and 399-400 check it with both engines running).
ReadDataIsTheWordRead ==
  IsRead(granted[2]) /\ InRam(granted[2].port.addr) => ramDout = granted[2].saw
=============================================================================
