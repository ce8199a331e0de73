------------------------ MODULE PeripheralBus_proofs ------------------------
(***************************************************************************)
(* The peripheral bus and the registers of the copy engine, for every set  *)
(* of accesses, every width and every behaviour of the engine's bus.       *)
(***************************************************************************)
EXTENDS PeripheralBus, SequenceTheorems, TLAPS

-----------------------------------------------------------------------------
(* The invariant of the bus: nothing is on its way, or the memory or the   *)
(* bridge is busy with one access or answers it in this cycle.  The second *)
(* half of a misaligned peripheral access is one too.                      *)

BridgeStrobes ==
  /\ bridge.psel <=> bridge.state # "idle"
  /\ bridge.penable <=> bridge.state = "access"

OneWaits(fromPeriph) ==
  \E a \in Access : outstanding = <<a>> /\ (fromPeriph <=> a.target # "mem")

Quiet ==
  outstanding = <<>> /\ bridge.state = "idle" /\ ~bridge.rvalid /\ ~memRvalid

MemAnswers ==
  /\ OneWaits(FALSE) /\ memRvalid /\ ~periphTurn
  /\ bridge.state = "idle" /\ ~bridge.rvalid

InBridge ==
  /\ OneWaits(TRUE) /\ ~memRvalid /\ periphTurn
  /\ bridge.state # "idle" /\ ~bridge.rvalid /\ performed = 0
  /\ cpu.req => ToPeriph

PeriphAnswers ==
  /\ OneWaits(TRUE) /\ ~memRvalid /\ periphTurn
  /\ bridge.state = "idle" /\ bridge.rvalid /\ performed = 1
  /\ cpu.req => ToPeriph

BusInOrder == Quiet \/ MemAnswers \/ InBridge \/ PeriphAnswers

(* The invariant of the registers and the engine.                          *)

EngineShape ==
  /\ copy \in Copy!Registers
  /\ copy.busy <=> copy.state # "idle"
  /\ copy.done => copy.state = "idle"

\* A start pulse comes in the cycle after its write, when the bridge is idle.
PulseAfterWrite == regs.start => bridge.state = "idle"

\* The end of an earlier job cannot come after a clean start.
NoLateDone == copy.done => lastStart # "clean"

\* Where the job of the last start shows.
JobShows ==
  /\ lastStart = "clean" => regs.start \/ copy.busy \/ copy.err
  /\ lastStart = "ended" => copy.done \/ regs.done

IInv ==
  /\ TypeOK /\ BridgeStrobes /\ BusInOrder
  /\ EngineShape /\ PulseAfterWrite /\ NoLateDone /\ JobShows
  /\ StartIsSeen /\ DoneIsOfLastJob

-----------------------------------------------------------------------------
LEMMA WordFacts ==
  /\ 0 \in Word /\ 0 \in 0..LenMod - 1 /\ Word = Addr
  /\ \A v \in Word : v % LenMod \in 0..LenMod - 1
  /\ \A n \in 0..LenMod - 1 : n \in Word
  /\ Status \in Word
  /\ SomeAccess \in Accesses /\ SomeAccess \in Access
<1>1. \A a \in Int, m \in Nat \ {0} : a % m \in 0..m - 1
  OBVIOUS
<1>2. \A v \in Word : v % LenMod \in 0..LenMod - 1
  BY <1>1, AccessAssumption DEF Word
<1>3. 0 \in Word /\ 0 \in 0..LenMod - 1 /\ Word = Addr
  BY MapAssumption, AccessAssumption DEF Word, Addr
<1>4. \A n \in 0..LenMod - 1 : n \in Word
  BY MapAssumption, AccessAssumption DEF Word
<1>5. SomeAccess \in Accesses /\ SomeAccess \in Access
  BY AccessAssumption DEF SomeAccess
<1>6. 8 <= AddrMod
  <2>1. 5 <= AddrMod
    BY MapAssumption, AccessAssumption
  <2>2. \A n \in Nat : n % 4 = 0 /\ 5 <= n => 8 <= n
    OBVIOUS
  <2> QED BY <2>1, <2>2, MapAssumption
<1>7. Status \in Word
  <2>1. \A x, y, z \in BOOLEAN :
          (IF x THEN 4 ELSE 0) + (IF y THEN 2 ELSE 0) + (IF z THEN 1 ELSE 0) \in 0..7
    OBVIOUS
  <2>2. Status \in 0..7
    BY DEF Status
  <2> QED BY <2>2, <1>6, MapAssumption DEF Word
<1> QED BY <1>2, <1>3, <1>4, <1>5, <1>7

\* The same for the map as the engine's module sees it.
LEMMA EngineFacts ==
  /\ Copy!Addr = Addr
  /\ \A a \in Addr : Copy!NextAddr(a) \in Addr
  /\ Copy!AnyData \in Data
  /\ Copy!NoRequest \in Copy!Request /\ ~Copy!NoRequest.req
<1>1. \A a \in Int, m \in Nat \ {0} : a % m \in 0..m - 1
  OBVIOUS
<1>2. Copy!Addr = Addr
  BY DEF Addr, Copy!Addr
<1>3. \A a \in Addr : Copy!NextAddr(a) \in Addr
  BY <1>1, MapAssumption DEF Addr, Copy!NextAddr
<1>4. Copy!AnyData \in Data
  BY MapAssumption DEF Copy!AnyData
<1>5. Copy!NoRequest \in Copy!Request /\ ~Copy!NoRequest.req
  BY <1>2, <1>4, WordFacts DEF Copy!NoRequest, Copy!Request
<1> QED BY <1>2, <1>3, <1>4, <1>5

LEMMA SingleAccess ==
  ASSUME NEW a \in Access
  PROVE  /\ <<a>> \in Seq(Access) /\ <<a>> # <<>>
         /\ Head(<<a>>) = a /\ Tail(<<a>>) = <<>> /\ Append(<<>>, a) = <<a>>
OBVIOUS

LEMMA InitInvariant == Init => IInv
<1> SUFFICES ASSUME Init PROVE IInv
  OBVIOUS
<1> USE WordFacts DEF Init, BridgeInit, RegsInit
<1>1. TypeOK
  <2>1. cpu \in [req : BOOLEAN, access : Access, half : {"only", "first", "second"}]
    BY DEF NoCpuRequest
  <2>2. bridge \in [state : {"idle", "setup", "access"}, psel : BOOLEAN,
                    penable : BOOLEAN, rvalid : BOOLEAN, rdata : Word, access : Access]
    OBVIOUS
  <2>3. regs \in [src : Addr, dst : Addr, len : 0..LenMod - 1, start : BOOLEAN,
                  abort : BOOLEAN, irqAck : BOOLEAN, done : BOOLEAN]
    OBVIOUS
  <2>4. outstanding \in Seq(Access)
    OBVIOUS
  <2> QED BY <2>1, <2>2, <2>3, <2>4 DEF TypeOK
<1>2. BridgeStrobes /\ BusInOrder
  BY DEF BridgeStrobes, BusInOrder, Quiet
<1>3. EngineShape
  BY EngineFacts DEF EngineShape, Copy!Init, Copy!Init0, Copy!Registers, Copy!States
<1>4. copy.done = FALSE /\ regs.start = FALSE /\ regs.done = FALSE /\ lastStart = "none"
  BY DEF Copy!Init, Copy!Init0
<1> QED
  BY <1>1, <1>2, <1>3, <1>4
  DEF IInv, PulseAfterWrite, NoLateDone, JobShows, StartIsSeen, DoneIsOfLastJob

-----------------------------------------------------------------------------
(* The core, the bridge and the response of a clock edge.                  *)

LEMMA BridgeKept ==
  ASSUME TypeOK, BridgeStrobes, NEW prdata \in Word, BridgeTick(prdata)
  PROVE  /\ bridge' \in [state : {"idle", "setup", "access"}, psel : BOOLEAN,
                         penable : BOOLEAN, rvalid : BOOLEAN, rdata : Word,
                         access : Access]
         /\ BridgeStrobes'
         /\ bridge.state = "idle" => bridge'.state = (IF ToPeriph THEN "setup" ELSE "idle")
         /\ bridge.state = "setup" => bridge'.state = "access"
         /\ bridge.state = "access" => bridge'.state = "idle"
         /\ bridge.state = "idle" => ~bridge'.rvalid
         /\ bridge.state = "setup" => bridge'.rvalid = bridge.rvalid
         /\ bridge.state = "access" => bridge'.rvalid
<1> USE DEF TypeOK, BridgeStrobes
<1>1. CASE BridgeIdle
  BY <1>1 DEF BridgeIdle
<1>2. CASE BridgeTake
  BY <1>2 DEF BridgeTake
<1>3. CASE BridgeSetup
  BY <1>3 DEF BridgeSetup
<1>4. CASE BridgeAccess(prdata)
  BY <1>4 DEF BridgeAccess
<1> QED BY <1>1, <1>2, <1>3, <1>4 DEF BridgeTick

LEMMA PrdataIsWord == ASSUME TypeOK PROVE Prdata \subseteq Word
<1>1. DmaPrdata \in Word
  BY WordFacts DEF DmaPrdata, TypeOK
<1>2. 1 \in Word
  BY MapAssumption, AccessAssumption DEF Word
<1> QED BY <1>1, <1>2, WordFacts DEF Prdata

\* What the core may show at its port in the next cycle.
LEMMA CoreKept ==
  ASSUME TypeOK, CoreTick, Answered \in Seq(Access)
  PROVE  /\ cpu' \in [req : BOOLEAN, access : Access, half : {"only", "first", "second"}]
         /\ outstanding' # <<>> /\ ~CpuGnt /\ cpu'.req => UNCHANGED cpu
         /\ CpuGnt /\ ToPeriph /\ cpu'.req => ToPeriph'
<1>0. CpuGnt => outstanding' # <<>>
  <2>1. cpu.access \in Access
    BY DEF TypeOK
  <2>2. Append(Answered, cpu.access) # <<>>
    BY <2>1, AppendProperties
  <2> QED BY <2>2 DEF CoreTick
<1> USE WordFacts, AccessAssumption DEF TypeOK, ToPeriph, ToMem
<1>1. CASE cpu.req /\ ~CpuGnt /\ UNCHANGED cpu
  BY <1>1
<1>2. CASE /\ CpuGnt /\ cpu.half = "first"
           /\ cpu' \in [req : {TRUE}, half : {"second"},
                        access : {a \in Accesses : (a.target = "mem" => ToMem)
                                                   /\ a.we = cpu.access.we}]
  BY <1>2
<1>3. CASE (cpu.req => CpuGnt /\ cpu.half # "first") /\ cpu' = NoCpuRequest
  BY <1>3 DEF NoCpuRequest
<1>4. CASE /\ ~cpu.req /\ outstanding' = <<>>
           /\ cpu' \in [req : {TRUE}, half : {"only", "first"}, access : Accesses]
  BY <1>0, <1>4
<1> QED BY <1>1, <1>2, <1>3, <1>4 DEF CoreTick

\* From each of the four situations, the answer of this cycle and the next
\* situation.
LEMMA BusKept ==
  ASSUME TypeOK, BridgeStrobes, BusInOrder, NEW prdata \in Word, BridgeTick(prdata),
         ResponseTurn, MemTick, CoreTick, PerformedTick
  PROVE  BusInOrder' /\ outstanding' \in Seq(Access) /\ performed' \in Nat
         /\ cpu' \in [req : BOOLEAN, access : Access, half : {"only", "first", "second"}]
<1> USE DEF BridgeStrobes
<1>1. /\ cpu.access \in Access /\ cpu.req \in BOOLEAN /\ memRvalid \in BOOLEAN
      /\ periphTurn \in BOOLEAN /\ bridge.rvalid \in BOOLEAN /\ performed \in Nat
      /\ bridge.state \in {"idle", "setup", "access"} /\ outstanding \in Seq(Access)
  BY DEF TypeOK
<1>2. Answered \in Seq(Access)
  <2>1. CpuRvalid => OneWaits(FALSE) \/ OneWaits(TRUE)
    BY DEF CpuRvalid, BusInOrder, Quiet, MemAnswers, InBridge, PeriphAnswers
  <2>2. CpuRvalid => Tail(outstanding) = <<>>
    BY <2>1, SingleAccess DEF OneWaits
  <2>3. <<>> \in Seq(Access)
    OBVIOUS
  <2> QED BY <1>1, <2>2, <2>3 DEF Answered
<1>3. cpu' \in [req : BOOLEAN, access : Access, half : {"only", "first", "second"}]
  BY <1>2, CoreKept
<1>4. outstanding' \in Seq(Access)
  BY <1>1, <1>2, AppendProperties DEF CoreTick
<1>5. performed' \in Nat
  BY <1>1 DEF PerformedTick
<1> SUFFICES BusInOrder'
  BY <1>3, <1>4, <1>5
<1>6. CpuGnt <=> cpu.req /\ (ToPeriph => bridge.state = "idle")
  BY <1>1 DEF CpuGnt, ObiGnt, ToPeriph
<1>7. ASSUME Answered = <<>>, bridge.state = "idle"
      PROVE  BusInOrder'
  <2>1. CASE ~cpu.req
    <3>1. outstanding' = <<>>
      BY <1>6, <1>7, <2>1 DEF CoreTick
    <3>2. bridge'.state = "idle" /\ ~bridge'.rvalid
      BY <1>7, <2>1, BridgeKept DEF ToPeriph
    <3>3. ~memRvalid'
      BY <2>1 DEF MemTick, ToMem
    <3> QED BY <3>1, <3>2, <3>3 DEF BusInOrder, Quiet
  <2>2. CASE ToMem
    <3>1. outstanding' = <<cpu.access>> /\ cpu.access.target = "mem" /\ ~ToPeriph
      BY <1>1, <1>6, <1>7, <2>2, SingleAccess DEF CoreTick, ToMem, ToPeriph
    <3>2. OneWaits(FALSE)'
      BY <1>1, <3>1 DEF OneWaits
    <3>3. memRvalid' /\ ~periphTurn'
      BY <1>6, <2>2, <3>1 DEF MemTick, ResponseTurn, ToMem
    <3>4. bridge'.state = "idle" /\ ~bridge'.rvalid
      BY <1>7, <3>1, BridgeKept
    <3> QED BY <3>2, <3>3, <3>4 DEF BusInOrder, MemAnswers
  <2>3. CASE ToPeriph
    <3>1. outstanding' = <<cpu.access>> /\ cpu.access.target # "mem" /\ cpu.req /\ CpuGnt
      BY <1>1, <1>6, <1>7, <2>3, SingleAccess DEF CoreTick, ToPeriph
    <3>2. OneWaits(TRUE)'
      BY <1>1, <3>1 DEF OneWaits
    <3>3. ~memRvalid' /\ periphTurn'
      BY <2>3, <3>1 DEF MemTick, ResponseTurn, ToMem
    <3>4. bridge'.state = "setup" /\ ~bridge'.rvalid
      BY <1>7, <2>3, BridgeKept
    <3>5. performed' = 0
      BY <1>7, <2>3 DEF PerformedTick, ObiGnt
    <3>6. cpu'.req => ToPeriph'
      BY <1>2, <2>3, <3>1, CoreKept
    <3> QED BY <3>2, <3>3, <3>4, <3>5, <3>6 DEF BusInOrder, InBridge
  <2> QED BY <2>1, <2>2, <2>3 DEF ToMem
<1>8. CASE Quiet
  <2>1. Answered = <<>>
    BY <1>8 DEF Quiet, Answered, CpuRvalid
  <2> QED BY <1>7, <1>8, <2>1 DEF Quiet
<1>9. CASE MemAnswers
  <2>1. Answered = <<>>
    BY <1>9, SingleAccess DEF MemAnswers, OneWaits, Answered, CpuRvalid
  <2> QED BY <1>7, <1>9, <2>1 DEF MemAnswers
<1>10. CASE PeriphAnswers
  <2>1. Answered = <<>>
    BY <1>10, SingleAccess DEF PeriphAnswers, OneWaits, Answered, CpuRvalid
  <2> QED BY <1>7, <1>10, <2>1 DEF PeriphAnswers
<1>11. CASE InBridge
  <2>1. ~CpuGnt /\ ~ObiGnt /\ ~ToMem
    BY <1>6, <1>11 DEF InBridge, ObiGnt, ToMem, ToPeriph
  <2>2. outstanding' = outstanding
    BY <1>11, <2>1 DEF InBridge, CoreTick, Answered, CpuRvalid
  <2>3. OneWaits(TRUE)' /\ outstanding' # <<>>
    BY <1>11, <2>2, SingleAccess DEF InBridge, OneWaits
  <2>4. ~memRvalid' /\ periphTurn'
    BY <1>11, <2>1 DEF InBridge, MemTick, ResponseTurn
  <2>5. cpu'.req => ToPeriph'
    BY <1>2, <1>11, <2>1, <2>3, CoreKept DEF InBridge, ToPeriph
  <2>6. CASE bridge.state = "setup"
    <3>1. bridge'.state = "access" /\ ~bridge'.rvalid
      BY <1>11, <2>6, BridgeKept DEF InBridge
    <3>2. performed' = 0
      BY <1>11, <2>1, <2>6 DEF InBridge, PerformedTick
    <3> QED BY <2>3, <2>4, <2>5, <3>1, <3>2 DEF BusInOrder, InBridge
  <2>7. CASE bridge.state = "access"
    <3>1. bridge'.state = "idle" /\ bridge'.rvalid
      BY <2>7, BridgeKept
    <3>2. performed' = 1
      BY <1>11, <2>1, <2>7 DEF InBridge, PerformedTick
    <3> QED BY <2>3, <2>4, <2>5, <3>1, <3>2 DEF BusInOrder, PeriphAnswers
  <2> QED BY <1>1, <1>11, <2>6, <2>7 DEF InBridge
<1> QED BY <1>8, <1>9, <1>10, <1>11 DEF BusInOrder

-----------------------------------------------------------------------------
(* The registers and the engine.                                           *)

LEMMA RegsTyped ==
  ASSUME TypeOK, RegsTick
  PROVE  regs' \in [src : Addr, dst : Addr, len : 0..LenMod - 1, start : BOOLEAN,
                    abort : BOOLEAN, irqAck : BOOLEAN, done : BOOLEAN]
<1>1. bridge.access.value \in Word
  BY DEF TypeOK, Access
<1>2. Written("src", regs.src) \in Addr /\ Written("dst", regs.dst) \in Addr
  BY <1>1, WordFacts DEF Written, TypeOK
<1>3. Written("len", regs.len) \in 0..LenMod - 1
  BY <1>1, WordFacts DEF Written, TypeOK
<1>4. /\ StartNext \in BOOLEAN /\ Sets("ctrl", 2) \in BOOLEAN
      /\ Sets("irq_ack", 1) \in BOOLEAN /\ DoneNext \in BOOLEAN
  BY DEF StartNext, StartWritten, Sets, DoneNext
<1> QED BY <1>2, <1>3, <1>4 DEF RegsTick

\* What an edge does to the state, the flags and the registers of the engine,
\* given the start pulse of this cycle.
LEMMA EngineKept ==
  ASSUME TypeOK, EngineShape, EngineTick
  PROVE  /\ EngineShape'
         /\ copy'.done <=> copy.state = "done"
         /\ copy.err => copy'.err
         /\ copy.state = "idle" /\ ~regs.start => copy'.state = "idle"
         /\ copy.state = "idle" /\ regs.start => copy'.busy \/ copy'.err
         /\ copy.state \notin {"idle", "done"} => copy'.busy
<1> DEFINE job == [src |-> regs.src, dst |-> regs.dst, len |-> regs.len]
<1>1. PICK gnt \in BOOLEAN, rvalid \in BOOLEAN, rdata \in Data :
        Copy!Tick(regs.start, job, gnt, rvalid, rdata)
  BY DEF EngineTick
<1>2. job.src \in Addr /\ job.dst \in Addr /\ job.len \in 0..LenMod - 1
  BY DEF TypeOK
<1> HIDE DEF job
<1> USE EngineFacts DEF EngineShape, Copy!Registers, Copy!States
<1>3. CASE Copy!Idle(regs.start)
  BY <1>3 DEF Copy!Idle
<1>4. CASE Copy!Reject(regs.start, job)
  BY <1>4 DEF Copy!Reject
<1>5. CASE Copy!Accept(regs.start, job)
  BY <1>2, <1>5 DEF Copy!Accept
<1>6. CASE Copy!Fetch(gnt)
  BY <1>6 DEF Copy!Fetch, Copy!FetchPort, Copy!Request
<1>7. CASE Copy!AwaitData(rvalid, rdata)
  BY <1>7 DEF Copy!AwaitData
<1>8. CASE Copy!StoreRequest(gnt)
  BY <1>8 DEF Copy!StoreRequest, Copy!StorePort, Copy!Request
<1>9. CASE Copy!StoreGranted(gnt)
  <2>1. (IF Copy!LastWord THEN copy.left ELSE copy.left - 4) \in 0..LenMod - 1
    BY AccessAssumption DEF Copy!LastWord
  <2>2. Copy!StorePort(FALSE) \in Copy!Request
    BY DEF Copy!StorePort, Copy!Request
  <2> QED BY <1>9, <2>1, <2>2 DEF Copy!StoreGranted
<1>10. CASE Copy!Finish
  BY <1>10 DEF Copy!Finish
<1> QED
  BY <1>1, <1>3, <1>4, <1>5, <1>6, <1>7, <1>8, <1>9, <1>10 DEF Copy!Tick

\* A start and an acknowledgement are writes: they come in the last cycle of
\* the bridge, so no start pulse is under way.
LEMMA WritesEndAccess ==
  ASSUME BridgeStrobes, PulseAfterWrite
  PROVE  /\ StartWritten => bridge.state = "access" /\ ~regs.start
         /\ ~(StartWritten /\ Sets("irq_ack", 1))
BY DEF BridgeStrobes, PulseAfterWrite, StartWritten, Sets, Writes

\* What the flags of the registers say of the last start.
LEMMA JobKept ==
  ASSUME IInv, NEW prdata \in Word, BridgeTick(prdata), RegsTick, EngineTick, LastStartTick
  PROVE  /\ PulseAfterWrite' /\ NoLateDone' /\ JobShows' /\ StartIsSeen'
         /\ DoneIsOfLastJob' /\ lastStart' \in {"none", "clean", "overrun", "ended"}
<1> USE DEF IInv
<1>1. lastStart' \in {"none", "clean", "overrun", "ended"}
  BY DEF TypeOK, LastStartTick
<1>2. regs'.start = StartWritten
  BY DEF RegsTick, StartNext
<1>3. regs'.done = DoneNext
  BY DEF RegsTick
<1>4. PulseAfterWrite'
  BY <1>2, WritesEndAccess, BridgeKept DEF PulseAfterWrite
<1>5. copy.state = "done" => copy.busy
  BY DEF EngineShape
<1>6. NoLateDone'
  BY <1>5, EngineKept DEF NoLateDone, LastStartTick
<1>7. DoneIsOfLastJob'
  BY <1>3 DEF DoneIsOfLastJob, NoLateDone, DoneNext, LastStartTick
<1>8. StartIsSeen'
  <2> SUFFICES ASSUME StartWritten, lastStart' = "clean" PROVE copy'.state = "idle"
    BY <1>2 DEF StartIsSeen
  <2>1. ~copy.busy /\ ~regs.start
    BY WritesEndAccess DEF LastStartTick
  <2> QED BY <2>1, EngineKept DEF EngineShape
<1>9. lastStart' = "clean" => regs'.start \/ copy'.busy \/ copy'.err
  <2> SUFFICES ASSUME lastStart' = "clean", ~StartWritten
               PROVE  copy'.busy \/ copy'.err
    BY <1>2
  <2>1. lastStart = "clean" /\ copy.state # "done"
    BY DEF LastStartTick
  <2>2. regs.start \/ copy.busy \/ copy.err
    BY <2>1 DEF JobShows
  <2>3. CASE copy.state = "idle"
    BY <2>2, <2>3, EngineKept DEF EngineShape
  <2>4. CASE copy.state # "idle"
    BY <2>1, <2>4, EngineKept
  <2> QED BY <2>3, <2>4
<1>10. lastStart' = "ended" => copy'.done \/ regs'.done
  <2> SUFFICES ASSUME lastStart' = "ended" PROVE copy'.done \/ regs'.done
    OBVIOUS
  <2>1. ~StartWritten /\ ~Sets("irq_ack", 1) /\ (copy.state = "done" \/ lastStart = "ended")
    BY DEF LastStartTick
  <2>2. CASE copy.state = "done"
    BY <2>2, EngineKept
  <2>3. CASE lastStart = "ended"
    BY <1>3, <2>1, <2>3 DEF JobShows, DoneNext
  <2> QED BY <2>1, <2>2, <2>3
<1> QED BY <1>1, <1>4, <1>6, <1>7, <1>8, <1>9, <1>10 DEF JobShows

-----------------------------------------------------------------------------
LEMMA ClockEdgeInvariant == IInv /\ ClockEdge => IInv'
<1> SUFFICES ASSUME IInv, ClockEdge PROVE IInv'
  OBVIOUS
<1> USE DEF IInv, ClockEdge
<1>1. PICK prdata \in Word : BridgeTick(prdata)
  BY PrdataIsWord
<1>2. BridgeStrobes'
  BY <1>1, BridgeKept
<1>3. BusInOrder' /\ outstanding' \in Seq(Access) /\ performed' \in Nat
      /\ cpu' \in [req : BOOLEAN, access : Access, half : {"only", "first", "second"}]
  BY <1>1, BusKept
<1>4. EngineShape'
  BY EngineKept
<1>5. /\ PulseAfterWrite' /\ NoLateDone' /\ JobShows' /\ StartIsSeen'
      /\ DoneIsOfLastJob' /\ lastStart' \in {"none", "clean", "overrun", "ended"}
  BY <1>1, JobKept
<1>6. periphTurn' \in BOOLEAN /\ memRvalid' \in BOOLEAN
  BY DEF TypeOK, ResponseTurn, MemTick, ToMem, ToPeriph
<1>7. TypeOK'
  <2>1. bridge' \in [state : {"idle", "setup", "access"}, psel : BOOLEAN,
                     penable : BOOLEAN, rvalid : BOOLEAN, rdata : Word, access : Access]
    BY <1>1, BridgeKept
  <2> QED BY <1>3, <1>5, <1>6, <2>1, RegsTyped DEF TypeOK
<1> QED BY <1>2, <1>3, <1>4, <1>5, <1>7

LEMMA ResetEdgeInvariant == IInv /\ ResetEdge => IInv'
<1> SUFFICES ASSUME IInv, ResetEdge PROVE IInv'
  OBVIOUS
<1> USE WordFacts DEF IInv, ResetEdge
<1>1. TypeOK'
  <2>1. (cpu \in [req : BOOLEAN, access : Access, half : {"only", "first", "second"}])'
    BY DEF NoCpuRequest
  <2>2. (bridge \in [state : {"idle", "setup", "access"}, psel : BOOLEAN,
                     penable : BOOLEAN, rvalid : BOOLEAN, rdata : Word, access : Access])'
    BY DEF TypeOK, BridgeReset
  <2>3. (regs \in [src : Addr, dst : Addr, len : 0..LenMod - 1, start : BOOLEAN,
                   abort : BOOLEAN, irqAck : BOOLEAN, done : BOOLEAN])'
    BY DEF RegsReset
  <2>4. outstanding' \in Seq(Access)
    OBVIOUS
  <2> QED BY <2>1, <2>2, <2>3, <2>4 DEF TypeOK
<1>2. BridgeStrobes' /\ BusInOrder'
  BY DEF TypeOK, BridgeReset, BridgeStrobes, BusInOrder, Quiet
<1>3. EngineShape' /\ copy'.done = FALSE
  BY EngineFacts DEF EngineShape, Copy!ResetEdge, Copy!Reset, Copy!Registers, Copy!States,
                     Copy!Request
<1>4. regs'.start = FALSE /\ regs'.done = FALSE /\ lastStart' = "none"
  BY DEF RegsReset
<1> QED
  BY <1>1, <1>2, <1>3, <1>4
  DEF PulseAfterWrite, NoLateDone, JobShows, StartIsSeen, DoneIsOfLastJob

LEMMA NextInvariant == IInv /\ [Next]_vars => IInv'
<1>1. IInv /\ UNCHANGED vars => IInv'
  <2> SUFFICES ASSUME IInv, UNCHANGED vars PROVE IInv'
    OBVIOUS
  <2> USE DEF IInv, vars, coreVars, busVars, dmaVars
  <2>1. TypeOK' /\ BridgeStrobes' /\ EngineShape'
    BY DEF TypeOK, BridgeStrobes, EngineShape
  <2>2. BusInOrder'
    BY DEF BusInOrder, Quiet, MemAnswers, InBridge, PeriphAnswers, OneWaits, ToPeriph
  <2>3. PulseAfterWrite' /\ NoLateDone' /\ JobShows' /\ StartIsSeen' /\ DoneIsOfLastJob'
    BY DEF PulseAfterWrite, NoLateDone, JobShows, StartIsSeen, DoneIsOfLastJob
  <2> QED BY <2>1, <2>2, <2>3
<1> QED BY <1>1, ClockEdgeInvariant, ResetEdgeInvariant DEF Next

LEMMA SpecInvariant == Spec => []IInv
BY InitInvariant, NextInvariant, PTL DEF Spec

\* The registers keep their types; the length keeps its width.
THEOREM TypeCorrect == Spec => []TypeOK
<1>1. IInv => TypeOK
  BY DEF IInv
<1> QED BY <1>1, SpecInvariant, PTL

\* Every answer goes to the oldest waiting access, from its side, after exactly
\* one cycle of effect if it is a peripheral's (soc_top.v:48-55, 284-286,
\* obi_to_apb.v:39-62).
THEOREM AnswersOrdered == Spec => []AnsweredInOrder
<1>1. IInv => AnsweredInOrder
  <2> SUFFICES ASSUME IInv PROVE AnsweredInOrder
    OBVIOUS
  <2> USE SingleAccess DEF IInv, AnsweredInOrder, CpuRvalid, OneWaits
  <2>1. CASE Quiet
    BY <2>1 DEF Quiet
  <2>2. CASE MemAnswers
    BY <2>2 DEF MemAnswers
  <2>3. CASE InBridge
    BY <2>3 DEF InBridge
  <2>4. CASE PeriphAnswers
    BY <2>4 DEF PeriphAnswers
  <2> QED BY <2>1, <2>2, <2>3, <2>4 DEF BusInOrder
<1> QED BY <1>1, SpecInvariant, PTL

\* A start written while the engine is not busy is taken or rejected, never
\* lost (dma_regs.v:60-64, dma_master.v:40-52).
THEOREM StartNotLost == Spec => []StartIsSeen
<1>1. IInv => StartIsSeen
  BY DEF IInv
<1> QED BY <1>1, SpecInvariant, PTL

\* The done flag is not that of an earlier job (dma_regs.v:52-68).
THEOREM DoneBelongs == Spec => []DoneIsOfLastJob
<1>1. IInv => DoneIsOfLastJob
  BY DEF IInv
<1> QED BY <1>1, SpecInvariant, PTL

\* A job that was started cleanly shows in the status until it is
\* acknowledged or followed by another (dma_regs.v:52-68, 80).
THEOREM JobShown == Spec => []JobIsVisible
<1>1. IInv => JobIsVisible
  <2> SUFFICES ASSUME IInv, lastStart \in {"clean", "ended"}, ~regs.start, ~copy.done
               PROVE  Status # 0
    BY DEF JobIsVisible
  <2>1. copy.busy \/ copy.err \/ regs.done
    BY DEF IInv, JobShows
  <2> QED BY <2>1 DEF Status
<1> QED BY <1>1, SpecInvariant, PTL
=============================================================================
