------------------------- MODULE MemSubsystem_proofs -------------------------
(***************************************************************************)
(* The two sides of mem_subsystem.v, which share nothing but the clock.    *)
(* The data port for every memory, every map and every traffic: which read *)
(* answers of the DMA can be trusted, and the fairness of the round robin. *)
(* The fetch port for every firmware image and every fetch behaviour.      *)
(***************************************************************************)
EXTENDS DataPort, InstrPort, SequenceTheorems, TLAPS

\* The word a DMA read was promised is in sram_dout from the cycle after the
\* grant on.
PromiseKept ==
  /\ promised[1].valid => dmaReadPending /\ ramDout = promised[1].data
  /\ UndisturbedReadIsExact

\* A master at distance r from the pointer is granted after r more grants.
OwedGrants == \A m \in Mac : passed[m] + Rank(m) <= 3

IInv == TypeOK /\ PromiseKept /\ OwedGrants

LEMMA MapFacts ==
  /\ \A a \in Addr : RamIndex(a) \in RamWord
  /\ AnyData \in Data
  /\ NoRequest \in Request /\ ~NoRequest.req
  /\ NoPromise \in [valid : BOOLEAN, data : Data] /\ ~NoPromise.valid
<1>1. \A a \in Int, m \in Nat \ {0} : a % m \in 0..m - 1
  OBVIOUS
<1>2. \A a \in Addr : a \div 4 \in Int
  BY DEF Addr
<1>3. \A a \in Addr : RamIndex(a) \in RamWord
  BY <1>1, <1>2, MapAssumption DEF RamIndex, RamWord
<1>4. AnyData \in Data /\ 0 \in Addr
  BY MapAssumption DEF AnyData, Addr
<1>5. /\ NoRequest \in Request /\ ~NoRequest.req
      /\ NoPromise \in [valid : BOOLEAN, data : Data] /\ ~NoPromise.valid
  BY <1>4 DEF NoRequest, Request, NoPromise
<1> QED BY <1>3, <1>4, <1>5

LEMMA RankFacts ==
  ASSUME NEW r \in Mac
  PROVE  /\ \A m \in Mac : (m - r) % 4 \in 0..3
         /\ \A m \in Mac : (m - r) % 4 # 0 => (m - ((r + 1) % 4)) % 4 = ((m - r) % 4) - 1
BY DEF Mac

LEMMA PairTyped ==
  ASSUME NEW S, NEW a \in S, NEW b \in S
  PROVE  <<a, b>> \in [1..2 -> S]
OBVIOUS

\* A master the pointer is at is not passed over.
LEMMA PointedAtIsGranted ==
  ASSUME TypeOK, NEW m \in Mac, mac[m].req, ~cpu.req, Rank(m) = 0
  PROVE  MacGnt(m)
<1>1. \A n \in Mac : Rank(n) \in 0..3
  BY RankFacts DEF TypeOK, Rank
<1> QED BY <1>1 DEF MacGnt

LEMMA ArbitratedTyped ==
  ASSUME TypeOK
  PROVE  Arbitrated \in Request
<1>1. CASE AnyMacGnt
  <2>1. (CHOOSE m \in Mac : MacGnt(m)) \in Mac
    BY <1>1 DEF AnyMacGnt
  <2> QED BY <1>1, <2>1 DEF Arbitrated, TypeOK
<1>2. CASE ~AnyMacGnt
  BY <1>2, MapFacts DEF Arbitrated, TypeOK
<1> QED BY <1>1, <1>2

LEMMA InitInvariant == Init => IInv
<1> SUFFICES ASSUME Init PROVE IInv
  OBVIOUS
<1> USE DEF Init, Init0
<1>1. TypeOK
  <2>1. promised \in [1..2 -> [valid : BOOLEAN, data : Data]]
    BY MapFacts, PairTyped
  <2>2. 0 \in Mac
    BY DEF Mac
  <2>3. cpu \in Request /\ dma \in Request /\ mac \in [Mac -> Request]
    BY MapFacts
  <2>4. passed \in [Mac -> Nat] /\ macRvalid \in [Mac -> BOOLEAN]
    OBVIOUS
  <2> QED BY <2>1, <2>2, <2>3, <2>4 DEF TypeOK
<1>2. PromiseKept
  BY MapFacts DEF PromiseKept, UndisturbedReadIsExact
<1>3. OwedGrants
  BY <1>1, RankFacts DEF OwedGrants, TypeOK, Rank
<1> QED BY <1>1, <1>2, <1>3 DEF IInv

LEMMA ClockEdgeTyped ==
  ASSUME TypeOK, ClockEdge
  PROVE  TypeOK'
<1> USE DEF TypeOK, ClockEdge
<1>1. SramIndex \in RamWord /\ Arbitrated \in Request
  BY ArbitratedTyped, MapFacts DEF SramIndex, Request
<1>2. ram' \in [RamWord -> Data] /\ ramDout' \in Data
  BY <1>1 DEF Tick, SramTick, Request
<1>3. /\ cpuRvalid' \in BOOLEAN /\ dmaReadPending' \in BOOLEAN
      /\ dmaRvalid' \in BOOLEAN /\ macRvalid' \in [Mac -> BOOLEAN]
  BY DEF Tick, ResponseTick, Request, MacGnt, DmaGnt
<1>4. macRr' \in Mac
  BY DEF Tick, RoundRobinTick, Mac
<1>5. cpu' \in Request /\ dma' \in Request /\ mac' \in [Mac -> Request]
  BY RequestAssumption DEF MastersTick
<1>6. promised' \in [1..2 -> [valid : BOOLEAN, data : Data]]
  <2> DEFINE new == IF DmaGnt /\ ~dma.we /\ InRam(dma.addr)
                      THEN [valid |-> TRUE, data |-> ram[RamIndex(dma.addr)]]
                      ELSE NoPromise
             old == IF SramEnabled THEN NoPromise ELSE promised[1]
  <2>1. new \in [valid : BOOLEAN, data : Data]
    BY MapFacts DEF Request
  <2>2. old \in [valid : BOOLEAN, data : Data]
    BY MapFacts
  <2>3. promised' = <<new, old>>
    BY DEF GhostTick
  <2> HIDE DEF new, old
  <2> QED BY <2>1, <2>2, <2>3, PairTyped
<1>7. passed' \in [Mac -> Nat]
  BY DEF GhostTick
<1> QED BY <1>2, <1>3, <1>4, <1>5, <1>6, <1>7

\* An access replaces sram_dout and voids the older promise; no access keeps
\* both.
LEMMA ClockEdgeKeepsPromise ==
  ASSUME TypeOK, PromiseKept, ClockEdge
  PROVE  PromiseKept'
<1> USE DEF ClockEdge, Tick, TypeOK
<1>1. CASE DmaGnt /\ ~dma.we /\ InRam(dma.addr)
  <2>1. ~AnyMacGnt /\ ~cpu.req /\ dma.req
    BY <1>1 DEF DmaGnt, AnyMacGnt, MacGnt
  <2>2. Arbitrated = dma /\ SramEnabled /\ SramIndex = RamIndex(dma.addr)
    BY <1>1, <2>1 DEF Arbitrated, SramEnabled, SramIndex
  <2>3. ramDout' = ram[RamIndex(dma.addr)] /\ dmaReadPending'
    BY <1>1, <2>2 DEF SramTick, ResponseTick
  <2>4. promised' = <<[valid |-> TRUE, data |-> ram[RamIndex(dma.addr)]], NoPromise>>
    BY <1>1, <2>2 DEF GhostTick
  <2> QED BY <2>3, <2>4, MapFacts DEF PromiseKept, UndisturbedReadIsExact
<1>2. CASE ~(DmaGnt /\ ~dma.we /\ InRam(dma.addr))
  <2>1. promised' = <<NoPromise, IF SramEnabled THEN NoPromise ELSE promised[1]>>
    BY <1>2 DEF GhostTick
  <2>2. dmaRvalid' = dmaReadPending /\ (~SramEnabled => ramDout' = ramDout)
    BY DEF ResponseTick, SramTick
  <2> QED BY <2>1, <2>2, MapFacts DEF PromiseKept, UndisturbedReadIsExact
<1> QED BY <1>1, <1>2

LEMMA ClockEdgeIsFair ==
  ASSUME TypeOK, OwedGrants, ClockEdge
  PROVE  OwedGrants'
<1> SUFFICES ASSUME NEW m \in Mac PROVE passed'[m] + Rank(m)' <= 3
  BY DEF OwedGrants
<1> USE DEF ClockEdge, Tick, TypeOK
<1>1. Rank(m) \in 0..3 /\ Rank(m)' \in 0..3 /\ passed[m] + Rank(m) <= 3
  <2>1. macRr' \in Mac
    BY ClockEdgeTyped
  <2> QED BY <2>1, RankFacts DEF OwedGrants, Rank
<1>2. passed'[m] = IF mac[m].req /\ mac'[m].req /\ ~MacGnt(m)
                     THEN passed[m] + (IF AnyMacGnt THEN 1 ELSE 0) ELSE 0
  BY DEF GhostTick
<1>3. CASE AnyMacGnt /\ mac[m].req /\ ~MacGnt(m)
  <2>1. ~cpu.req
    BY <1>3 DEF AnyMacGnt, MacGnt
  <2>2. Rank(m) # 0
    BY <1>3, <2>1, PointedAtIsGranted
  <2>3. macRr' = (macRr + 1) % 4
    BY <1>3 DEF RoundRobinTick
  <2>4. Rank(m)' = Rank(m) - 1
    BY <2>2, <2>3, RankFacts DEF Rank
  <2> QED BY <1>1, <1>2, <1>3, <2>4
<1>4. CASE ~AnyMacGnt
  <2>1. Rank(m)' = Rank(m)
    BY <1>4 DEF RoundRobinTick, Rank
  <2> QED BY <1>1, <1>2, <1>4, <2>1
<1>5. CASE ~mac[m].req \/ MacGnt(m)
  BY <1>1, <1>2, <1>5
<1> QED BY <1>3, <1>4, <1>5

LEMMA NextInvariant == IInv /\ [Next]_vars => IInv'
<1> SUFFICES ASSUME IInv, [Next]_vars PROVE IInv'
  OBVIOUS
<1>1. CASE ClockEdge
  BY <1>1, ClockEdgeTyped, ClockEdgeKeepsPromise, ClockEdgeIsFair DEF IInv
<1>2. CASE ResetEdge
  <2> USE <1>2 DEF ResetEdge, Reset
  <2>1. TypeOK'
    <3>1. promised' \in [1..2 -> [valid : BOOLEAN, data : Data]]
      BY MapFacts, PairTyped
    <3>2. 0 \in Mac
      BY DEF Mac
    <3>3. cpu' \in Request /\ dma' \in Request /\ mac' \in [Mac -> Request]
      BY RequestAssumption DEF MastersTick
    <3>4. passed' \in [Mac -> Nat] /\ macRvalid' \in [Mac -> BOOLEAN]
      OBVIOUS
    <3> QED BY <3>1, <3>2, <3>3, <3>4 DEF IInv, TypeOK
  <2>2. PromiseKept'
    BY MapFacts DEF PromiseKept, UndisturbedReadIsExact
  <2>3. \A m \in Mac : Rank(m)' \in 0..3 /\ passed'[m] = 0
    BY <2>1, RankFacts DEF TypeOK, Rank
  <2>4. OwedGrants'
    BY <2>3 DEF OwedGrants
  <2> QED BY <2>1, <2>2, <2>4 DEF IInv
<1>3. CASE UNCHANGED vars
  BY <1>3 DEF vars, regs, IInv, TypeOK, PromiseKept, UndisturbedReadIsExact, OwedGrants, Rank
<1> QED BY <1>1, <1>2, <1>3 DEF Next

LEMMA SpecInvariant == Spec => []IInv
BY InitInvariant, NextInvariant, PTL DEF Spec

\* The registers of the data port stay within their widths
\* (mem_subsystem.v:78-231).
THEOREM TypeCorrect == Spec => []TypeOK
<1>1. IInv => TypeOK
  BY DEF IInv
<1> QED BY <1>1, SpecInvariant, PTL

\* A DMA read is answered exactly if the SRAM serves nobody in the cycle
\* after its grant (mem_subsystem.v:194-231).
THEOREM UndisturbedRead == Spec => []UndisturbedReadIsExact
<1>1. IInv => UndisturbedReadIsExact
  BY DEF IInv, PromiseKept
<1> QED BY <1>1, SpecInvariant, PTL

\* A waiting MAC master is granted after at most three other grants
\* (mem_subsystem.v:81-121).
THEOREM RoundRobinFair == Spec => []RoundRobinIsFair
<1>1. IInv => RoundRobinIsFair
  <2> SUFFICES ASSUME IInv, NEW m \in Mac PROVE passed[m] <= 3
    BY DEF RoundRobinIsFair
  <2>1. Rank(m) \in 0..3 /\ passed[m] \in Nat /\ passed[m] + Rank(m) <= 3
    BY RankFacts DEF IInv, TypeOK, OwedGrants, Rank
  <2> QED BY <2>1
<1> QED BY <1>1, SpecInvariant, PTL
\* Two MAC masters are never at the same distance from the pointer.
LEMMA RankInjective ==
  ASSUME TypeOK, NEW m \in Mac, NEW n \in Mac, Rank(m) = Rank(n)
  PROVE  m = n
BY DEF TypeOK, Rank, Mac

\* The request that reaches the SRAM is that of the master that is granted.
LEMMA GrantedIsArbitrated ==
  ASSUME TypeOK
  PROVE  /\ cpu.req => Arbitrated = cpu
         /\ \A m \in Mac : MacGnt(m) => Arbitrated = mac[m]
<1>1. ASSUME NEW m \in Mac, NEW n \in Mac, MacGnt(m), MacGnt(n)
      PROVE  m = n
  <2>1. Rank(m) \in 0..3 /\ Rank(n) \in 0..3
    BY RankFacts DEF TypeOK, Rank
  <2>2. Rank(m) <= Rank(n) /\ Rank(n) <= Rank(m)
    BY <1>1 DEF MacGnt
  <2> QED BY <2>1, <2>2, RankInjective
<1>2. ASSUME NEW m \in Mac, MacGnt(m) PROVE Arbitrated = mac[m]
  <2>1. (CHOOSE n \in Mac : MacGnt(n)) = m
    BY <1>1, <1>2
  <2> QED BY <1>2, <2>1 DEF Arbitrated, AnyMacGnt, MacGnt
<1> QED BY <1>2 DEF Arbitrated

\* The CPU and each MAC master are answered with the word of their own access,
\* whatever the other masters and the DMA ask for in the same cycle
\* (mem_subsystem.v:88-135, 194-231).
THEOREM AnsweredOwnWord == Spec => AnsweredWithItsWord
<1> DEFINE Own == /\ cpuRvalid' /\ InRam(cpu.addr) => ramDout' = ram[RamIndex(cpu.addr)]
                  /\ \A m \in Mac : macRvalid'[m] /\ InRam(mac[m].addr)
                                     => ramDout' = ram[RamIndex(mac[m].addr)]
<1>1. IInv /\ [Next]_vars => [Own]_vars
  <2> SUFFICES ASSUME IInv, Next PROVE Own
    OBVIOUS
  <2>1. CASE ClockEdge
    <3>1. /\ cpuRvalid' = cpu.req
          /\ \A m \in Mac : macRvalid'[m] = MacGnt(m)
          /\ SramEnabled => ramDout' = ram[SramIndex]
      BY <2>1 DEF ClockEdge, Tick, ResponseTick, SramTick
    <3>2. ASSUME NEW r, r.req, InRam(r.addr), Arbitrated = r
          PROVE  ramDout' = ram[RamIndex(r.addr)]
      BY <3>1, <3>2 DEF SramEnabled, SramIndex
    <3>3. \A m \in Mac : MacGnt(m) => mac[m].req
      BY DEF MacGnt
    <3> QED BY <3>1, <3>2, <3>3, GrantedIsArbitrated DEF IInv
  <2>2. CASE ResetEdge
    BY <2>2 DEF ResetEdge, Reset
  <2> QED BY <2>1, <2>2 DEF Next
<1> QED BY <1>1, SpecInvariant, PTL DEF Spec, AnsweredWithItsWord

-----------------------------------------------------------------------------
(* The fetch port.                                                         *)

\* The captured word is already right while the fetch is pending.
CapturedWord ==
  outstanding # <<>> => instrDataQ = Rom[RomIndex(outstanding[1])]

FetchIInv == FetchTypeOK /\ OneFetchInFlight /\ CapturedWord

LEMMA RomFacts ==
  /\ \A a \in Pc : Rom[RomIndex(a)] \in RomWord
  /\ 0 \in Pc
  /\ ZeroWord \in RomWord
<1>1. \A a \in Int, m \in Nat \ {0} : a % m \in 0..m - 1
  OBVIOUS
<1>2. \A a \in Pc : a \div 4 \in Int
  BY DEF Pc
<1>3. \A a \in Pc : RomIndex(a) \in 0..RomDepth - 1
  BY <1>1, <1>2, RomAssumption DEF RomIndex
<1> QED BY <1>3, RomAssumption DEF Pc, ZeroWord

LEMMA ShortSequences ==
  /\ <<>> \in Seq(Pc) /\ Len(<<>>) = 0
  /\ \A a \in Pc : <<a>> \in Seq(Pc) /\ Len(<<a>>) = 1 /\ <<a>>[1] = a /\ <<a>> # <<>>
  /\ \A a \in Pc : Append(<<>>, a) = <<a>>
  /\ \A s \in Seq(Pc) : Len(s) <= 1 /\ s # <<>> =>
       Len(s) = 1 /\ Tail(s) = <<>> /\ Head(s) = s[1]
<1>1. \A s \in Seq(Pc) : Len(s) <= 1 /\ s # <<>> =>
        Len(s) = 1 /\ Tail(s) = <<>> /\ Head(s) = s[1]
  <2> SUFFICES ASSUME NEW s \in Seq(Pc), Len(s) <= 1, s # <<>>
               PROVE  Len(s) = 1 /\ Tail(s) = <<>> /\ Head(s) = s[1]
    OBVIOUS
  <2>1. Len(s) = 1
    <3>1. Len(s) \in Nat \ {0}
      BY EmptySeq, Zenon
    <3>2. \A n \in Nat \ {0} : n <= 1 => n = 1
      OBVIOUS
    <3> QED BY <3>1, <3>2, Zenon
  <2>2. Tail(s) \in Seq(Pc) /\ Len(Tail(s)) = 0
    BY <2>1, HeadTailProperties
  <2>3. Tail(s) = <<>>
    <3>1. Tail(s) # <<>> => Len(Tail(s)) \in Nat \ {0}
      BY <2>2, EmptySeq, Zenon
    <3> QED BY <2>2, <3>1
  <2> QED BY <2>1, <2>3
<1>2. \A a \in Pc : <<a>> \in Seq(Pc) /\ Len(<<a>>) = 1 /\ <<a>>[1] = a /\ <<a>> # <<>>
  OBVIOUS
<1>3. \A a \in Pc : Append(<<>>, a) = <<a>>
  OBVIOUS
<1>4. <<>> \in Seq(Pc) /\ Len(<<>>) = 0
  OBVIOUS
<1> QED BY <1>1, <1>2, <1>3, <1>4

LEMMA FetchInitInvariant == FetchInit => FetchIInv
BY RomFacts, ShortSequences
   DEF FetchInit, FetchInit0, FetchRequest, FetchIInv, FetchTypeOK, OneFetchInFlight, CapturedWord

LEMMA FetchEdgeInvariant == FetchIInv /\ FetchEdge => FetchIInv'
<1> SUFFICES ASSUME FetchIInv, FetchEdge PROVE FetchIInv'
  OBVIOUS
<1> USE DEF FetchIInv, FetchTypeOK, OneFetchInFlight, FetchEdge, FetchTick, FetchCoreTick
<1>1. fetch.addr \in Pc /\ fetch.req \in BOOLEAN
  BY DEF FetchRequest
<1>2. Unanswered = IF instrRvalid THEN <<>> ELSE outstanding
  <2>1. CASE instrRvalid
    <3>1. Len(outstanding) = 1
      BY <2>1
    <3>2. outstanding # <<>>
      BY <3>1, ShortSequences
    <3> QED BY <2>1, <3>1, <3>2, ShortSequences DEF Unanswered
  <2>2. CASE ~instrRvalid
    BY <2>2 DEF Unanswered
  <2> QED BY <2>1, <2>2
<1>3. CASE Accept
  <2>1. fetch.req /\ ~instrPending
    BY <1>3 DEF Accept, InstrGnt
  <2>2. Unanswered = <<>>
    BY <1>2, <2>1
  <2>3. outstanding' = <<fetch.addr>>
    BY <1>1, <1>3, <2>2, ShortSequences DEF Accept
  <2>4. instrDataQ' = Rom[RomIndex(fetch.addr)]
    BY <1>3, <2>1 DEF Accept, RomData
  <2>5. instrPending' /\ ~instrRvalid' /\ instrAddrQ' \in Pc
    BY <1>1, <1>3, <2>1 DEF Accept
  <2>6. outstanding' \in Seq(Pc) /\ Len(outstanding') = 1 /\ outstanding'[1] = fetch.addr
    BY <1>1, <2>3, ShortSequences
  <2> QED BY <1>1, <2>4, <2>5, <2>6, RomFacts DEF CapturedWord
<1>4. CASE Release
  <2>1. instrPending' = FALSE /\ instrRvalid' = instrPending
        /\ UNCHANGED <<instrAddrQ, instrDataQ>> /\ outstanding' = Unanswered
    BY <1>4 DEF Release
  <2>2. outstanding' = IF instrRvalid THEN <<>> ELSE outstanding
    BY <1>2, <2>1
  <2>3. FetchTypeOK'
    <3>1. outstanding' \in Seq(Pc)
      BY <2>2, ShortSequences
    <3>2. instrAddrQ' \in Pc /\ instrDataQ' \in RomWord
      BY <2>1
    <3>3. instrRvalid' \in BOOLEAN /\ instrPending' \in BOOLEAN
      BY <2>1
    <3>4. fetch' \in FetchRequest /\ dataAddr' \in Pc
      OBVIOUS
    <3> QED BY <3>1, <3>2, <3>3, <3>4
  <2>4. OneFetchInFlight'
    <3>1. CASE instrRvalid
      BY <2>1, <2>2, <3>1, ShortSequences
    <3>2. CASE ~instrRvalid /\ instrPending
      BY <2>1, <2>2, <3>2
    <3>3. CASE ~instrRvalid /\ ~instrPending
      BY <2>1, <2>2, <3>3
    <3> QED BY <3>1, <3>2, <3>3
  <2>5. CapturedWord'
    BY <2>1, <2>2 DEF CapturedWord
  <2> QED BY <2>3, <2>4, <2>5
<1> QED BY <1>3, <1>4

LEMMA FetchNextInvariant == FetchIInv /\ [FetchNext]_fetchVars => FetchIInv'
<1>1. FetchIInv /\ FetchResetEdge => FetchIInv'
  BY RomFacts, ShortSequences DEF FetchResetEdge, FetchReset, FetchCoreTick, FetchIInv, FetchTypeOK, OneFetchInFlight, CapturedWord
<1>2. FetchIInv /\ UNCHANGED fetchVars => FetchIInv'
  BY DEF fetchVars, fetchRegs, FetchIInv, FetchTypeOK, OneFetchInFlight, CapturedWord
<1> QED BY <1>1, <1>2, FetchEdgeInvariant DEF FetchNext

LEMMA FetchSpecInvariant == FetchSpec => []FetchIInv
BY FetchInitInvariant, FetchNextInvariant, PTL DEF FetchSpec

\* The registers keep their types.
THEOREM FetchTypeCorrect == FetchSpec => []FetchTypeOK
<1>1. FetchIInv => FetchTypeOK
  BY DEF FetchIInv
<1> QED BY <1>1, FetchSpecInvariant, PTL

\* A response carries the word at the oldest accepted address, whatever the
\* core does with its address lines (mem_subsystem.v:50-53).
THEOREM FetchCorrect == FetchSpec => []FetchesItsWord
<1>1. FetchIInv => FetchesItsWord
  <2> SUFFICES ASSUME FetchIInv, instrRvalid
               PROVE  outstanding # <<>> /\ instrDataQ = Rom[RomIndex(Head(outstanding))]
    BY DEF FetchesItsWord
  <2>1. outstanding \in Seq(Pc) /\ Len(outstanding) = 1
    BY DEF FetchIInv, FetchTypeOK, OneFetchInFlight
  <2>2. outstanding # <<>>
    BY <2>1, ShortSequences
  <2>3. Head(outstanding) = outstanding[1]
    BY <2>1, <2>2, ShortSequences
  <2> QED BY <2>2, <2>3 DEF FetchIInv, CapturedWord
<1> QED BY <1>1, FetchSpecInvariant, PTL

\* One fetch in flight, and none lost.
THEOREM SingleSlot == FetchSpec => []OneFetchInFlight
<1>1. FetchIInv => OneFetchInFlight
  BY DEF FetchIInv
<1> QED BY <1>1, FetchSpecInvariant, PTL
=============================================================================
