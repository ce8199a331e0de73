-------------------------- MODULE DmaSystem_proofs --------------------------
(***************************************************************************)
(* The engines, the arbiter and the memory on one clock: the owner of each *)
(* answer, the contracts between the components, the copy engine as the    *)
(* mover of WordCopy.tla, and, with a history, the block that it copies:   *)
(* the theorem of CopiedBlock.tla (DmaMaster_proofs.tla) is applied to the *)
(* mover of the system.  At the end, what is proved of the engines and of  *)
(* the arbiter alone is shown to hold of them together.                    *)
(*                                                                         *)
(* The invariant relates three memories of the same past: the pipeline of  *)
(* mem_subsystem.v, the owner queue of dma_arbiter.v and the waiting state *)
(* of dma_master.v.  None of them is inductive alone.                      *)
(***************************************************************************)
EXTENDS DmaSystem, TLAPS

\* What an edge can grant on the DMA port, and to whom.
Grant == [by : {"nobody", "stream", "copy"}, port : Request, saw : Data]

\* Every register of the system stays within its width.
SystemTyped ==
  /\ copy \in Copy!Registers /\ stream \in Stream!Registers
  /\ nextStream \in BOOLEAN /\ owner \in [0..1 -> BOOLEAN] /\ ownerCount \in 0..2
  /\ ram \in [RamWord -> Data] /\ ramDout \in Data
  /\ dmaReadPending \in BOOLEAN /\ dmaRvalid \in BOOLEAN
  /\ cpu \in CpuRequests \cup {NoRequest}
  /\ granted \in [1..2 -> Grant]

\* The memory's pipeline of two cycles is the history of the grants.
PipelineIsHistory ==
  /\ dmaReadPending <=> IsRead(granted[1])
  /\ dmaRvalid <=> IsRead(granted[2])

\* A grant is somebody's, and the copy engine has one read at a time.
GrantsAreOwned ==
  /\ \A i \in 1..2 : IsRead(granted[i]) => granted[i].by # "nobody"
  /\ ~(/\ IsRead(granted[1]) /\ granted[1].by = "copy"
       /\ IsRead(granted[2]) /\ granted[2].by = "copy")

IInv ==
  /\ SystemTyped /\ PipelineIsHistory /\ GrantsAreOwned
  /\ Copy!WaitsForItsRead /\ Copy!AsksForCurrentWord
  /\ Arb!OwnersMatchFlight

LEMMA MapFacts ==
  /\ 0 \in Addr /\ 0 \in 0..LenMod - 1 /\ 0 \in 0..StreamLenMod - 1
  /\ \A a \in Addr : NextAddr(a) \in Addr /\ RamIndex(a) \in RamWord
  /\ AnyData \in Data
  /\ NoRequest \in Request /\ NoRequest.req = FALSE
<1>1. \A a \in Int, m \in Nat \ {0} : a % m \in 0..m - 1
  OBVIOUS
<1>2. \A a \in Addr : NextAddr(a) \in Addr
  BY <1>1, MapAssumption DEF Addr, NextAddr
<1>3. \A a \in Addr : a \div 4 \in Int
  BY DEF Addr
<1>4. \A a \in Addr : RamIndex(a) \in RamWord
  BY <1>1, <1>3, MapAssumption DEF RamIndex, RamWord
<1>5. /\ 0 \in Addr /\ 0 \in 0..LenMod - 1 /\ 0 \in 0..StreamLenMod - 1
      /\ AnyData \in Data
  BY MapAssumption, SystemAssumption DEF Addr, AnyData
<1>6. NoRequest \in Request /\ NoRequest.req = FALSE
  BY <1>5 DEF NoRequest, Request
<1> QED BY <1>2, <1>4, <1>5, <1>6

\* The components read the same map and speak of the same requests.
LEMMA SameMap ==
  /\ Copy!Addr = Addr /\ Copy!Request = Request
  /\ Copy!NoRequest = NoRequest /\ Copy!AnyData = AnyData
  /\ \A a : Copy!NextAddr(a) = NextAddr(a) /\ (Copy!Aligned(a) <=> Aligned(a))
  /\ Stream!Addr = Addr /\ Stream!Request = Request
  /\ Stream!NoRequest = NoRequest /\ Stream!AnyData = AnyData
  /\ \A a : Stream!NextAddr(a) = NextAddr(a)
  /\ Mem!Addr = Addr /\ Mem!Request = Request /\ Mem!RamWord = RamWord
  /\ Mem!NoRequest = NoRequest /\ Mem!AnyData = AnyData
  /\ \A a : Mem!RamIndex(a) = RamIndex(a) /\ (Mem!InRam(a) <=> InRam(a))
<1>1. Copy!Addr = Addr /\ Copy!Request = Request
  BY DEF Copy!Addr, Addr, Copy!Request, Request
<1>2. Copy!NoRequest = NoRequest /\ Copy!AnyData = AnyData
  BY DEF Copy!NoRequest, NoRequest, Copy!AnyData, AnyData
<1>3. \A a : Copy!NextAddr(a) = NextAddr(a) /\ (Copy!Aligned(a) <=> Aligned(a))
  BY DEF Copy!NextAddr, NextAddr, Copy!Aligned, Aligned
<1>4. Stream!Addr = Addr /\ Stream!Request = Request
  BY DEF Stream!Addr, Addr, Stream!Request, Request
<1>5. Stream!NoRequest = NoRequest /\ Stream!AnyData = AnyData
  BY DEF Stream!NoRequest, NoRequest, Stream!AnyData, AnyData
<1>6. \A a : Stream!NextAddr(a) = NextAddr(a)
  BY DEF Stream!NextAddr, NextAddr
<1>7. Mem!Addr = Addr /\ Mem!Request = Request /\ Mem!RamWord = RamWord
  BY DEF Mem!Addr, Addr, Mem!Request, Request, Mem!RamWord, RamWord
<1>8. Mem!NoRequest = NoRequest /\ Mem!AnyData = AnyData
  BY DEF Mem!NoRequest, NoRequest, Mem!AnyData, AnyData
<1>9. \A a : Mem!RamIndex(a) = RamIndex(a) /\ (Mem!InRam(a) <=> InRam(a))
  BY DEF Mem!RamIndex, RamIndex, Mem!InRam, InRam
<1> QED BY <1>1, <1>2, <1>3, <1>4, <1>5, <1>6, <1>7, <1>8, <1>9

LEMMA CopyFields ==
  ASSUME copy \in Copy!Registers
  PROVE  /\ copy.port \in Request /\ copy.port.req \in BOOLEAN
         /\ copy.state \in Copy!States /\ copy.busy \in BOOLEAN
         /\ copy.src \in Addr /\ copy.dst \in Addr /\ copy.buffer \in Data
         /\ copy.left \in 0..LenMod - 1
BY SameMap DEF Copy!Registers, Request

LEMMA StreamFields ==
  ASSUME stream \in Stream!Registers
  PROVE  /\ stream.port \in Request /\ stream.port.req \in BOOLEAN
         /\ stream.addr \in Addr /\ stream.buffer \in Data
         /\ stream.left \in 0..StreamLenMod - 1
BY SameMap DEF Stream!Registers, Request

-----------------------------------------------------------------------------
(* The request that reaches the memory.                                    *)

LEMMA RequestEdit ==
  ASSUME NEW r \in Request, NEW b \in BOOLEAN
  PROVE  /\ [r EXCEPT !.req = b] \in Request
         /\ [r EXCEPT !.req = b].req = b /\ [r EXCEPT !.req = b].we = r.we
         /\ [r EXCEPT !.req = b].addr = r.addr /\ [r EXCEPT !.req = b].data = r.data
         /\ r.req = b => [r EXCEPT !.req = b] = r
BY DEF Request

LEMMA DmaRequestFacts ==
  ASSUME SystemTyped
  PROVE  /\ Arb!SelectStream \in BOOLEAN /\ Arb!MemReq \in BOOLEAN
         /\ Arb!Selected \in Request
         /\ Arb!Selected = IF Arb!SelectStream THEN stream.port ELSE copy.port
         /\ DmaRequest \in DmaPort
         /\ DmaRequest.req <=> Arb!MemReq /\ ~InLocal(Arb!Selected.addr)
         /\ DmaRequest.we = Arb!Selected.we /\ DmaRequest.addr = Arb!Selected.addr
         /\ DmaRequest.req /\ Arb!Selected.req => DmaRequest = Arb!Selected
         /\ Arb!MemReq => Arb!Selected.req
<1>1. /\ copy.port \in Request /\ stream.port \in Request
      /\ copy.port.req \in BOOLEAN /\ stream.port.req \in BOOLEAN
  BY CopyFields, StreamFields DEF SystemTyped
<1>2. /\ Arb!SelectStream \in BOOLEAN
      /\ Arb!Selected = IF Arb!SelectStream THEN stream.port ELSE copy.port
  BY <1>1 DEF Arb!SelectStream, Arb!Selected, SystemTyped
<1>3. Arb!Selected \in Request /\ Arb!Selected.we \in BOOLEAN
  BY <1>1, <1>2 DEF Request
<1>4. Arb!MemReq \in BOOLEAN
  BY <1>1, <1>3 DEF Arb!MemReq
<1>5. Arb!MemReq => Arb!Selected.req
  BY <1>1, <1>2 DEF Arb!MemReq, Arb!SelectStream
<1> DEFINE m == Arb!MemRequest
           b == Arb!MemReq /\ ~InLocal(Arb!Selected.addr)
<1>6. m = [Arb!Selected EXCEPT !.req = Arb!MemReq]
  BY DEF Arb!MemRequest
<1>7. m \in Request /\ m.we = Arb!Selected.we /\ m.addr = Arb!Selected.addr /\ m.req = Arb!MemReq
  BY <1>3, <1>4, <1>6, RequestEdit
<1>8. b \in BOOLEAN
  BY <1>4
<1>9. DmaRequest = [m EXCEPT !.req = b]
  BY DEF DmaRequest
<1> HIDE DEF m, b
<1>10. /\ DmaRequest \in Request /\ DmaRequest.req = b
       /\ DmaRequest.we = m.we /\ DmaRequest.addr = m.addr
       /\ m.req = b => DmaRequest = m
  BY <1>7, <1>8, <1>9, RequestEdit
<1>11. DmaRequest.req /\ Arb!Selected.req => DmaRequest = Arb!Selected
  <2> SUFFICES ASSUME DmaRequest.req, Arb!Selected.req PROVE DmaRequest = Arb!Selected
    OBVIOUS
  <2>1. b = TRUE /\ Arb!MemReq = TRUE
    BY <1>8, <1>10, <1>4 DEF b
  <2>2. Arb!Selected.req = TRUE
    BY <1>3 DEF Request
  <2>3. m = Arb!Selected
    BY <1>3, <1>6, <2>1, <2>2, RequestEdit
  <2> QED BY <1>7, <1>10, <2>1, <2>3
<1>12. DmaRequest.req <=> Arb!MemReq /\ ~InLocal(Arb!Selected.addr)
  BY <1>8, <1>10 DEF b
<1>13. DmaRequest \in DmaPort
  BY <1>7, <1>10, <1>12 DEF DmaPort
<1> QED BY <1>2, <1>3, <1>4, <1>5, <1>7, <1>10, <1>11, <1>12, <1>13

\* A grant of the memory is a grant to the client that the arbiter selected,
\* for what that client asks.
LEMMA GrantFacts ==
  ASSUME SystemTyped
  PROVE  /\ Mem!DmaGnt \in BOOLEAN /\ CopyGnt \in BOOLEAN /\ StreamGnt \in BOOLEAN
         /\ Mem!DmaGnt => DmaRequest.req /\ Arb!MemReq /\ ~cpu.req
         /\ CopyGnt <=> Mem!DmaGnt /\ ~Arb!SelectStream
         /\ StreamGnt <=> Mem!DmaGnt /\ Arb!SelectStream
         /\ CopyGnt => copy.port.req /\ DmaRequest = copy.port
         /\ StreamGnt => stream.port.req /\ DmaRequest = stream.port
         /\ Arb!ReadPush(Mem!DmaGnt) <=> Mem!DmaGnt /\ ~DmaRequest.we
<1>1. /\ copy.port.req \in BOOLEAN /\ stream.port.req \in BOOLEAN
      /\ cpu.req \in BOOLEAN
  BY CopyFields, StreamFields, SystemAssumption, MapFacts DEF SystemTyped, Request
<1>2. DmaRequest.req \in BOOLEAN /\ DmaRequest.we \in BOOLEAN
  BY DmaRequestFacts DEF DmaPort, Request
<1>3. Mem!DmaGnt <=> DmaRequest.req /\ ~cpu.req
  BY MapFacts DEF Mem!DmaGnt, Mem!Mac
<1>4. Mem!DmaGnt \in BOOLEAN
  BY <1>1, <1>2 DEF Mem!DmaGnt
<1>5. Mem!DmaGnt => DmaRequest = Arb!Selected /\ Arb!Selected.req /\ Arb!MemReq
  BY <1>3, DmaRequestFacts
<1>6. CopyGnt <=> Mem!DmaGnt /\ ~Arb!SelectStream
  BY <1>3, <1>4, <1>5, DmaRequestFacts DEF CopyGnt, Arb!CopyGnt
<1>7. StreamGnt <=> Mem!DmaGnt /\ Arb!SelectStream
  BY <1>3, <1>4, <1>5, DmaRequestFacts DEF StreamGnt, Arb!StreamGnt
<1>8. CopyGnt \in BOOLEAN /\ StreamGnt \in BOOLEAN
  BY <1>1, <1>4, DmaRequestFacts DEF CopyGnt, Arb!CopyGnt, StreamGnt, Arb!StreamGnt
<1>9. Arb!ReadPush(Mem!DmaGnt) <=> Mem!DmaGnt /\ ~DmaRequest.we
  BY <1>4, <1>5, DmaRequestFacts DEF Arb!ReadPush
<1> QED BY <1>3, <1>4, <1>5, <1>6, <1>7, <1>8, <1>9, DmaRequestFacts

LEMMA OwnerTyped ==
  ASSUME NEW g
  PROVE  /\ OwnerOf(g) \in Seq(BOOLEAN)
         /\ IsRead(g) => OwnerOf(g) = <<g.by = "stream">>
         /\ ~IsRead(g) => OwnerOf(g) = <<>>
<1>1. \A b \in BOOLEAN : <<b>> \in Seq(BOOLEAN)
  OBVIOUS
<1>2. (g.by = "stream") \in BOOLEAN /\ <<>> \in Seq(BOOLEAN)
  OBVIOUS
<1> QED BY <1>1, <1>2 DEF OwnerOf

\* The answer is the client's whose read is the older one.
LEMMA AnswerFacts ==
  ASSUME IInv
  PROVE  /\ Arb!CopyRvalid(dmaRvalid) \in BOOLEAN /\ Arb!StreamRvalid(dmaRvalid) \in BOOLEAN
         /\ Arb!CopyRvalid(dmaRvalid) <=> IsRead(granted[2]) /\ granted[2].by = "copy"
         /\ Arb!StreamRvalid(dmaRvalid) <=> IsRead(granted[2]) /\ granted[2].by = "stream"
<1>1. /\ dmaRvalid <=> IsRead(granted[2])
      /\ granted[2] \in Grant /\ owner[0] \in BOOLEAN /\ dmaRvalid \in BOOLEAN
      /\ IsRead(granted[2]) => granted[2].by # "nobody"
  BY DEF IInv, PipelineIsHistory, GrantsAreOwned, SystemTyped
<1>2. IsRead(granted[2]) => ownerCount # 0 /\ owner[0] = (granted[2].by = "stream")
  <2> SUFFICES ASSUME IsRead(granted[2])
               PROVE  ownerCount # 0 /\ owner[0] = (granted[2].by = "stream")
    OBVIOUS
  <2> DEFINE b == granted[2].by = "stream"
             rest == OwnerOf(granted[1])
  <2>1. Flight = <<b>> \o rest
    BY DEF Flight, OwnerOf
  <2>2. b \in BOOLEAN /\ rest \in Seq(BOOLEAN)
    BY OwnerTyped
  <2> HIDE DEF b, rest
  <2>3. Len(Flight) >= 1 /\ Flight[1] = b
    BY <2>1, <2>2
  <2>4. ownerCount = Len(Flight) /\ \A i \in 1..Len(Flight) : owner[i - 1] = Flight[i]
    BY DEF IInv, Arb!OwnersMatchFlight
  <2>5. Len(Flight) \in Nat
    BY <2>1, <2>2
  <2> QED BY <2>3, <2>4, <2>5 DEF b
<1>3. granted[2].by \in {"nobody", "stream", "copy"}
  BY <1>1 DEF Grant
<1> QED BY <1>1, <1>2, <1>3 DEF Arb!CopyRvalid, Arb!StreamRvalid

LEMMA PairTyped ==
  ASSUME NEW S, NEW a \in S, NEW b \in S
  PROVE  <<a, b>> \in [1..2 -> S] /\ <<a, b>>[1] = a /\ <<a, b>>[2] = b
OBVIOUS

\* What the memory remembers of an edge.
LEMMA HistoryFacts ==
  ASSUME IInv, ClockEdge
  PROVE  /\ granted' \in [1..2 -> Grant]
         /\ granted'[2] = granted[1]
         /\ granted'[1].by = "copy" <=> CopyGnt
         /\ granted'[1].by = "stream" <=> StreamGnt
         /\ CopyGnt => granted'[1].port = copy.port
         /\ StreamGnt => granted'[1].port = stream.port
         /\ ~Mem!DmaGnt => granted'[1] = NoGrant
         /\ IsRead(granted'[1]) <=> Arb!ReadPush(Mem!DmaGnt)
<1> DEFINE g == IF Mem!DmaGnt
           THEN [by |-> IF Arb!SelectStream THEN "stream" ELSE "copy",
                 port |-> DmaRequest,
                 saw |-> IF InRam(DmaRequest.addr) THEN ram[RamIndex(DmaRequest.addr)]
                                                   ELSE AnyData]
           ELSE NoGrant
<1>1. granted' = <<g, granted[1]>>
  BY DEF ClockEdge, GhostTick
<1>2. SystemTyped
  BY DEF IInv
<1>3. DmaRequest \in Request
  BY <1>2, DmaRequestFacts DEF DmaPort
<1>4. g \in Grant
  <2>1. CASE Mem!DmaGnt
    <3> DEFINE v == IF InRam(DmaRequest.addr) THEN ram[RamIndex(DmaRequest.addr)]
                                              ELSE AnyData
    <3>1. DmaRequest.addr \in Addr
      BY <1>3 DEF Request
    <3>2. v \in Data
      BY <1>2, <3>1, MapFacts DEF SystemTyped
    <3> HIDE DEF v
    <3>3. g = [by |-> IF Arb!SelectStream THEN "stream" ELSE "copy",
               port |-> DmaRequest, saw |-> v]
      BY <2>1 DEF v
    <3> HIDE DEF g
    <3> QED BY <1>3, <3>2, <3>3 DEF Grant
  <2>2. CASE ~Mem!DmaGnt
    BY <2>2, MapFacts DEF NoGrant, Grant
  <2> QED BY <2>1, <2>2
<1>5. /\ Mem!DmaGnt => g.port = DmaRequest
                       /\ g.by = IF Arb!SelectStream THEN "stream" ELSE "copy"
      /\ ~Mem!DmaGnt => g = NoGrant /\ g.by = "nobody" /\ ~IsRead(g)
  BY MapFacts DEF NoGrant, IsRead
<1>6. granted[1] \in Grant
  BY <1>2 DEF SystemTyped
<1> HIDE DEF g
<1>7. granted' \in [1..2 -> Grant] /\ granted'[1] = g /\ granted'[2] = granted[1]
  BY <1>1, <1>4, <1>6, PairTyped
<1>8. /\ g.by = "copy" <=> CopyGnt
      /\ g.by = "stream" <=> StreamGnt
      /\ CopyGnt => g.port = copy.port
      /\ StreamGnt => g.port = stream.port
  BY <1>2, <1>5, GrantFacts
<1>9. IsRead(g) <=> Arb!ReadPush(Mem!DmaGnt)
  <2>1. CASE Mem!DmaGnt
    BY <1>2, <1>5, <2>1, GrantFacts DEF IsRead
  <2>2. CASE ~Mem!DmaGnt
    BY <1>2, <1>5, <2>2, GrantFacts
  <2> QED BY <2>1, <2>2
<1> QED BY <1>5, <1>7, <1>8, <1>9

-----------------------------------------------------------------------------
(* The copy engine meets the bus of its own module.                        *)

LEMMA JobFields ==
  ASSUME NEW p \in Pulse
  PROVE  /\ p.start \in BOOLEAN /\ p.job \in Jobs
         /\ p.job.src \in Addr /\ p.job.dst \in Addr /\ p.job.len \in 0..LenMod - 1
<1>1. p.start \in BOOLEAN /\ p.job \in Jobs
  <2>1. (CHOOSE j \in Jobs : TRUE) \in Jobs
    BY SystemAssumption
  <2>2. \/ p = [start |-> FALSE, job |-> CHOOSE j \in Jobs : TRUE]
        \/ p \in [start : {TRUE}, job : Jobs]
    BY DEF Pulse
  <2>3. CASE p = [start |-> FALSE, job |-> CHOOSE j \in Jobs : TRUE]
    BY <2>1, <2>3
  <2>4. CASE p \in [start : {TRUE}, job : Jobs]
    BY <2>4
  <2> QED BY <2>2, <2>3, <2>4
<1> QED BY <1>1, SystemAssumption

LEMMA CopyTicks ==
  ASSUME ClockEdge
  PROVE  \E p \in Pulse :
           Copy!Tick(p.start, p.job, CopyGnt, Arb!CopyRvalid(dmaRvalid), ramDout)
BY DEF ClockEdge

LEMMA CopyReadsMove ==
  ASSUME IInv, ClockEdge
  PROVE  Copy!Bus(CopyGnt, Arb!CopyRvalid(dmaRvalid))
<1> DEFINE older == IsRead(granted[2]) /\ granted[2].by = "copy"
           newer == IsRead(granted[1]) /\ granted[1].by = "copy"
           newest == IsRead(granted'[1]) /\ granted'[1].by = "copy"
<1>1. (CopyReads <=> older \/ newer) /\ ~(older /\ newer)
  BY DEF IInv, GrantsAreOwned, CopyReads
<1>2. CopyReads' <=> newer \/ newest
  BY HistoryFacts DEF CopyReads, IsRead
<1>3. Arb!CopyRvalid(dmaRvalid) <=> older
  BY AnswerFacts
<1>4. CopyGnt => copy.port.req
  BY GrantFacts DEF IInv
<1>5. newest <=> CopyGnt /\ ~copy.port.we
  <2>1. newest <=> CopyGnt /\ IsRead(granted'[1])
    BY HistoryFacts
  <2>2. CopyGnt => (IsRead(granted'[1]) <=> ~copy.port.we)
    BY HistoryFacts, GrantFacts DEF IInv
  <2> QED BY <2>1, <2>2
<1>6. (granted'[1].by = "copy") = CopyGnt
  BY HistoryFacts, GrantFacts DEF IInv
<1>7. CopyReads' = ((CopyReads /\ ~Arb!CopyRvalid(dmaRvalid)) \/ (CopyGnt /\ ~copy.port.we))
  <2> HIDE DEF older, newer, newest
  <2>1. CopyReads \in BOOLEAN /\ CopyReads' \in BOOLEAN
    BY DEF CopyReads
  <2> QED BY <1>1, <1>2, <1>3, <1>5, <2>1
<1>8. Arb!CopyRvalid(dmaRvalid) => CopyReads
  BY <1>1, <1>3
<1> HIDE DEF older, newer, newest
<1> QED BY <1>4, <1>6, <1>7, <1>8 DEF Copy!Bus

LEMMA CopyTyped ==
  ASSUME SystemTyped, ClockEdge
  PROVE  copy' \in Copy!Registers
<1> PICK p \in Pulse :
      Copy!Tick(p.start, p.job, CopyGnt, Arb!CopyRvalid(dmaRvalid), ramDout)
  BY CopyTicks
<1> DEFINE j == p.job
           gnt == CopyGnt
           rvalid == Arb!CopyRvalid(dmaRvalid)
<1>1. /\ copy \in Copy!Registers /\ ramDout \in Data
      /\ j.src \in Addr /\ j.dst \in Addr /\ j.len \in 0..LenMod - 1
  BY JobFields DEF SystemTyped
<1>2. Copy!Tick(p.start, j, gnt, rvalid, ramDout)
  OBVIOUS
<1>3. Copy!StorePort(TRUE) \in Request /\ Copy!StorePort(FALSE) \in Request
  BY <1>1, CopyFields DEF Copy!StorePort, Request
<1>4. Copy!FetchPort(TRUE) \in Request /\ Copy!FetchPort(FALSE) \in Request
  BY <1>1, CopyFields DEF Copy!FetchPort, Request
<1>5. Copy!NextAddr(copy.src) \in Addr /\ Copy!NextAddr(copy.dst) \in Addr
  BY <1>1, CopyFields, MapFacts, SameMap
<1>6. (IF Copy!LastWord THEN copy.left ELSE copy.left - 4) \in 0..LenMod - 1
  BY <1>1, CopyFields, SystemAssumption DEF Copy!LastWord
<1>7. gnt \in BOOLEAN
  BY GrantFacts
<1> HIDE DEF j, gnt, rvalid
<1> USE SameMap DEF Copy!Registers, Copy!States
<1>8. CASE Copy!Idle(p.start)
  BY <1>1, <1>8 DEF Copy!Idle
<1>9. CASE Copy!Reject(p.start, j)
  BY <1>1, <1>9 DEF Copy!Reject
<1>10. CASE Copy!Accept(p.start, j)
  BY <1>1, <1>10 DEF Copy!Accept
<1>11. CASE Copy!Fetch(gnt)
  BY <1>1, <1>4, <1>7, <1>11 DEF Copy!Fetch
<1>12. CASE Copy!AwaitData(rvalid, ramDout)
  BY <1>1, <1>12 DEF Copy!AwaitData
<1>13. CASE Copy!StoreRequest(gnt)
  BY <1>1, <1>3, <1>13 DEF Copy!StoreRequest
<1>14. CASE Copy!StoreGranted(gnt)
  BY <1>1, <1>3, <1>5, <1>6, <1>14 DEF Copy!StoreGranted
<1>15. CASE Copy!Finish
  BY <1>1, <1>15 DEF Copy!Finish
<1> QED BY <1>2, <1>8, <1>9, <1>10, <1>11, <1>12, <1>13, <1>14, <1>15 DEF Copy!Tick

LEMMA CopyInStep ==
  ASSUME IInv, ClockEdge
  PROVE  Copy!WaitsForItsRead' /\ Copy!AsksForCurrentWord'
<1> PICK p \in Pulse :
      Copy!Tick(p.start, p.job, CopyGnt, Arb!CopyRvalid(dmaRvalid), ramDout)
  BY CopyTicks
<1> DEFINE j == p.job
           gnt == CopyGnt
           rvalid == Arb!CopyRvalid(dmaRvalid)
<1>1. /\ copy \in Copy!Registers /\ copy.port \in Request
      /\ gnt \in BOOLEAN /\ rvalid \in BOOLEAN
  BY CopyFields, GrantFacts, AnswerFacts DEF IInv, SystemTyped
<1>2. Copy!Tick(p.start, j, gnt, rvalid, ramDout)
  OBVIOUS
<1>3. Copy!WaitsForItsRead /\ Copy!AsksForCurrentWord
  BY DEF IInv
<1>4. /\ gnt => copy.port.req
      /\ rvalid => CopyReads
      /\ CopyReads' = ((CopyReads /\ ~rvalid) \/ (gnt /\ ~copy.port.we))
  BY CopyReadsMove DEF Copy!Bus
<1> HIDE DEF j, gnt, rvalid
<1> USE <1>1, <1>3, <1>4, SameMap DEF Copy!Registers, Copy!States, Request,
        Copy!WaitsForItsRead, Copy!AsksForCurrentWord
<1>5. CASE Copy!Idle(p.start)
  BY <1>5 DEF Copy!Idle
<1>6. CASE Copy!Reject(p.start, j)
  BY <1>6 DEF Copy!Reject
<1>7. CASE Copy!Accept(p.start, j)
  BY <1>7 DEF Copy!Accept
<1>8. CASE Copy!Fetch(gnt)
  BY <1>8 DEF Copy!Fetch, Copy!FetchPort
<1>9. CASE Copy!AwaitData(rvalid, ramDout)
  BY <1>9 DEF Copy!AwaitData
<1>10. CASE Copy!StoreRequest(gnt)
  BY <1>10 DEF Copy!StoreRequest, Copy!StorePort
<1>11. CASE Copy!StoreGranted(gnt)
  BY <1>11 DEF Copy!StoreGranted, Copy!StorePort
<1>12. CASE Copy!Finish
  BY <1>12 DEF Copy!Finish
<1> QED BY <1>2, <1>5, <1>6, <1>7, <1>8, <1>9, <1>10, <1>11, <1>12 DEF Copy!Tick

\* A second read of the copy engine is granted only after the answer to the
\* first.
LEMMA GrantsStayOwned ==
  ASSUME IInv, ClockEdge
  PROVE  GrantsAreOwned'
<1>1. CopyGnt /\ ~copy.port.we => ~CopyReads
  <2>1. CopyGnt => copy.port.req
    BY GrantFacts DEF IInv
  <2>2. copy.port.req /\ ~copy.port.we => copy.state # "wait_r"
    BY DEF IInv, Copy!AsksForCurrentWord
  <2>3. CopyReads <=> copy.state = "wait_r"
    BY DEF IInv, Copy!WaitsForItsRead
  <2> QED BY <2>1, <2>2, <2>3
<1>2. /\ granted'[2] = granted[1]
      /\ granted'[1].by = "copy" <=> CopyGnt
      /\ CopyGnt => granted'[1].port = copy.port
      /\ IsRead(granted'[1]) => granted'[1].by # "nobody"
  <2>1. IsRead(granted'[1]) => Mem!DmaGnt
    BY GrantFacts, HistoryFacts DEF IInv
  <2>2. Mem!DmaGnt => CopyGnt \/ StreamGnt
    BY GrantFacts DEF IInv
  <2> QED BY <2>1, <2>2, HistoryFacts
<1>3. IsRead(granted[1]) /\ granted[1].by = "copy" => CopyReads
  BY DEF CopyReads
<1>4. IsRead(granted[1]) => granted[1].by # "nobody"
  BY DEF IInv, GrantsAreOwned
<1>5. \A i \in 1..2 : i = 1 \/ i = 2
  OBVIOUS
<1>6. \A i \in 1..2 : IsRead(granted[i])' => granted[i]'.by # "nobody"
  BY <1>2, <1>4, <1>5 DEF IsRead
<1>7. ~(/\ IsRead(granted'[1]) /\ granted'[1].by = "copy"
        /\ IsRead(granted'[2]) /\ granted'[2].by = "copy")
  BY <1>1, <1>2, <1>3 DEF IsRead
<1> QED BY <1>6, <1>7 DEF GrantsAreOwned, IsRead

-----------------------------------------------------------------------------
(* The stream engine.                                                      *)

LEMMA StreamTicks ==
  ASSUME ClockEdge
  PROVE  \E start \in BOOLEAN, cfg \in Configs, res \in Stream!ResultBeat :
           Stream!Tick(start, FALSE, cfg, StreamGnt, Arb!StreamRvalid(dmaRvalid),
                       ramDout, res)
<1>1. \A b \in StreamStarts : b \in BOOLEAN
  BY SystemAssumption
<1>2. \A r \in Results : r \in Stream!ResultBeat
  BY SystemAssumption DEF Results, Stream!ResultBeat
<1>3. PICK start \in StreamStarts, cfg \in Configs, res \in Results :
        Stream!Tick(start, FALSE, cfg, StreamGnt, Arb!StreamRvalid(dmaRvalid),
                    ramDout, res)
  BY DEF ClockEdge
<1> QED BY <1>1, <1>2, <1>3

LEMMA StreamQuiet ==
  ASSUME SystemTyped
  PROVE  Stream!Quiet \in Stream!Registers
BY SameMap DEF SystemTyped, Stream!Quiet, Stream!Registers, Request, Stream!Beat

LEMMA StreamTyped ==
  ASSUME SystemTyped, ClockEdge
  PROVE  stream' \in Stream!Registers
<1> PICK start \in BOOLEAN, cfg \in Configs, res \in Stream!ResultBeat :
      Stream!Tick(start, FALSE, cfg, StreamGnt, Arb!StreamRvalid(dmaRvalid), ramDout, res)
  BY StreamTicks
<1> DEFINE Q == Stream!Quiet
           gnt == StreamGnt
           rvalid == Arb!StreamRvalid(dmaRvalid)
           beat == [valid |-> TRUE, data |-> ramDout]
<1>0. /\ Q \in Stream!Registers /\ stream \in Stream!Registers /\ ramDout \in Data
      /\ cfg.wgt \in Addr /\ cfg.act \in Addr /\ cfg.res \in Addr
      /\ cfg.lenWgt \in 0..StreamLenMod - 1 /\ cfg.lenAct \in 0..StreamLenMod - 1
      /\ res.data \in Data
  BY StreamQuiet, SystemAssumption DEF SystemTyped, Stream!ResultBeat
<1>1. /\ Stream!NextAddr(stream.addr) \in Addr
      /\ Stream!ReadPort \in Request /\ Stream!WritePort \in Request
  <2>1. /\ stream.addr \in Addr /\ stream.buffer \in Data /\ stream.port \in Request
    BY <1>0, StreamFields
  <2>2. Stream!ReadPort \in Request
    BY <2>1 DEF Stream!ReadPort, Request
  <2>3. Stream!WritePort \in Request
    BY <2>1 DEF Stream!WritePort, Request
  <2> QED BY <2>1, <2>2, <2>3, MapFacts, SameMap
<1>2. Stream!AfterWord \in 0..StreamLenMod - 1
  <2>1. \A a \in Int, m \in Nat \ {0} : a % m \in 0..m - 1
    OBVIOUS
  <2>2. stream.left - 4 \in Int
    BY <1>0, StreamFields
  <2> QED BY <2>1, <2>2, SystemAssumption DEF Stream!AfterWord
<1>3. beat \in Stream!Beat
  BY <1>0 DEF Stream!Beat
<1>4. Stream!Tick(start, FALSE, cfg, gnt, rvalid, ramDout, res)
  OBVIOUS
<1> HIDE DEF Q, gnt, rvalid, beat
<1> USE <1>0, <1>1, <1>2, <1>3, SameMap DEF Stream!Registers, Stream!States
<1>5. CASE Stream!Idle(start)
  BY <1>5 DEF Stream!Idle, Q
<1>6. CASE Stream!Start(start, cfg)
  BY <1>6 DEF Stream!Start, Q
<1>7. CASE Stream!WeightsFilled(cfg)
  BY <1>7 DEF Stream!WeightsFilled, Q
<1>8. CASE Stream!FillWeights(gnt)
  BY <1>8 DEF Stream!FillWeights, Q
<1>9. CASE Stream!WeightWait(rvalid, ramDout)
  BY <1>9 DEF Stream!WeightWait, Q, beat
<1>10. CASE Stream!ActivationsFilled
  BY <1>10 DEF Stream!ActivationsFilled, Q
<1>11. CASE Stream!FillActivations(gnt)
  BY <1>11 DEF Stream!FillActivations, Q
<1>12. CASE Stream!ActivationWait(rvalid, ramDout)
  BY <1>12 DEF Stream!ActivationWait, Q, beat
<1>13. CASE Stream!RunArray(cfg, res)
  BY <1>13 DEF Stream!RunArray, Q
<1>14. CASE Stream!DrainResult(res)
  BY <1>14 DEF Stream!DrainResult, Q
<1>15. CASE Stream!WriteResult(gnt)
  BY <1>15 DEF Stream!WriteResult, Q
<1>16. CASE Stream!ResultWritten(gnt, res)
  BY <1>16 DEF Stream!ResultWritten, Q
<1> QED BY <1>4, <1>5, <1>6, <1>7, <1>8, <1>9, <1>10, <1>11, <1>12, <1>13, <1>14,
           <1>15, <1>16 DEF Stream!Tick

-----------------------------------------------------------------------------
(* The arbiter and its queue.                                              *)

LEMMA QueueFacts ==
  ASSUME NEW s \in Seq(BOOLEAN), NEW b \in BOOLEAN
  PROVE  /\ <<>> \o s = s /\ s \o <<>> = s
         /\ s \o <<b>> = Append(s, b)
         /\ <<b>> \o s # <<>> /\ Tail(<<b>> \o s) = s
OBVIOUS

\* A read leaves the pipeline with its answer and enters it with its grant.
LEMMA FlightMoves ==
  ASSUME IInv, ClockEdge
  PROVE  /\ Arb!MemoryTick(Mem!DmaGnt, dmaRvalid)
         /\ Flight \in Seq(BOOLEAN)
<1> DEFINE o1 == OwnerOf(granted[1])
           o2 == OwnerOf(granted[2])
           n == OwnerOf(granted'[1])
<1>1. o1 \in Seq(BOOLEAN) /\ o2 \in Seq(BOOLEAN) /\ n \in Seq(BOOLEAN)
  BY OwnerTyped
<1>2. Flight = o2 \o o1
  BY DEF Flight
<1>3. Flight' = o1 \o n
  BY HistoryFacts DEF Flight, OwnerOf, IsRead
<1>4. /\ dmaRvalid => o2 = <<granted[2].by = "stream">>
      /\ ~dmaRvalid => o2 = <<>>
  BY OwnerTyped DEF IInv, PipelineIsHistory
<1>5. /\ Arb!ReadPush(Mem!DmaGnt) => n = <<Arb!SelectStream>>
      /\ ~Arb!ReadPush(Mem!DmaGnt) => n = <<>>
  <2>1. Arb!ReadPush(Mem!DmaGnt) <=> IsRead(granted'[1])
    BY HistoryFacts
  <2>2. Arb!ReadPush(Mem!DmaGnt) =>
          (granted'[1].by = "stream") = Arb!SelectStream
    BY HistoryFacts, GrantFacts, DmaRequestFacts DEF IInv
  <2> QED BY <2>1, <2>2, OwnerTyped
<1>6. Arb!SelectStream \in BOOLEAN /\ (granted[2].by = "stream") \in BOOLEAN
  BY DmaRequestFacts DEF IInv
<1> HIDE DEF o1, o2, n
<1>7. Arb!Unanswered(dmaRvalid) = o1
  BY <1>1, <1>2, <1>4, <1>6, QueueFacts DEF Arb!Unanswered
<1>8. dmaRvalid => Flight # <<>>
  BY <1>1, <1>2, <1>4, <1>6, QueueFacts
<1>9. Flight' = IF Arb!ReadPush(Mem!DmaGnt) THEN Append(o1, Arb!SelectStream) ELSE o1
  <2>1. o1 \o <<Arb!SelectStream>> = Append(o1, Arb!SelectStream) /\ o1 \o <<>> = o1
    BY <1>1, <1>6, QueueFacts
  <2>2. CASE Arb!ReadPush(Mem!DmaGnt)
    BY <1>3, <1>5, <2>1, <2>2
  <2>3. CASE ~Arb!ReadPush(Mem!DmaGnt)
    BY <1>3, <1>5, <2>1, <2>3
  <2> QED BY <2>2, <2>3
<1>10. Mem!DmaGnt => Arb!MemReq
  BY GrantFacts DEF IInv
<1>11. Flight \in Seq(BOOLEAN)
  <2>1. \A s, t \in Seq(BOOLEAN) : s \o t \in Seq(BOOLEAN)
    OBVIOUS
  <2> QED BY <1>1, <1>2, <2>1
<1> QED BY <1>7, <1>8, <1>9, <1>10, <1>11 DEF Arb!MemoryTick

\* The queue of owners after an edge, one case per arm of the case statement
\* of dma_arbiter.v:63-85.
LEMMA OwnersFollow ==
  ASSUME IInv, ClockEdge
  PROVE  /\ nextStream' \in BOOLEAN
         /\ owner' \in [0..1 -> BOOLEAN]
         /\ ownerCount' \in 0..2
         /\ Arb!OwnersMatchFlight'
<1> DEFINE gnt == Mem!DmaGnt
           f == Flight
           g == Flight'
           push == Arb!ReadPush(gnt)
           sel == Arb!SelectStream
<1>1. /\ nextStream \in BOOLEAN /\ owner \in [0..1 -> BOOLEAN] /\ ownerCount \in 0..2
      /\ f \in Seq(BOOLEAN) /\ ownerCount = Len(f)
      /\ \A i \in 1..Len(f) : owner[i - 1] = f[i]
  BY FlightMoves DEF IInv, SystemTyped, Arb!OwnersMatchFlight
<1>2. sel \in BOOLEAN /\ Arb!MemReq \in BOOLEAN
  BY DmaRequestFacts DEF IInv
<1>3. push => ownerCount < 2
  BY <1>1 DEF Arb!ReadPush, Arb!MemReq
<1>4. /\ dmaRvalid => f # <<>>
      /\ g = IF push THEN Append(Arb!Unanswered(dmaRvalid), sel)
                     ELSE Arb!Unanswered(dmaRvalid)
      /\ Arb!Unanswered(dmaRvalid) = IF dmaRvalid THEN Tail(f) ELSE f
  BY FlightMoves DEF Arb!MemoryTick, Arb!Unanswered
<1>5. Arb!Tick(gnt, dmaRvalid)
  BY DEF ClockEdge
<1>6. nextStream' \in BOOLEAN
  BY <1>1, <1>2, <1>5 DEF Arb!Tick, Arb!TurnOver
<1>7. push \in BOOLEAN
  BY <1>2 DEF Arb!ReadPush
<1> DEFINE Follows ==
      /\ owner' \in [0..1 -> BOOLEAN] /\ ownerCount' \in 0..2
      /\ ownerCount' = Len(g)
      /\ \A i \in 1..Len(g) : owner'[i - 1] = g[i]
<1> SUFFICES Follows
  BY <1>6 DEF Arb!OwnersMatchFlight
<1> HIDE DEF gnt, f, g, push, sel
<1>8. dmaRvalid => /\ ownerCount > 0
                   /\ Tail(f) \in Seq(BOOLEAN) /\ Len(Tail(f)) = ownerCount - 1
                   /\ \A i \in 1..(ownerCount - 1) : Tail(f)[i] = owner[i]
  BY <1>1, <1>4
<1>9. CASE Arb!PushOwner(gnt, dmaRvalid)
  <2>1. push /\ ~dmaRvalid /\ ownerCount' = ownerCount + 1
    BY <1>1, <1>3, <1>9 DEF Arb!PushOwner, push
  <2>2. ownerCount = 0 \/ ownerCount = 1
    BY <1>1, <1>3, <2>1
  <2>3. owner' = [owner EXCEPT ![ownerCount] = sel]
    BY <1>9, <2>2 DEF Arb!PushOwner, sel
  <2>4. g = Append(f, sel)
    BY <1>4, <2>1
  <2> QED BY <1>1, <1>2, <2>1, <2>2, <2>3, <2>4
<1>10. CASE Arb!PopOwner(gnt, dmaRvalid)
  <2>1. ~push /\ dmaRvalid /\ ownerCount' = ownerCount - 1
    BY <1>1, <1>8, <1>10 DEF Arb!PopOwner, push
  <2>2. owner' = IF ownerCount > 1 THEN [owner EXCEPT ![0] = owner[1]] ELSE owner
    BY <1>10 DEF Arb!PopOwner
  <2>3. g = Tail(f)
    BY <1>4, <2>1
  <2> QED BY <1>1, <1>8, <2>1, <2>2, <2>3
<1>11. CASE Arb!ReplaceOwner(gnt, dmaRvalid)
  <2>1. push /\ dmaRvalid /\ ownerCount' = ownerCount /\ ownerCount = 1
    BY <1>1, <1>3, <1>8, <1>11 DEF Arb!ReplaceOwner, push
  <2>2. owner' = [owner EXCEPT ![0] = sel]
    BY <1>11, <2>1 DEF Arb!ReplaceOwner, sel
  <2>3. g = Append(Tail(f), sel)
    BY <1>4, <2>1
  <2>4. g \in Seq(BOOLEAN) /\ Len(g) = 1 /\ g[1] = sel
    <3>1. Tail(f) \in Seq(BOOLEAN) /\ Len(Tail(f)) = 0
      BY <1>8, <2>1
    <3>2. \A t \in Seq(BOOLEAN), b \in BOOLEAN :
            Len(t) = 0 => /\ Append(t, b) \in Seq(BOOLEAN)
                          /\ Len(Append(t, b)) = 1 /\ Append(t, b)[1] = b
      OBVIOUS
    <3> QED BY <1>2, <2>3, <3>1, <3>2
  <2>5. owner' \in [0..1 -> BOOLEAN] /\ owner'[0] = sel
    BY <1>1, <1>2, <2>2
  <2> QED BY <1>1, <2>1, <2>4, <2>5
<1>12. CASE Arb!KeepOwners(gnt, dmaRvalid)
  <2>1. ~push /\ ~dmaRvalid /\ UNCHANGED <<owner, ownerCount>>
    BY <1>12 DEF Arb!KeepOwners, push
  <2>2. g = f
    BY <1>4, <2>1
  <2> QED BY <1>1, <2>1, <2>2
<1> QED BY <1>5, <1>9, <1>10, <1>11, <1>12 DEF Arb!Tick

-----------------------------------------------------------------------------
(* The memory and the core.                                                *)

LEMMA MacsAreTiedOff ==
  /\ ~Mem!AnyMacGnt
  /\ \A m \in Mem!Mac : ~Mem!MacGnt(m)
BY MapFacts DEF Mem!AnyMacGnt, Mem!MacGnt, Mem!Mac

LEMMA MemoryTyped ==
  ASSUME SystemTyped, ClockEdge
  PROVE  /\ ram' \in [RamWord -> Data] /\ ramDout' \in Data
         /\ dmaReadPending' \in BOOLEAN /\ dmaRvalid' \in BOOLEAN
         /\ dmaReadPending' <=> Arb!ReadPush(Mem!DmaGnt)
         /\ dmaRvalid' = dmaReadPending
<1>1. Mem!Arbitrated \in Request
  <2>1. DmaRequest \in Request /\ cpu \in Request
    BY DmaRequestFacts, MapFacts, SystemAssumption DEF DmaPort, SystemTyped
  <2> QED BY <2>1, MacsAreTiedOff, MapFacts, SameMap DEF Mem!Arbitrated
<1>2. Mem!SramIndex \in RamWord /\ Mem!Arbitrated.data \in Data
  <2>1. Mem!Arbitrated.addr \in Addr /\ Mem!Arbitrated.data \in Data
    BY <1>1 DEF Request
  <2> QED BY <2>1, MapFacts, SameMap DEF Mem!SramIndex
<1>3. ram' \in [RamWord -> Data] /\ ramDout' \in Data
  <2> DEFINE a == Mem!Arbitrated
             i == Mem!SramIndex
  <2>1. \/ /\ ramDout' = ram[i]
           /\ ram' = IF a.we THEN [ram EXCEPT ![i] = a.data] ELSE ram
        \/ ram' = ram /\ ramDout' = ramDout
    BY DEF ClockEdge, Mem!Tick, Mem!SramTick
  <2>2. i \in RamWord /\ a.data \in Data
    BY <1>2
  <2> HIDE DEF a, i
  <2> QED BY <2>1, <2>2 DEF SystemTyped
<1>4. /\ dmaReadPending' = (Mem!DmaGnt /\ ~DmaRequest.we)
      /\ dmaRvalid' = dmaReadPending
  BY DEF ClockEdge, Mem!Tick, Mem!ResponseTick
<1> QED BY <1>3, <1>4, GrantFacts DEF SystemTyped

LEMMA CoreTyped ==
  ASSUME CoreTick
  PROVE  cpu' \in CpuRequests \cup {NoRequest}
BY DEF CoreTick, CoreIdle, CoreRequest, CoreSecondHalf, CoreAnswered

LEMMA ClockEdgeKeeps ==
  ASSUME IInv, ClockEdge
  PROVE  IInv'
<1>1. SystemTyped'
  BY CopyTyped, StreamTyped, OwnersFollow, MemoryTyped, CoreTyped, HistoryFacts
  DEF ClockEdge, IInv, SystemTyped
<1>2. PipelineIsHistory'
  <2>1. dmaReadPending' <=> IsRead(granted'[1])
    BY MemoryTyped, HistoryFacts DEF IInv
  <2>2. dmaRvalid' <=> IsRead(granted'[2])
    BY MemoryTyped, HistoryFacts DEF IInv, PipelineIsHistory
  <2> QED BY <2>1, <2>2 DEF PipelineIsHistory, IsRead
<1>3. GrantsAreOwned'
  BY GrantsStayOwned
<1>4. Copy!WaitsForItsRead' /\ Copy!AsksForCurrentWord'
  BY CopyInStep
<1>5. Arb!OwnersMatchFlight'
  BY OwnersFollow
<1> QED BY <1>1, <1>2, <1>3, <1>4, <1>5 DEF IInv

LEMMA NoGrantFacts ==
  NoGrant \in Grant /\ ~IsRead(NoGrant) /\ NoGrant.by = "nobody"
BY MapFacts DEF NoGrant, Grant, IsRead

\* With nothing granted, nothing is in flight.
LEMMA NothingInFlight ==
  ASSUME granted = <<NoGrant, NoGrant>>
  PROVE  Flight = <<>> /\ ~CopyReads
<1>1. granted[1] = NoGrant /\ granted[2] = NoGrant
  OBVIOUS
<1>2. Flight = <<>>
  <2>1. OwnerOf(NoGrant) = <<>>
    BY NoGrantFacts, OwnerTyped
  <2>2. <<>> \o <<>> = <<>>
    OBVIOUS
  <2> QED BY <1>1, <2>1, <2>2 DEF Flight
<1>3. ~CopyReads
  <2>1. \A i \in 1..2 : granted[i] = NoGrant
    BY <1>1
  <2> QED BY <2>1, NoGrantFacts DEF CopyReads
<1> QED BY <1>2, <1>3

\* The registers after a reset.
Resting ==
  /\ copy \in Copy!Registers /\ stream \in Stream!Registers
  /\ copy.state = "idle" /\ ~copy.port.req
  /\ Arb!Init0
  /\ ram \in [RamWord -> Data] /\ ramDout \in Data
  /\ dmaReadPending = FALSE /\ dmaRvalid = FALSE
  /\ cpu = NoRequest
  /\ granted = <<NoGrant, NoGrant>>

LEMMA RestingInvariant == Resting => IInv
<1> SUFFICES ASSUME Resting PROVE IInv
  OBVIOUS
<1> USE DEF Resting
<1>1. Flight = <<>> /\ ~CopyReads
  BY NothingInFlight
<1>2. /\ granted \in [1..2 -> Grant] /\ granted[1] = NoGrant /\ granted[2] = NoGrant
  BY NoGrantFacts, PairTyped
<1>3. SystemTyped
  <2>1. nextStream \in BOOLEAN /\ owner \in [0..1 -> BOOLEAN] /\ ownerCount \in 0..2
    <3>1. nextStream = FALSE /\ owner = [i \in 0..1 |-> FALSE] /\ ownerCount = 0
      BY DEF Arb!Init0
    <3>2. owner \in [0..1 -> BOOLEAN]
      BY <3>1
    <3>3. nextStream \in BOOLEAN
      BY <3>1, Zenon
    <3> QED BY <3>1, <3>2, <3>3
  <2> QED BY <1>2, <2>1 DEF SystemTyped
<1>4. PipelineIsHistory
  BY <1>2, NoGrantFacts DEF PipelineIsHistory
<1>5. GrantsAreOwned
  <2>1. \A i \in 1..2 : granted[i] = NoGrant
    BY <1>2
  <2> QED BY <2>1, NoGrantFacts DEF GrantsAreOwned
<1>6. Copy!WaitsForItsRead /\ Copy!AsksForCurrentWord
  BY <1>1 DEF Copy!WaitsForItsRead, Copy!AsksForCurrentWord
<1>7. Arb!OwnersMatchFlight
  <2>1. Len(<<>>) = 0 /\ ownerCount = 0
    BY DEF Arb!Init0
  <2> QED BY <1>1, <2>1 DEF Arb!OwnersMatchFlight
<1> QED BY <1>3, <1>4, <1>5, <1>6, <1>7 DEF IInv

LEMMA RestingNext == Resting' => IInv'
BY RestingInvariant, PTL

LEMMA InitRests == Init => Resting
<1> SUFFICES ASSUME Init PROVE Resting
  OBVIOUS
<1>1. copy \in Copy!Registers /\ copy.state = "idle" /\ ~copy.port.req
  BY MapFacts, SameMap DEF Init, Copy!Init0, Copy!Registers, Copy!States
<1>2. stream \in Stream!Registers
  <2>1. Stream!NoBeat \in Stream!Beat
    BY MapFacts, SameMap DEF Stream!NoBeat, Stream!Beat
  <2> QED BY <2>1, MapFacts, SameMap DEF Init, Stream!Init0, Stream!Registers, Stream!States
<1>3. ram \in [RamWord -> Data] /\ ramDout \in Data
  BY SameMap DEF Init, Mem!Init0
<1> QED BY <1>1, <1>2, <1>3 DEF Init, Resting, Mem!Init0

LEMMA ResetRests ==
  ASSUME IInv, ResetEdge
  PROVE  Resting'
<1>1. copy' \in Copy!Registers /\ copy'.state = "idle" /\ ~copy'.port.req
  BY CopyFields, SameMap DEF IInv, SystemTyped, ResetEdge, Copy!Reset, Copy!Registers,
     Copy!States, Request
<1>2. stream' \in Stream!Registers
  <2>1. Stream!NoBeat \in Stream!Beat
    BY MapFacts, SameMap DEF Stream!NoBeat, Stream!Beat
  <2> QED BY <2>1, MapFacts, SameMap
      DEF IInv, SystemTyped, ResetEdge, Stream!Reset, Stream!Registers, Stream!States
<1>3. Arb!Init0'
  BY DEF ResetEdge, Arb!Reset, Arb!Init0
<1>4. /\ ram' \in [RamWord -> Data] /\ ramDout' \in Data
      /\ dmaReadPending' = FALSE /\ dmaRvalid' = FALSE
  BY DEF IInv, SystemTyped, ResetEdge, Mem!Reset
<1> QED BY <1>1, <1>2, <1>3, <1>4 DEF ResetEdge, Resting

LEMMA StutterKeeps ==
  ASSUME IInv, UNCHANGED vars
  PROVE  IInv'
<1>1. /\ copy' = copy /\ stream' = stream /\ nextStream' = nextStream
      /\ owner' = owner /\ ownerCount' = ownerCount /\ ram' = ram /\ ramDout' = ramDout
      /\ dmaReadPending' = dmaReadPending /\ dmaRvalid' = dmaRvalid /\ cpu' = cpu
      /\ granted' = granted
  BY DEF vars, engineVars, arbVars, memVars, coreVars, ghostVars
<1>2. Flight' = Flight /\ CopyReads' = CopyReads
  BY <1>1 DEF Flight, OwnerOf, CopyReads, IsRead
<1>3. SystemTyped' /\ PipelineIsHistory' /\ GrantsAreOwned'
  BY <1>1 DEF IInv, SystemTyped, PipelineIsHistory, GrantsAreOwned, IsRead
<1>4. Copy!WaitsForItsRead' /\ Copy!AsksForCurrentWord' /\ Arb!OwnersMatchFlight'
  BY <1>1, <1>2 DEF IInv, Copy!WaitsForItsRead, Copy!AsksForCurrentWord,
                    Arb!OwnersMatchFlight
<1> QED BY <1>3, <1>4 DEF IInv

LEMMA NextInvariant == IInv /\ [Next]_vars => IInv'
BY ClockEdgeKeeps, ResetRests, RestingNext, StutterKeeps DEF Next

LEMMA SpecInvariant == Spec => []IInv
<1>1. Init => IInv
  BY InitRests, RestingInvariant
<1> QED BY <1>1, NextInvariant, PTL DEF Spec

\* The owners the arbiter remembers are those of the reads that the memory has
\* accepted and not answered, whatever the core does: every answer goes to the
\* engine whose read it is (dma_arbiter.v:31-32, mem_subsystem.v:194-231).
THEOREM AnswersReachTheirOwner == Spec => []OwnersFollowMemory
<1>1. IInv => OwnersFollowMemory
  BY DEF IInv, PipelineIsHistory, OwnersFollowMemory
<1> QED BY <1>1, SpecInvariant, PTL

-----------------------------------------------------------------------------
(* Each component meets the surroundings its own module assumes.           *)

\* What a reset, or the first state, shows of the bus.
LEMMA SilentBus ==
  ASSUME granted = <<NoGrant, NoGrant>>
  PROVE  /\ CopyReads = FALSE /\ (granted[1].by = "copy") = FALSE
         /\ <<GrantOf("stream", granted[1]), GrantOf("stream", granted[2])>>
              = <<Stream!NoRequest, Stream!NoRequest>>
         /\ Flight = <<>>
BY NothingInFlight, NoGrantFacts, SameMap DEF GrantOf

LEMMA SilentBusNext ==
  ASSUME granted' = <<NoGrant, NoGrant>>
  PROVE  /\ CopyReads' = FALSE /\ (granted'[1].by = "copy") = FALSE
         /\ <<GrantOf("stream", granted'[1]), GrantOf("stream", granted'[2])>>
              = <<Stream!NoRequest, Stream!NoRequest>>
         /\ Flight' = <<>>
<1>1. granted'[1] = NoGrant /\ granted'[2] = NoGrant
  OBVIOUS
<1>2. Flight' = <<>>
  <2>1. OwnerOf(NoGrant) = <<>>
    BY NoGrantFacts, OwnerTyped
  <2>2. <<>> \o <<>> = <<>>
    OBVIOUS
  <2>3. Flight' = OwnerOf(NoGrant) \o OwnerOf(NoGrant)
    BY <1>1 DEF Flight, OwnerOf, IsRead
  <2> QED BY <2>1, <2>2, <2>3
<1>3. ~CopyReads'
  <2>1. \A i \in 1..2 : granted'[i] = NoGrant
    BY <1>1
  <2> QED BY <2>1, NoGrantFacts DEF CopyReads, IsRead
<1> QED BY <1>1, <1>2, <1>3, NoGrantFacts, SameMap DEF GrantOf

LEMMA CopyInits == Init => Copy!Init
BY SilentBus DEF Init, Copy!Init

LEMMA CopySteps == IInv /\ [Next]_vars => [Copy!Next]_(Copy!vars)
<1> SUFFICES ASSUME IInv, [Next]_vars PROVE [Copy!Next]_(Copy!vars)
  OBVIOUS
<1>1. CASE ClockEdge
  <2>1. PICK p \in Pulse :
          Copy!Tick(p.start, p.job, CopyGnt, Arb!CopyRvalid(dmaRvalid), ramDout)
    BY <1>1, CopyTicks
  <2>2. /\ p.start \in BOOLEAN /\ p.job \in Jobs /\ ramDout \in Data
        /\ CopyGnt \in BOOLEAN /\ Arb!CopyRvalid(dmaRvalid) \in BOOLEAN
    BY JobFields, GrantFacts, AnswerFacts DEF IInv, SystemTyped
  <2>3. Copy!Bus(CopyGnt, Arb!CopyRvalid(dmaRvalid))
    BY <1>1, CopyReadsMove
  <2>4. Copy!ClockEdge
    BY <2>1, <2>2, <2>3 DEF Copy!ClockEdge
  <2> QED BY <2>4 DEF Copy!Next
<1>2. CASE ResetEdge
  <2>1. Copy!ResetEdge
    BY <1>2, SilentBusNext DEF ResetEdge, Copy!ResetEdge
  <2> QED BY <2>1 DEF Copy!Next
<1>3. CASE UNCHANGED vars
  <2>1. copy' = copy /\ granted' = granted
    BY <1>3 DEF vars, engineVars, ghostVars
  <2>2. UNCHANGED Copy!vars
    BY <2>1 DEF Copy!vars, CopyReads, IsRead
  <2> QED BY <2>2
<1> QED BY <1>1, <1>2, <1>3 DEF Next

LEMMA StreamInits == Init => Stream!Init
BY SilentBus DEF Init, Stream!Init

LEMMA StreamSteps == IInv /\ [Next]_vars => [Stream!Next]_(Stream!vars)
<1> SUFFICES ASSUME IInv, [Next]_vars PROVE [Stream!Next]_(Stream!vars)
  OBVIOUS
<1> DEFINE pipe1 == GrantOf("stream", granted[1])
           pipe2 == GrantOf("stream", granted[2])
<1>1. CASE ClockEdge
  <2>1. PICK start \in BOOLEAN, cfg \in Configs, res \in Stream!ResultBeat :
          Stream!Tick(start, FALSE, cfg, StreamGnt, Arb!StreamRvalid(dmaRvalid),
                      ramDout, res)
    BY <1>1, StreamTicks
  <2>2. /\ ramDout \in Data /\ StreamGnt \in BOOLEAN
        /\ StreamGnt => stream.port.req
    BY GrantFacts DEF IInv, SystemTyped
  <2>3. Arb!StreamRvalid(dmaRvalid) = (pipe2.req /\ ~pipe2.we)
    <3>1. Arb!StreamRvalid(dmaRvalid) <=> pipe2.req /\ ~pipe2.we
      BY AnswerFacts, MapFacts DEF GrantOf, IsRead
    <3>2. Arb!StreamRvalid(dmaRvalid) \in BOOLEAN
      BY AnswerFacts
    <3> QED BY <3>1, <3>2
  <2>4. <<GrantOf("stream", granted'[1]), GrantOf("stream", granted'[2])>>
          = <<IF StreamGnt THEN stream.port ELSE Stream!NoRequest, pipe1>>
    <3>1. GrantOf("stream", granted'[1])
            = IF StreamGnt THEN stream.port ELSE Stream!NoRequest
      BY <1>1, HistoryFacts, SameMap DEF GrantOf
    <3>2. GrantOf("stream", granted'[2]) = pipe1
      BY <1>1, HistoryFacts DEF GrantOf
    <3> QED BY <3>1, <3>2
  <2>5. Stream!Tick(start, FALSE, cfg, StreamGnt, pipe2.req /\ ~pipe2.we, ramDout, res)
    BY <2>1, <2>3
  <2>6. Stream!ClockEdge
    <3>1. <<pipe1, pipe2>>[1] = pipe1 /\ <<pipe1, pipe2>>[2] = pipe2
      OBVIOUS
    <3> HIDE DEF pipe1, pipe2
    <3> QED BY <2>2, <2>4, <2>5, <3>1 DEF Stream!ClockEdge, pipe1, pipe2
  <2> QED BY <2>6 DEF Stream!Next
<1>2. CASE ResetEdge
  <2>1. Stream!ResetEdge
    BY <1>2, SilentBusNext DEF ResetEdge, Stream!ResetEdge, GrantOf
  <2> QED BY <2>1 DEF Stream!Next
<1>3. CASE UNCHANGED vars
  <2>1. stream' = stream /\ granted' = granted
    BY <1>3 DEF vars, engineVars, ghostVars
  <2>2. UNCHANGED Stream!vars
    BY <2>1 DEF Stream!vars, GrantOf
  <2> QED BY <2>2
<1> QED BY <1>1, <1>2, <1>3 DEF Next

LEMMA ArbInits == Init => Arb!Init
<1> SUFFICES ASSUME Init PROVE Arb!Init
  OBVIOUS
<1>1. copy.port = NoRequest /\ stream.port = NoRequest
  BY SameMap DEF Init, Copy!Init0, Stream!Init0
<1>2. Flight = <<>>
  BY SilentBus DEF Init
<1> QED BY <1>1, <1>2, MapFacts DEF Init, Arb!Init

LEMMA ArbSteps == IInv /\ IInv' /\ [Next]_vars => [Arb!Next]_(Arb!vars)
<1> SUFFICES ASSUME IInv, IInv', [Next]_vars PROVE [Arb!Next]_(Arb!vars)
  OBVIOUS
<1>0. copy'.port \in Request /\ stream'.port \in Request
  BY SameMap DEF IInv, SystemTyped, Copy!Registers, Stream!Registers
<1>1. CASE ClockEdge
  <2>1. Arb!Tick(Mem!DmaGnt, dmaRvalid)
    BY <1>1 DEF ClockEdge
  <2>2. Arb!MemoryTick(Mem!DmaGnt, dmaRvalid)
    BY <1>1, FlightMoves
  <2>3. Arb!ClientTick(Mem!DmaGnt)
    BY <1>0, <1>1 DEF ClockEdge, GhostTick, Arb!ClientTick
  <2>4. Mem!DmaGnt \in BOOLEAN /\ dmaRvalid \in BOOLEAN
    BY GrantFacts DEF IInv, SystemTyped
  <2> QED BY <2>1, <2>2, <2>3, <2>4 DEF Arb!Next
<1>2. CASE ResetEdge
  <2>1. Arb!Reset /\ arbPassed' = [stream |-> 0, copy |-> 0]
    BY <1>2 DEF ResetEdge
  <2>2. Flight' = <<>>
    BY <1>2, SilentBusNext DEF ResetEdge
  <2>3. ~copy'.port.req /\ ~stream'.port.req
    <3>1. Resting'
      BY <1>2, ResetRests
    <3>2. stream'.port = NoRequest
      BY <1>2, SameMap DEF IInv, SystemTyped, Stream!Registers, ResetEdge, Stream!Reset
    <3> QED BY <3>1, <3>2, MapFacts DEF Resting
  <2>4. Arb!ClientTick(FALSE)
    BY <1>0, <2>1, <2>3 DEF Arb!ClientTick, Arb!PassedTick
  <2> QED BY <2>1, <2>2, <2>3, <2>4 DEF Arb!ResetAll, Arb!Next
<1>3. CASE UNCHANGED vars
  <2>1. /\ copy' = copy /\ stream' = stream /\ nextStream' = nextStream
        /\ owner' = owner /\ ownerCount' = ownerCount /\ granted' = granted
        /\ arbPassed' = arbPassed
    BY <1>3 DEF vars, engineVars, arbVars, ghostVars
  <2>2. Flight' = Flight
    BY <2>1 DEF Flight, OwnerOf, IsRead
  <2>3. UNCHANGED Arb!vars
    BY <2>1, <2>2 DEF Arb!vars
  <2> QED BY <2>3
<1> QED BY <1>1, <1>2, <1>3 DEF Next

LEMMA PortTyped ==
  ASSUME IInv
  PROVE  DmaRequest \in DmaPort
BY DmaRequestFacts DEF IInv

LEMMA MacPortsTyped ==
  [m \in 0..3 |-> NoRequest] \in [Mem!Mac -> {NoRequest}]
BY DEF Mem!Mac

LEMMA MemInits == Init => Mem!Init
<1> SUFFICES ASSUME Init PROVE Mem!Init
  OBVIOUS
<1>1. copy.port = NoRequest /\ stream.port = NoRequest
  BY SameMap DEF Init, Copy!Init0, Stream!Init0
<1>2. Arb!Selected = NoRequest /\ Arb!MemReq = FALSE
  BY <1>1, MapFacts DEF Arb!Selected, Arb!SelectStream, Arb!MemReq
<1>3. DmaRequest = NoRequest
  <2>1. Arb!MemRequest = NoRequest
    BY <1>2, MapFacts, RequestEdit DEF Arb!MemRequest
  <2>2. (Arb!MemReq /\ ~InLocal(Arb!Selected.addr)) = FALSE
    BY <1>2
  <2> QED BY <2>1, <2>2, MapFacts, RequestEdit DEF DmaRequest
<1> QED BY <1>3, SameMap DEF Init, Mem!Init, Mem!Mac

LEMMA MemSteps == IInv /\ IInv' /\ [Next]_vars => [Mem!Next]_(Mem!vars)
<1> SUFFICES ASSUME IInv, IInv', [Next]_vars PROVE [Mem!Next]_(Mem!vars)
  OBVIOUS
<1>1. DmaRequest' \in DmaPort
  <2>1. (DmaRequest \in DmaPort)'
    BY PortTyped, PTL
  <2> QED BY <2>1
<1>2. cpu' \in CpuRequests \cup {NoRequest}
  BY DEF IInv, SystemTyped
<1>3. Mem!MastersTick
  BY <1>1, <1>2, MacPortsTyped DEF Mem!MastersTick
<1>4. CASE ClockEdge
  BY <1>3, <1>4 DEF ClockEdge, GhostTick, Mem!Next, Mem!ClockEdge
<1>5. CASE ResetEdge
  <2>1. Mem!ResetEdge
    BY <1>3, <1>5 DEF ResetEdge, Mem!ResetEdge, Mem!Mac
  <2> QED BY <2>1 DEF Mem!Next
<1>6. CASE UNCHANGED vars
  <2>1. /\ copy' = copy /\ stream' = stream
        /\ nextStream' = nextStream /\ owner' = owner /\ ownerCount' = ownerCount
        /\ ram' = ram /\ ramDout' = ramDout /\ cpuRvalid' = cpuRvalid
        /\ dmaReadPending' = dmaReadPending /\ dmaRvalid' = dmaRvalid
        /\ cpu' = cpu /\ promised' = promised
    BY <1>6 DEF vars, engineVars, arbVars, memVars, coreVars, ghostVars
  <2>2. DmaRequest' = DmaRequest
    BY <2>1 DEF DmaRequest, Arb!MemRequest, Arb!MemReq, Arb!Selected, Arb!SelectStream
  <2> QED BY <2>1, <2>2 DEF Mem!vars, Mem!regs
<1> QED BY <1>4, <1>5, <1>6 DEF Next

\* Every component of the system lives in the surroundings that its own module
\* assumes (soc_top.v:130-183, mem_subsystem.v:123-231): the engines' grants
\* and answers, the arbiter's memory, the memory's masters.
THEOREM ComponentsKeepContracts == Spec => Contracts
<1>1. Spec => Copy!Spec
  BY SpecInvariant, CopyInits, CopySteps, PTL DEF Spec, Copy!Spec
<1>2. Spec => Stream!Spec
  BY SpecInvariant, StreamInits, StreamSteps, PTL DEF Spec, Stream!Spec
<1>3. Spec => Arb!Spec
  BY SpecInvariant, ArbInits, ArbSteps, PTL DEF Spec, Arb!Spec
<1>4. Spec => Mem!Spec
  BY SpecInvariant, MemInits, MemSteps, PTL DEF Spec, Mem!Spec
<1> QED BY <1>1, <1>2, <1>3, <1>4 DEF Contracts

-----------------------------------------------------------------------------
(* The copy engine as a mover of words.                                    *)

\* A job, and the changes that the steps of the mover make to one.
JobOf(p, s, d, n, v) == [phase |-> p, src |-> s, dst |-> d, left |-> n, held |-> v]

Phased(j, p2) == [j EXCEPT !.phase = p2]

Holding(j, p2, v2) == [j EXCEPT !.phase = p2, !.held = v2]

Dropped(j, p2, n2, v2) == [j EXCEPT !.phase = p2, !.left = n2, !.held = v2]

Placed(j, p2, s2, d2, n2) == [j EXCEPT !.phase = p2, !.src = s2, !.dst = d2, !.left = n2]

LEMMA JobPhased ==
  ASSUME NEW p, NEW s, NEW d, NEW n, NEW v, NEW p2
  PROVE  Phased(JobOf(p, s, d, n, v), p2) = JobOf(p2, s, d, n, v)
<1> DEFINE J == [phase : {p, p2}, src : {s}, dst : {d}, left : {n}, held : {v}]
           j == JobOf(p, s, d, n, v)
           x == Phased(j, p2)
           y == JobOf(p2, s, d, n, v)
<1>1. /\ j \in J
      /\ j.phase = p /\ j.src = s /\ j.dst = d /\ j.left = n /\ j.held = v
  BY DEF JobOf
<1>2. /\ y \in J /\ y.phase = p2 /\ y.src = s /\ y.dst = d
      /\ y.left = n /\ y.held = v
  BY DEF JobOf
<1> HIDE DEF j, y
<1>3. /\ x \in J /\ x.phase = p2 /\ x.src = s /\ x.dst = d
      /\ x.left = n /\ x.held = v
  BY <1>1 DEF Phased
<1> HIDE DEF x
<1>4. x = y
  BY <1>2, <1>3
<1> QED BY <1>4 DEF x, y, j

LEMMA JobHolding ==
  ASSUME NEW p, NEW s, NEW d, NEW n, NEW v, NEW p2, NEW v2
  PROVE  Holding(JobOf(p, s, d, n, v), p2, v2) = JobOf(p2, s, d, n, v2)
<1> DEFINE J == [phase : {p, p2}, src : {s}, dst : {d}, left : {n}, held : {v, v2}]
           j == JobOf(p, s, d, n, v)
           x == Holding(j, p2, v2)
           y == JobOf(p2, s, d, n, v2)
<1>1. /\ j \in J
      /\ j.phase = p /\ j.src = s /\ j.dst = d /\ j.left = n /\ j.held = v
  BY DEF JobOf
<1>2. /\ y \in J /\ y.phase = p2 /\ y.src = s /\ y.dst = d
      /\ y.left = n /\ y.held = v2
  BY DEF JobOf
<1> HIDE DEF j, y
<1>3. /\ x \in J /\ x.phase = p2 /\ x.src = s /\ x.dst = d
      /\ x.left = n /\ x.held = v2
  BY <1>1 DEF Holding
<1> HIDE DEF x
<1>4. x = y
  BY <1>2, <1>3
<1> QED BY <1>4 DEF x, y, j

LEMMA JobDropped ==
  ASSUME NEW p, NEW s, NEW d, NEW n, NEW v, NEW p2, NEW n2, NEW v2
  PROVE  Dropped(JobOf(p, s, d, n, v), p2, n2, v2) = JobOf(p2, s, d, n2, v2)
<1> DEFINE J == [phase : {p, p2}, src : {s}, dst : {d}, left : {n, n2}, held : {v, v2}]
           j == JobOf(p, s, d, n, v)
           x == Dropped(j, p2, n2, v2)
           y == JobOf(p2, s, d, n2, v2)
<1>1. /\ j \in J
      /\ j.phase = p /\ j.src = s /\ j.dst = d /\ j.left = n /\ j.held = v
  BY DEF JobOf
<1>2. /\ y \in J /\ y.phase = p2 /\ y.src = s /\ y.dst = d
      /\ y.left = n2 /\ y.held = v2
  BY DEF JobOf
<1> HIDE DEF j, y
<1>3. /\ x \in J /\ x.phase = p2 /\ x.src = s /\ x.dst = d
      /\ x.left = n2 /\ x.held = v2
  BY <1>1 DEF Dropped
<1> HIDE DEF x
<1>4. x = y
  BY <1>2, <1>3
<1> QED BY <1>4 DEF x, y, j

LEMMA JobPlaced ==
  ASSUME NEW p, NEW s, NEW d, NEW n, NEW v, NEW p2, NEW s2, NEW d2, NEW n2
  PROVE  Placed(JobOf(p, s, d, n, v), p2, s2, d2, n2) = JobOf(p2, s2, d2, n2, v)
<1> DEFINE J == [phase : {p, p2}, src : {s, s2}, dst : {d, d2}, left : {n, n2}, held : {v}]
           j == JobOf(p, s, d, n, v)
           x == Placed(j, p2, s2, d2, n2)
           y == JobOf(p2, s2, d2, n2, v)
<1>1. /\ j \in J
      /\ j.phase = p /\ j.src = s /\ j.dst = d /\ j.left = n /\ j.held = v
  BY DEF JobOf
<1>2. /\ y \in J /\ y.phase = p2 /\ y.src = s2 /\ y.dst = d2
      /\ y.left = n2 /\ y.held = v
  BY DEF JobOf
<1> HIDE DEF j, y
<1>3. /\ x \in J /\ x.phase = p2 /\ x.src = s2 /\ x.dst = d2
      /\ x.left = n2 /\ x.held = v
  BY <1>1 DEF Placed
<1> HIDE DEF x
<1>4. x = y
  BY <1>2, <1>3
<1> QED BY <1>4 DEF x, y, j

LEMMA RemainderUnique ==
  ASSUME NEW m \in Nat \ {0}, NEW q \in Int, NEW r \in 0..m - 1
  PROVE  (m * q + r) % m = r
<1> DEFINE a == m * q + r
           k == q - (a \div m)
<1>1. a \in Int /\ a % m \in 0..m - 1 /\ a = m * (a \div m) + (a % m) /\ a \div m \in Int
  OBVIOUS
<1>2. m * k = (a % m) - r /\ k \in Int
  BY <1>1
<1>3. k >= 1 => m * k >= m
  <2> HIDE DEF k
  <2> QED BY <1>2
<1>4. k <= -1 => m * k <= -m
  <2> HIDE DEF k
  <2> QED BY <1>2
<1>5. k = 0
  <2> HIDE DEF k, a
  <2> QED BY <1>1, <1>2, <1>3, <1>4
<1>6. m * k = 0
  <2> HIDE DEF k
  <2> QED BY <1>5
<1> QED BY <1>1, <1>2, <1>6
LEMMA NextRemainder ==
  ASSUME NEW m \in Nat \ {0}, NEW n \in Nat
  PROVE  (n + 1) % m = IF (n % m) + 1 = m THEN 0 ELSE (n % m) + 1
<1>1. n = m * (n \div m) + (n % m) /\ n \div m \in Int /\ n % m \in 0..m - 1
  OBVIOUS
<1>2. CASE (n % m) + 1 = m
  <2>1. n + 1 = m * ((n \div m) + 1) + 0
    BY <1>1, <1>2
  <2>2. (m * ((n \div m) + 1) + 0) % m = 0
    BY <1>1, RemainderUnique
  <2> QED BY <1>2, <2>1, <2>2
<1>3. CASE (n % m) + 1 # m
  <2>1. n + 1 = m * (n \div m) + ((n % m) + 1)
    BY <1>1
  <2>2. (n % m) + 1 \in 0..m - 1
    BY <1>1, <1>3
  <2>3. (m * (n \div m) + ((n % m) + 1)) % m = (n % m) + 1
    BY <1>1, <2>2, RemainderUnique
  <2> QED BY <1>3, <2>1, <2>3
<1> QED BY <1>2, <1>3

\* Every word of a job, from where it stands, is a word of the system SRAM.
JobInRam(src, dst, len) ==
  /\ Aligned(src) /\ Aligned(dst)
  /\ \A k \in 0..Words(len) - 1 : InRam(src + 4 * k) /\ InRam(dst + 4 * k)

\* The jobs that are accepted stay in the system SRAM.
JobsInRam ==
  \A j \in Jobs : Aligned(j.src) /\ Aligned(j.dst) => JobInRam(j.src, j.dst, j.len)

\* Nobody else uses the memory while the copy engine is busy: the core stays
\* off it and the stream engine is not started.  The jobs stay in it.
MemoryIsItsOwn == CoreYields /\ StreamStarts = {FALSE} /\ JobsInRam

StreamIsSilent == stream.state = "idle" /\ ~stream.port.req

CoreKeepsAway == copy.busy => lsu = "free" /\ ~cpu.req

BusyOutsideIdle == copy.busy <=> copy.state # "idle"

WordsInRam ==
  copy.state \in {"fetch", "wait_r", "store"} => JobInRam(copy.src, copy.dst, copy.left)

\* The word a read of the engine saw stays in sram_dout until its answer.
WordIsThere ==
  \A i \in 1..2 : IsRead(granted[i]) /\ granted[i].by = "copy" => ramDout = granted[i].saw

MoveInv ==
  StreamIsSilent /\ CoreKeepsAway /\ BusyOutsideIdle /\ WordsInRam /\ WordIsThere

LEMMA WordsFacts ==
  /\ \A l \in Nat : Words(l) \in Nat \ {0}
  /\ \A l \in Nat : l <= 4 => Words(l) = 1
  /\ \A l \in Nat : l > 4 => Words(l) >= 2 /\ Words(l - 4) = Words(l) - 1
  /\ \A l, m \in Nat : l <= m => Words(l) <= Words(m)
BY DEF Words

LEMMA MultipleOfFour ==
  ASSUME NEW p \in Nat, NEW t \in Nat, p % 4 = 0
  PROVE  (t * p) % 4 = 0
<1>1. PICK q \in Nat : p = 4 * q
  <2>1. p = 4 * (p \div 4) /\ p \div 4 \in Nat
    OBVIOUS
  <2> QED BY <2>1
<1>2. t * p = 4 * (t * q) /\ t * q \in Nat
  BY <1>1
<1>3. \A m \in Nat : (4 * m) % 4 = 0
  OBVIOUS
<1> QED BY <1>2, <1>3

\* The word after an aligned word of the SRAM's page is the next address.
LEMMA RamEndsBelow ==
  ASSUME NEW a \in Addr, Aligned(a), InRam(a)
  PROVE  /\ NextAddr(a) = a + 4
         /\ RamIndex(NextAddr(a)) = Mover!Following(RamIndex(a))
<1> DEFINE top == (RamTag + 1) * RamPage
<1>1. /\ AddrMod \in Nat /\ AddrMod % 4 = 0 /\ RamPage \in Nat \ {0} /\ RamPage % 4 = 0
      /\ RamTag \in Nat /\ LocalBase \in Nat /\ top <= LocalBase /\ LocalBase < AddrMod
      /\ a \in Nat /\ a % 4 = 0
  BY MapAssumption DEF Addr, Aligned
<1>2. a < top
  <2>1. a \div RamPage = RamTag
    BY DEF InRam
  <2>2. \A p \in Nat \ {0}, x \in Nat : x < p * (x \div p) + p
    OBVIOUS
  <2>3. a < RamPage * RamTag + RamPage
    BY <1>1, <2>1, <2>2
  <2>4. top = RamPage * RamTag + RamPage
    BY <1>1
  <2> QED BY <2>3, <2>4
<1>3. top \in Nat /\ top % 4 = 0
  <2>1. RamTag + 1 \in Nat /\ (RamTag + 1) * RamPage \in Nat
    BY <1>1
  <2>2. ((RamTag + 1) * RamPage) % 4 = 0
    BY <1>1, <2>1, MultipleOfFour
  <2> QED BY <2>1, <2>2
<1> HIDE DEF top
<1>4. a + 4 <= top
  BY <1>1, <1>2, <1>3
<1>5. NextAddr(a) = a + 4
  <2>1. AddrMod \in Nat \ {0} /\ a + 4 \in 0..AddrMod - 1 /\ 0 \in Int
    BY <1>1, <1>3, <1>4
  <2>2. (AddrMod * 0 + (a + 4)) % AddrMod = a + 4
    BY <2>1, RemainderUnique
  <2>3. AddrMod * 0 + (a + 4) = a + 4
    BY <2>1
  <2> QED BY <2>2, <2>3 DEF NextAddr
<1>6. RamIndex(a + 4) = Mover!Following(RamIndex(a))
  <2>1. (a + 4) \div 4 = (a \div 4) + 1 /\ a \div 4 \in Nat
    BY <1>1
  <2>2. RamDepth \in Nat \ {0}
    BY MapAssumption
  <2> QED BY <2>1, <2>2, NextRemainder DEF RamIndex, Mover!Following
<1> QED BY <1>5, <1>6

LEMMA JobShrinks ==
  ASSUME NEW s \in Addr, NEW d \in Addr, NEW l \in 0..LenMod - 1, JobInRam(s, d, l)
  PROVE  /\ Aligned(s) /\ Aligned(d) /\ InRam(s) /\ InRam(d)
         /\ l > 4 => JobInRam(NextAddr(s), NextAddr(d), l - 4)
<1>1. /\ l \in Nat /\ s \in Nat /\ d \in Nat
  BY SystemAssumption, MapAssumption DEF Addr
<1>2. InRam(s) /\ InRam(d) /\ Aligned(s) /\ Aligned(d)
  <2>1. 0 \in 0..Words(l) - 1
    BY <1>1, WordsFacts
  <2>2. InRam(s + 4 * 0) /\ InRam(d + 4 * 0)
    BY <2>1 DEF JobInRam
  <2>3. s + 4 * 0 = s /\ d + 4 * 0 = d
    BY <1>1
  <2> QED BY <2>2, <2>3 DEF JobInRam
<1>3. ASSUME l > 4
      PROVE  JobInRam(s + 4, d + 4, l - 4)
  <2>1. Aligned(s + 4) /\ Aligned(d + 4)
    BY <1>1, <1>2 DEF Aligned
  <2>2. ASSUME NEW k \in 0..Words(l - 4) - 1
        PROVE  InRam((s + 4) + 4 * k) /\ InRam((d + 4) + 4 * k)
    <3>1. Words(l) \in Nat /\ Words(l - 4) = Words(l) - 1
      BY <1>1, <1>3, WordsFacts
    <3>2. k + 1 \in 0..Words(l) - 1
      BY <3>1
    <3>3. InRam(s + 4 * (k + 1)) /\ InRam(d + 4 * (k + 1))
      BY <3>2 DEF JobInRam
    <3>4. s + 4 * (k + 1) = (s + 4) + 4 * k /\ d + 4 * (k + 1) = (d + 4) + 4 * k
      BY <1>1, <3>1
    <3> QED BY <3>3, <3>4
  <2> QED BY <2>1, <2>2 DEF JobInRam
<1> QED BY <1>2, <1>3, RamEndsBelow

\* What an edge can do to the engine, and to the words it has still to move.
KeepsPlace == copy'.src = copy.src /\ copy'.dst = copy.dst /\ copy'.left = copy.left

Stays ==
  /\ copy'.state = copy.state /\ copy'.busy = copy.busy
  /\ copy'.buffer = copy.buffer /\ KeepsPlace
  /\ ~CopyGnt /\ (copy.state = "wait_r" => ~Arb!CopyRvalid(dmaRvalid))

Begins ==
  /\ copy.state = "idle" /\ copy'.state = "fetch" /\ copy'.busy
  /\ copy'.buffer = copy.buffer /\ ~CopyGnt
  /\ lsu = "free" /\ ~cpu.req
  /\ \E j \in Jobs :
       /\ Aligned(j.src) /\ Aligned(j.dst)
       /\ copy'.src = j.src /\ copy'.dst = j.dst /\ copy'.left = j.len

Reads ==
  /\ copy.state = "fetch" /\ copy'.state = "wait_r" /\ copy'.busy = copy.busy
  /\ copy'.buffer = copy.buffer /\ KeepsPlace
  /\ CopyGnt /\ ~copy.port.we /\ copy.port.addr = copy.src

Arrives ==
  /\ copy.state = "wait_r" /\ copy'.state = "store" /\ copy'.busy = copy.busy
  /\ copy'.buffer = ramDout /\ KeepsPlace
  /\ ~CopyGnt /\ Arb!CopyRvalid(dmaRvalid)

Writes ==
  /\ copy.state = "store" /\ copy'.busy = copy.busy /\ copy'.buffer = copy.buffer
  /\ copy'.state = IF copy.left <= 4 THEN "done" ELSE "fetch"
  /\ copy'.left = IF copy.left <= 4 THEN copy.left ELSE copy.left - 4
  /\ copy'.src = NextAddr(copy.src) /\ copy'.dst = NextAddr(copy.dst)
  /\ CopyGnt /\ copy.port.we
  /\ copy.port.addr = copy.dst /\ copy.port.data = copy.buffer

Finishes ==
  /\ copy.state = "done" /\ copy'.state = "idle" /\ ~copy'.busy
  /\ copy'.buffer = copy.buffer /\ KeepsPlace
  /\ ~CopyGnt

LEMMA CopyCases ==
  ASSUME IInv, ClockEdge
  PROVE  Stays \/ Begins \/ Reads \/ Arrives \/ Writes \/ Finishes
<1> PICK p \in Pulse :
      /\ p.start => CanStart
      /\ Copy!Tick(p.start, p.job, CopyGnt, Arb!CopyRvalid(dmaRvalid), ramDout)
  BY DEF ClockEdge
<1> DEFINE j == p.job
           gnt == CopyGnt
           rvalid == Arb!CopyRvalid(dmaRvalid)
<1>1. /\ copy \in Copy!Registers /\ copy.port \in Request
      /\ gnt \in BOOLEAN /\ rvalid \in BOOLEAN /\ p.start \in BOOLEAN /\ j \in Jobs
  BY CopyFields, GrantFacts, AnswerFacts, JobFields DEF IInv, SystemTyped
<1>2. Copy!Tick(p.start, j, gnt, rvalid, ramDout) /\ (p.start => CanStart)
  OBVIOUS
<1>3. /\ gnt => copy.port.req
      /\ Copy!AsksForCurrentWord
  BY GrantFacts DEF IInv
<1>4. gnt => \/ copy.state = "fetch" /\ ~copy.port.we /\ copy.port.addr = copy.src
             \/ /\ copy.state = "store" /\ copy.port.we
                /\ copy.port.addr = copy.dst /\ copy.port.data = copy.buffer
  BY <1>3 DEF Copy!AsksForCurrentWord
<1> HIDE DEF j, gnt, rvalid
<1> USE <1>1, SameMap DEF Copy!Registers, Copy!States, KeepsPlace
<1>5. CASE Copy!Idle(p.start)
  <2>1. Stays
    BY <1>4, <1>5 DEF Copy!Idle, Stays, gnt
  <2> QED BY <2>1
<1>6. CASE Copy!Reject(p.start, j)
  <2>1. Stays
    BY <1>4, <1>6 DEF Copy!Reject, Stays, gnt
  <2> QED BY <2>1
<1>7. CASE Copy!Accept(p.start, j)
  <2>1. Aligned(j.src) /\ Aligned(j.dst)
    BY <1>7 DEF Copy!Accept, Copy!Misaligned
  <2>2. /\ copy.state = "idle" /\ p.start
        /\ copy'.state = "fetch" /\ copy'.busy /\ copy'.buffer = copy.buffer
        /\ copy'.src = j.src /\ copy'.dst = j.dst /\ copy'.left = j.len
    BY <1>7 DEF Copy!Accept
  <2>3. ~gnt
    BY <1>4, <2>2
  <2>4. lsu = "free" /\ ~cpu.req
    BY <1>2, <2>2 DEF CanStart
  <2>5. Begins
    BY <2>1, <2>2, <2>3, <2>4 DEF Begins, gnt
  <2> QED BY <2>5
<1>8. CASE Copy!Fetch(gnt)
  <2>1. CASE gnt
    <3>1. Reads
      BY <1>4, <1>8, <2>1 DEF Copy!Fetch, Reads, gnt
    <3> QED BY <3>1
  <2>2. CASE ~gnt
    <3>1. Stays
      BY <1>8, <2>2 DEF Copy!Fetch, Stays, gnt
    <3> QED BY <3>1
  <2> QED BY <2>1, <2>2
<1>9. CASE Copy!AwaitData(rvalid, ramDout)
  <2>1. CASE rvalid
    <3>1. Arrives
      BY <1>4, <1>9, <2>1 DEF Copy!AwaitData, Arrives, gnt, rvalid
    <3> QED BY <3>1
  <2>2. CASE ~rvalid
    <3>1. Stays
      BY <1>4, <1>9, <2>2 DEF Copy!AwaitData, Stays, gnt, rvalid
    <3> QED BY <3>1
  <2> QED BY <2>1, <2>2
<1>10. CASE Copy!StoreRequest(gnt)
  <2>1. Stays
    BY <1>10 DEF Copy!StoreRequest, Stays, gnt
  <2> QED BY <2>1
<1>11. CASE Copy!StoreGranted(gnt)
  <2>1. Writes
    BY <1>4, <1>11 DEF Copy!StoreGranted, Copy!LastWord, Writes, gnt
  <2> QED BY <2>1
<1>12. CASE Copy!Finish
  <2>1. Finishes
    BY <1>4, <1>12 DEF Copy!Finish, Finishes, gnt
  <2> QED BY <2>1
<1> QED BY <1>2, <1>5, <1>6, <1>7, <1>8, <1>9, <1>10, <1>11, <1>12 DEF Copy!Tick

\* While the core is away, the memory does what the copy engine is granted.
LEMMA OnlyTheCopy ==
  ASSUME IInv, StreamIsSilent, ClockEdge, ~cpu.req
  PROVE  /\ ~CopyGnt => ram' = ram /\ ramDout' = ramDout
         /\ CopyGnt /\ InRam(copy.port.addr) =>
              /\ ramDout' = ram[RamIndex(copy.port.addr)]
              /\ granted'[1].saw = ram[RamIndex(copy.port.addr)]
              /\ ram' = IF copy.port.we
                          THEN [ram EXCEPT ![RamIndex(copy.port.addr)] = copy.port.data]
                          ELSE ram
<1>1. Mem!DmaGnt <=> DmaRequest.req
  BY MacsAreTiedOff, MapFacts DEF Mem!DmaGnt, Mem!Mac
<1>2. Mem!DmaGnt <=> CopyGnt
  BY GrantFacts DEF IInv, StreamIsSilent
<1>3. Mem!Arbitrated = IF DmaRequest.req THEN DmaRequest ELSE NoRequest
  BY MacsAreTiedOff, SameMap DEF Mem!Arbitrated
<1>4. Mem!SramTick
  BY DEF ClockEdge, Mem!Tick
<1>5. ~CopyGnt => ram' = ram /\ ramDout' = ramDout
  BY <1>1, <1>2, <1>3, <1>4, MapFacts DEF Mem!SramTick, Mem!SramEnabled
<1>6. ASSUME CopyGnt, InRam(copy.port.addr)
      PROVE  /\ ramDout' = ram[RamIndex(copy.port.addr)]
             /\ granted'[1].saw = ram[RamIndex(copy.port.addr)]
             /\ ram' = IF copy.port.we
                         THEN [ram EXCEPT ![RamIndex(copy.port.addr)] = copy.port.data]
                         ELSE ram
  <2>1. Mem!Arbitrated = copy.port /\ copy.port.req /\ DmaRequest = copy.port
    BY <1>1, <1>2, <1>3, <1>6, GrantFacts DEF IInv
  <2>2. Mem!SramEnabled /\ Mem!SramIndex = RamIndex(copy.port.addr)
    BY <1>6, <2>1, SameMap DEF Mem!SramEnabled, Mem!SramIndex
  <2>3. granted'[1].saw = ram[RamIndex(copy.port.addr)]
    <3>1. Mem!DmaGnt
      BY <1>2, <1>6
    <3>2. granted' =
            <<[by |-> IF Arb!SelectStream THEN "stream" ELSE "copy", port |-> DmaRequest,
               saw |-> IF InRam(DmaRequest.addr) THEN ram[RamIndex(DmaRequest.addr)]
                                                 ELSE AnyData], granted[1]>>
      BY <3>1 DEF ClockEdge, GhostTick
    <3> QED BY <1>6, <2>1, <3>2
  <2> QED BY <1>4, <2>1, <2>2, <2>3 DEF Mem!SramTick
<1> QED BY <1>5, <1>6

LEMMA StreamStaysSilent ==
  ASSUME MemoryIsItsOwn, IInv, MoveInv, ClockEdge
  PROVE  StreamIsSilent'
<1>1. PICK cfg \in Configs, res \in Results :
        Stream!Tick(FALSE, FALSE, cfg, StreamGnt, Arb!StreamRvalid(dmaRvalid),
                    ramDout, res)
  <2>1. \A b \in StreamStarts : b = FALSE
    BY DEF MemoryIsItsOwn
  <2> QED BY <2>1 DEF ClockEdge
<1>2. stream.state = "idle" /\ stream \in Stream!Registers
  BY DEF MoveInv, StreamIsSilent, IInv, SystemTyped
<1>3. stream' = Stream!Quiet
  BY <1>1, <1>2 DEF Stream!Tick, Stream!Idle, Stream!Start, Stream!WeightsFilled,
     Stream!FillWeights, Stream!WeightWait, Stream!ActivationsFilled,
     Stream!FillActivations, Stream!ActivationWait, Stream!RunArray,
     Stream!DrainResult, Stream!WriteResult, Stream!ResultWritten
<1>4. Stream!Quiet.state = stream.state /\ ~Stream!Quiet.port.req
  BY <1>2, SameMap DEF Stream!Quiet, Stream!Registers, Request
<1> QED BY <1>2, <1>3, <1>4 DEF StreamIsSilent

LEMMA CoreStaysAway ==
  ASSUME MemoryIsItsOwn, IInv, MoveInv, ClockEdge
  PROVE  CoreKeepsAway' /\ BusyOutsideIdle'
<1>1. Stays \/ Begins \/ Reads \/ Arrives \/ Writes \/ Finishes
  BY CopyCases
<1>2. copy.busy <=> copy.state # "idle"
  BY DEF MoveInv, BusyOutsideIdle
<1>3. BusyOutsideIdle'
  BY <1>1, <1>2 DEF Stays, Begins, Reads, Arrives, Writes, Finishes, BusyOutsideIdle
<1>4. ASSUME copy'.busy PROVE lsu' = "free" /\ ~cpu'.req
  <2>1. lsu = "free"
    BY <1>1, <1>2, <1>4 DEF Stays, Begins, Reads, Arrives, Writes, Finishes,
       MoveInv, CoreKeepsAway
  <2>2. ~CoreRequest
    BY <1>4 DEF CoreRequest, MemoryIsItsOwn
  <2>3. CoreIdle
    BY <2>1, <2>2 DEF ClockEdge, CoreTick, CoreSecondHalf, CoreAnswered
  <2> QED BY <2>3, MapFacts DEF CoreIdle
<1> QED BY <1>3, <1>4 DEF CoreKeepsAway

LEMMA WordsStayInRam ==
  ASSUME MemoryIsItsOwn, IInv, MoveInv, ClockEdge
  PROVE  WordsInRam'
<1>1. Stays \/ Begins \/ Reads \/ Arrives \/ Writes \/ Finishes
  BY CopyCases
<1>2. WordsInRam
  BY DEF MoveInv
<1>3. CASE Stays
  BY <1>2, <1>3 DEF Stays, KeepsPlace, WordsInRam
<1>4. CASE Begins
  BY <1>4 DEF Begins, WordsInRam, MemoryIsItsOwn, JobsInRam
<1>5. CASE Reads
  BY <1>2, <1>5 DEF Reads, KeepsPlace, WordsInRam
<1>6. CASE Arrives
  BY <1>2, <1>6 DEF Arrives, KeepsPlace, WordsInRam
<1>7. CASE Writes
  <2> SUFFICES ASSUME copy'.state = "fetch"
               PROVE  JobInRam(copy'.src, copy'.dst, copy'.left)
    BY <1>7 DEF Writes, WordsInRam
  <2>1. /\ copy.src \in Addr /\ copy.dst \in Addr /\ copy.left \in 0..LenMod - 1
    BY CopyFields DEF IInv, SystemTyped
  <2>2. /\ copy.left > 4 /\ copy'.left = copy.left - 4
        /\ copy'.src = NextAddr(copy.src) /\ copy'.dst = NextAddr(copy.dst)
    BY <1>7, <2>1, SystemAssumption DEF Writes
  <2>3. JobInRam(copy.src, copy.dst, copy.left)
    BY <1>2, <1>7 DEF Writes, WordsInRam
  <2> QED BY <2>1, <2>2, <2>3, JobShrinks
<1>8. CASE Finishes
  BY <1>8 DEF Finishes, WordsInRam
<1> QED BY <1>1, <1>3, <1>4, <1>5, <1>6, <1>7, <1>8

\* The places the engine works on, while it works.
LEMMA PlacesInRam ==
  ASSUME IInv, MoveInv, copy.state \in {"fetch", "wait_r", "store"}
  PROVE  /\ Aligned(copy.src) /\ InRam(copy.src)
         /\ Aligned(copy.dst) /\ InRam(copy.dst)
         /\ copy.src \in Addr /\ copy.dst \in Addr
<1>1. copy.src \in Addr /\ copy.dst \in Addr /\ copy.left \in 0..LenMod - 1
  BY CopyFields DEF IInv, SystemTyped
<1>2. JobInRam(copy.src, copy.dst, copy.left)
  BY DEF MoveInv, WordsInRam
<1> QED BY <1>1, <1>2, JobShrinks

LEMMA WordStaysThere ==
  ASSUME MemoryIsItsOwn, IInv, MoveInv, ClockEdge
  PROVE  WordIsThere'
<1>1. /\ granted'[2] = granted[1]
      /\ granted'[1].by = "copy" <=> CopyGnt
      /\ CopyGnt => granted'[1].port = copy.port
  BY HistoryFacts
<1>2. CopyReads <=> copy.state = "wait_r"
  BY DEF IInv, Copy!WaitsForItsRead
<1>3. CopyGnt => copy.port.req
  BY GrantFacts DEF IInv
<1>4. StreamIsSilent
  BY DEF MoveInv
<1>5. copy.state # "idle" => ~cpu.req
  BY DEF MoveInv, BusyOutsideIdle, CoreKeepsAway
<1>6. IsRead(granted'[1]) /\ granted'[1].by = "copy" => ramDout' = granted'[1].saw
  <2> SUFFICES ASSUME IsRead(granted'[1]), granted'[1].by = "copy"
               PROVE  ramDout' = granted'[1].saw
    OBVIOUS
  <2>1. CopyGnt /\ copy.port.req /\ ~copy.port.we
    BY <1>1, <1>3 DEF IsRead
  <2>2. copy.state = "fetch" /\ copy.port.addr = copy.src
    BY <2>1 DEF IInv, Copy!AsksForCurrentWord
  <2>3. InRam(copy.port.addr) /\ ~cpu.req
    BY <1>5, <2>2, PlacesInRam
  <2> QED BY <1>4, <2>1, <2>3, OnlyTheCopy
<1>7. IsRead(granted'[2]) /\ granted'[2].by = "copy" => ramDout' = granted'[2].saw
  <2> SUFFICES ASSUME IsRead(granted[1]), granted[1].by = "copy"
               PROVE  ramDout' = granted[1].saw
    BY <1>1
  <2>1. copy.state = "wait_r"
    BY <1>2 DEF CopyReads
  <2>2. ~CopyGnt
    BY <1>3, <2>1 DEF IInv, Copy!AsksForCurrentWord
  <2>3. ramDout' = ramDout
    BY <1>4, <1>5, <2>1, <2>2, OnlyTheCopy
  <2>4. ramDout = granted[1].saw
    BY DEF MoveInv, WordIsThere
  <2> QED BY <2>3, <2>4
<1>8. \A i \in 1..2 : i = 1 \/ i = 2
  OBVIOUS
<1> QED BY <1>6, <1>7, <1>8 DEF WordIsThere, IsRead

LEMMA ClockEdgeKeepsMove ==
  ASSUME MemoryIsItsOwn, IInv, MoveInv, ClockEdge
  PROVE  MoveInv'
BY StreamStaysSilent, CoreStaysAway, WordsStayInRam, WordStaysThere DEF MoveInv

\* The same after a reset and in the first state.
LEMMA RestKeepsMove ==
  ASSUME stream.state = "idle", ~stream.port.req, copy.state = "idle", ~copy.busy,
         granted = <<NoGrant, NoGrant>>
  PROVE  MoveInv
<1>1. WordIsThere
  <2>1. \A i \in 1..2 : granted[i] = NoGrant
    OBVIOUS
  <2> QED BY <2>1, NoGrantFacts DEF WordIsThere
<1> QED BY <1>1 DEF MoveInv, StreamIsSilent, CoreKeepsAway, BusyOutsideIdle, WordsInRam

LEMMA InitMove == Init => MoveInv
BY RestKeepsMove, MapFacts, SameMap DEF Init, Copy!Init0, Stream!Init0

LEMMA ResetMove ==
  ASSUME IInv, ResetEdge
  PROVE  MoveInv'
<1>1. copy'.state = "idle" /\ ~copy'.busy
  BY DEF IInv, SystemTyped, Copy!Registers, ResetEdge, Copy!Reset
<1>2. stream'.state = "idle" /\ ~stream'.port.req
  BY MapFacts, SameMap DEF IInv, SystemTyped, Stream!Registers, ResetEdge, Stream!Reset
<1>3. WordIsThere'
  <2>1. granted'[1] = NoGrant /\ granted'[2] = NoGrant
    BY DEF ResetEdge
  <2>2. \A i \in 1..2 : granted'[i] = NoGrant
    BY <2>1
  <2> QED BY <2>2, NoGrantFacts DEF WordIsThere, IsRead
<1> QED BY <1>1, <1>2, <1>3
    DEF MoveInv, StreamIsSilent, CoreKeepsAway, BusyOutsideIdle, WordsInRam

LEMMA MoveInvariant ==
  ASSUME MemoryIsItsOwn
  PROVE  Spec => [](IInv /\ MoveInv)
<1>1. Init => IInv /\ MoveInv
  BY InitRests, RestingInvariant, InitMove
<1>2. IInv /\ MoveInv /\ [Next]_vars => (IInv /\ MoveInv)'
  <2> SUFFICES ASSUME IInv, MoveInv, [Next]_vars PROVE MoveInv'
    BY NextInvariant
  <2>1. CASE UNCHANGED vars
    BY <2>1 DEF vars, engineVars, arbVars, memVars, coreVars, ghostVars,
       MoveInv, StreamIsSilent, CoreKeepsAway, BusyOutsideIdle, WordsInRam,
       WordIsThere, IsRead
  <2> QED BY <2>1, ClockEdgeKeepsMove, ResetMove DEF Next
<1> QED BY <1>1, <1>2, PTL DEF Spec

-----------------------------------------------------------------------------
(* Each edge is a step of the mover, or none.                              *)

LEMMA Phases5 ==
  /\ PhaseOf["idle"] = "idle" /\ PhaseOf["fetch"] = "read"
  /\ PhaseOf["wait_r"] = "write" /\ PhaseOf["store"] = "write"
  /\ PhaseOf["done"] = "over"
BY DEF PhaseOf

\* The job of a state with given registers.
LEMMA JobFieldsOf ==
  /\ CopyJob.phase = PhaseOf[copy.state]
  /\ CopyJob.src = RamIndex(copy.src) /\ CopyJob.dst = RamIndex(copy.dst)
  /\ CopyJob.left = IF copy.state \in {"idle", "done"} THEN 0 ELSE Words(copy.left)
  /\ CopyJob.held = IF copy.state = "wait_r" THEN WordOnItsWay ELSE copy.buffer
BY DEF CopyJob

LEMMA JobAfter ==
  CopyJob' =
    [phase |-> PhaseOf[copy'.state],
     src |-> RamIndex(copy'.src), dst |-> RamIndex(copy'.dst),
     left |-> IF copy'.state \in {"idle", "done"} THEN 0 ELSE Words(copy'.left),
     held |-> IF copy'.state = "wait_r" THEN WordOnItsWay' ELSE copy'.buffer]
BY DEF CopyJob, RamIndex, Words

LEMMA RamIsMemory == Mover!Index = RamWord /\ Mover!Memory = [RamWord -> Data]
BY DEF Mover!Index, RamWord, Mover!Memory

\* The core does not disturb the memory of a job that is under way or begins.
LEMMA BusyMemory ==
  ASSUME IInv, MoveInv, ClockEdge, ~CopyGnt,
         copy.state # "idle" \/ ~cpu.req
  PROVE  ram' = ram
<1>1. ~cpu.req
  BY DEF MoveInv, BusyOutsideIdle, CoreKeepsAway
<1> QED BY <1>1, OnlyTheCopy DEF MoveInv

LEMMA StaysMaps ==
  ASSUME MemoryIsItsOwn, IInv, MoveInv, ClockEdge, Stays
  PROVE  Mover!Elsewhere \/ UNCHANGED <<ram, CopyJob>>
<1>1. copy.state = "wait_r" => WordOnItsWay' = WordOnItsWay
  <2> SUFFICES ASSUME copy.state = "wait_r" PROVE WordOnItsWay' = WordOnItsWay
    OBVIOUS
  <2>1. CopyReads
    BY DEF IInv, Copy!WaitsForItsRead
  <2>2. ~(IsRead(granted[2]) /\ granted[2].by = "copy")
    BY AnswerFacts DEF Stays
  <2>3. \A i \in 1..2 : i = 1 \/ i = 2
    OBVIOUS
  <2>4. IsRead(granted[1]) /\ granted[1].by = "copy"
    BY <2>1, <2>2, <2>3 DEF CopyReads
  <2>5. granted'[1].by # "copy" /\ granted'[2] = granted[1]
    BY HistoryFacts DEF Stays
  <2> QED BY <2>4, <2>5 DEF WordOnItsWay, IsRead
<1>2. CopyJob' = CopyJob
  BY <1>1, JobAfter DEF Stays, KeepsPlace, CopyJob
<1>3. CASE copy.state = "idle"
  <2>1. CopyJob.phase = "idle"
    BY <1>3, Phases5, JobFieldsOf
  <2>2. ram' \in Mover!Memory
    BY MemoryTyped, RamIsMemory DEF IInv
  <2> QED BY <1>2, <2>1, <2>2 DEF Mover!Elsewhere
<1>4. CASE copy.state # "idle"
  BY <1>2, <1>4, BusyMemory DEF Stays
<1> QED BY <1>3, <1>4

LEMMA BeginsMaps ==
  ASSUME MemoryIsItsOwn, IInv, MoveInv, ClockEdge, Begins
  PROVE  Mover!Begin
<1>1. PICK j \in Jobs :
        copy'.src = j.src /\ copy'.dst = j.dst /\ copy'.left = j.len
  BY DEF Begins
<1>2. j.src \in Addr /\ j.dst \in Addr /\ j.len \in 0..LenMod - 1
  BY SystemAssumption
<1> DEFINE s == RamIndex(j.src)
           d == RamIndex(j.dst)
           n == Words(j.len)
           v == copy.buffer
<1>3. s \in RamWord /\ d \in RamWord
  BY <1>2, MapFacts
<1>4. n \in 1..Words(LenMod - 1)
  <2>1. j.len \in Nat /\ LenMod - 1 \in Nat /\ j.len <= LenMod - 1
    BY <1>2, SystemAssumption
  <2> QED BY <2>1, WordsFacts
<1>5. CopyJob = [phase |-> "idle", src |-> RamIndex(copy.src), dst |-> RamIndex(copy.dst),
                 left |-> 0, held |-> v]
  BY Phases5 DEF CopyJob, Begins
<1>6. CopyJob' = [phase |-> "read", src |-> s, dst |-> d, left |-> n, held |-> v]
  BY <1>1, JobAfter, Phases5 DEF Begins
<1> HIDE DEF s, d, n, v
<1>7. CopyJob' = [CopyJob EXCEPT !.phase = "read", !.src = s, !.dst = d, !.left = n]
  <2>1. CopyJob' = Placed(CopyJob, "read", s, d, n)
    BY <1>5, <1>6, JobPlaced DEF JobOf
  <2> QED BY <2>1, Zenon DEF Placed
<1>8. ram' = ram
  BY BusyMemory DEF Begins
<1>9. CopyJob.phase = "idle"
  BY <1>5
<1> QED BY <1>3, <1>4, <1>7, <1>8, <1>9, RamIsMemory DEF Mover!Begin

LEMMA ReadsMaps ==
  ASSUME MemoryIsItsOwn, IInv, MoveInv, ClockEdge, Reads
  PROVE  Mover!ReadWord
<1>1. ~cpu.req /\ StreamIsSilent /\ InRam(copy.port.addr)
  BY PlacesInRam DEF Reads, MoveInv, BusyOutsideIdle, CoreKeepsAway
<1>2. /\ ram' = ram
      /\ granted'[1].saw = ram[RamIndex(copy.src)]
  BY <1>1, OnlyTheCopy DEF Reads
<1>3. WordOnItsWay' = granted'[1].saw
  <2>1. IsRead(granted'[1]) /\ granted'[1].by = "copy"
    BY HistoryFacts, GrantFacts DEF Reads, IInv
  <2> QED BY <2>1 DEF WordOnItsWay, IsRead
<1> DEFINE s == RamIndex(copy.src)
           d == RamIndex(copy.dst)
           n == Words(copy.left)
<1>4. CopyJob = [phase |-> "read", src |-> s, dst |-> d, left |-> n, held |-> copy.buffer]
  BY Phases5 DEF CopyJob, Reads
<1>5. CopyJob' = [phase |-> "write", src |-> s, dst |-> d, left |-> n, held |-> ram[s]]
  BY <1>2, <1>3, JobAfter, Phases5 DEF Reads, KeepsPlace
<1>6. CopyJob.src = s /\ CopyJob.phase = "read"
  BY <1>4
<1> HIDE DEF s, d, n
<1>7. CopyJob' = [CopyJob EXCEPT !.phase = "write", !.held = ram[s]]
  <2>1. CopyJob' = Holding(CopyJob, "write", ram[s])
    BY <1>4, <1>5, JobHolding DEF JobOf
  <2> QED BY <2>1, Zenon DEF Holding
<1> QED BY <1>2, <1>6, <1>7 DEF Mover!ReadWord

LEMMA ArrivesMaps ==
  ASSUME MemoryIsItsOwn, IInv, MoveInv, ClockEdge, Arrives
  PROVE  UNCHANGED <<ram, CopyJob>>
<1>1. ram' = ram
  BY BusyMemory DEF Arrives
<1>2. IsRead(granted[2]) /\ granted[2].by = "copy"
  BY AnswerFacts DEF Arrives
<1>3. ~(IsRead(granted[1]) /\ granted[1].by = "copy")
  BY <1>2 DEF IInv, GrantsAreOwned
<1>4. WordOnItsWay = ramDout
  BY <1>2, <1>3 DEF WordOnItsWay, MoveInv, WordIsThere
<1>5. CopyJob' = CopyJob
  BY <1>4, JobAfter, Phases5 DEF Arrives, KeepsPlace, CopyJob
<1> QED BY <1>1, <1>5

LEMMA WritesMaps ==
  ASSUME MemoryIsItsOwn, IInv, MoveInv, ClockEdge, Writes
  PROVE  Mover!WriteWord
<1>1. ~cpu.req /\ StreamIsSilent /\ InRam(copy.port.addr)
  BY PlacesInRam DEF Writes, MoveInv, BusyOutsideIdle, CoreKeepsAway
<1> DEFINE s == RamIndex(copy.src)
           d == RamIndex(copy.dst)
           n == Words(copy.left)
           v == copy.buffer
           s2 == Mover!Following(s)
           d2 == Mover!Following(d)
           over == copy.left <= 4
<1>2. ram' = [ram EXCEPT ![d] = v]
  BY <1>1, OnlyTheCopy DEF Writes
<1>3. RamIndex(copy'.src) = s2 /\ RamIndex(copy'.dst) = d2
  <2>1. /\ Aligned(copy.src) /\ InRam(copy.src) /\ copy.src \in Addr
        /\ Aligned(copy.dst) /\ InRam(copy.dst) /\ copy.dst \in Addr
    BY PlacesInRam DEF Writes
  <2> QED BY <2>1, RamEndsBelow DEF Writes
<1>4. copy.left \in Nat
  <2>1. copy.left \in 0..LenMod - 1
    BY CopyFields DEF IInv, SystemTyped
  <2> QED BY <2>1, SystemAssumption
<1>5. /\ n = 1 <=> over
      /\ n - 1 = IF over THEN 0 ELSE Words(copy.left - 4)
  BY <1>4, WordsFacts
<1>6. CopyJob = [phase |-> "write", src |-> s, dst |-> d, left |-> n, held |-> v]
  BY Phases5 DEF CopyJob, Writes
<1>7. CopyJob' = [phase |-> IF n = 1 THEN "over" ELSE "read", src |-> s2, dst |-> d2,
                  left |-> n - 1, held |-> v]
  <2>1. CASE over
    <3>1. copy'.state = "done" /\ copy'.buffer = copy.buffer
      BY <2>1 DEF Writes
    <3> HIDE DEF s2, d2
    <3> QED BY <1>3, <1>5, <2>1, <3>1, JobAfter, Phases5
  <2>2. CASE ~over
    <3>1. copy'.state = "fetch" /\ copy'.buffer = copy.buffer /\ copy'.left = copy.left - 4
      BY <2>2 DEF Writes
    <3> HIDE DEF s2, d2
    <3> QED BY <1>3, <1>5, <2>2, <3>1, JobAfter, Phases5
  <2> QED BY <2>1, <2>2
<1>8. /\ CopyJob.phase = "write" /\ CopyJob.src = s /\ CopyJob.dst = d
      /\ CopyJob.left = n /\ CopyJob.held = v
  BY <1>6
<1> DEFINE p2 == IF n = 1 THEN "over" ELSE "read"
           n2 == n - 1
<1>9. CopyJob' = [CopyJob EXCEPT !.phase = p2, !.src = s2, !.dst = d2, !.left = n2]
  <2>1. CopyJob' = [phase |-> p2, src |-> s2, dst |-> d2, left |-> n2, held |-> v]
    BY <1>7
  <2> HIDE DEF s, d, n, v, s2, d2, p2, n2
  <2>2. CopyJob' = Placed(CopyJob, p2, s2, d2, n2)
    BY <1>6, <2>1, JobPlaced DEF JobOf
  <2> QED BY <2>2, Zenon DEF Placed
<1> HIDE DEF s, d, n, v
<1> QED BY <1>2, <1>8, <1>9 DEF Mover!WriteWord

LEMMA FinishesMaps ==
  ASSUME MemoryIsItsOwn, IInv, MoveInv, ClockEdge, Finishes
  PROVE  Mover!End
<1>1. ram' = ram
  BY BusyMemory DEF Finishes
<1> DEFINE s == RamIndex(copy.src)
           d == RamIndex(copy.dst)
           v == copy.buffer
<1>2. CopyJob = [phase |-> "over", src |-> s, dst |-> d, left |-> 0, held |-> v]
  BY Phases5 DEF CopyJob, Finishes
<1>3. CopyJob' = [phase |-> "idle", src |-> s, dst |-> d, left |-> 0, held |-> v]
  BY JobAfter, Phases5 DEF Finishes, KeepsPlace
<1>4. CopyJob.phase = "over"
  BY <1>2
<1> HIDE DEF s, d, v
<1>5. CopyJob' = [CopyJob EXCEPT !.phase = "idle"]
  <2>1. CopyJob' = Phased(CopyJob, "idle")
    BY <1>2, <1>3, JobPhased DEF JobOf
  <2> QED BY <2>1, Zenon DEF Phased
<1> QED BY <1>1, <1>4, <1>5 DEF Mover!End

LEMMA ResetMaps ==
  ASSUME IInv, ResetEdge
  PROVE  Mover!GiveUp \/ UNCHANGED <<ram, CopyJob>>
<1>1. ram' = ram
  BY DEF ResetEdge, Mem!Reset
<1>2. /\ copy'.state = "idle" /\ copy'.buffer = copy.buffer /\ KeepsPlace
  BY DEF IInv, SystemTyped, Copy!Registers, ResetEdge, Copy!Reset, KeepsPlace
<1> DEFINE s == RamIndex(copy.src)
           d == RamIndex(copy.dst)
           v == copy.buffer
           ph == PhaseOf[copy.state]
           n == IF copy.state \in {"idle", "done"} THEN 0 ELSE Words(copy.left)
           h == IF copy.state = "wait_r" THEN WordOnItsWay ELSE copy.buffer
<1>3. CopyJob = [phase |-> ph, src |-> s, dst |-> d, left |-> n, held |-> h]
  BY DEF CopyJob
<1>4. CopyJob' = [phase |-> "idle", src |-> s, dst |-> d, left |-> 0, held |-> v]
  BY <1>2, JobAfter, Phases5 DEF KeepsPlace
<1>5. CASE copy.state = "idle"
  BY <1>1, <1>3, <1>4, <1>5, Phases5
<1>6. CASE copy.state # "idle"
  <2>1. ph # "idle"
    <3>1. copy.state \in Copy!States
      BY CopyFields DEF IInv, SystemTyped
    <3> QED BY <1>6, <3>1, Phases5 DEF Copy!States
  <2>2. v \in Data
    BY CopyFields DEF IInv, SystemTyped
  <2>3. CopyJob.phase = ph
    BY <1>3
  <2> HIDE DEF s, d, v, ph, n, h
  <2>4. CopyJob' = [CopyJob EXCEPT !.phase = "idle", !.left = 0, !.held = v]
    <3>1. CopyJob' = Dropped(CopyJob, "idle", 0, v)
      BY <1>3, <1>4, JobDropped DEF JobOf
    <3> QED BY <3>1, Zenon DEF Dropped
  <2> QED BY <1>1, <2>1, <2>2, <2>3, <2>4 DEF Mover!GiveUp
<1> QED BY <1>5, <1>6

LEMMA MoverInits == Init => Mover!MoverInit
<1> SUFFICES ASSUME Init PROVE Mover!MoverInit
  OBVIOUS
<1>1. ram \in Mover!Memory
  BY InitRests, RamIsMemory DEF Resting
<1>2. /\ copy.state = "idle" /\ copy.src \in Addr /\ copy.dst \in Addr /\ copy.buffer \in Data
  BY InitRests, CopyFields DEF Resting
<1>3. CopyJob = [phase |-> "idle", src |-> RamIndex(copy.src), dst |-> RamIndex(copy.dst),
                 left |-> 0, held |-> copy.buffer]
  BY <1>2, Phases5 DEF CopyJob
<1>4. RamIndex(copy.src) \in RamWord /\ RamIndex(copy.dst) \in RamWord
  BY <1>2, MapFacts
<1>5. 0 \in 0..Words(LenMod - 1)
  BY SystemAssumption, WordsFacts
<1>6. CopyJob \in Mover!Job
  BY <1>2, <1>3, <1>4, <1>5, RamIsMemory DEF Mover!Job, Mover!Phases
<1> QED BY <1>1, <1>3, <1>6 DEF Mover!MoverInit

LEMMA MoverSteps ==
  ASSUME MemoryIsItsOwn
  PROVE  IInv /\ MoveInv /\ [Next]_vars => [Mover!MoverNext]_(Mover!moverVars)
<1> SUFFICES ASSUME IInv, MoveInv, [Next]_vars
             PROVE  [Mover!MoverNext]_(Mover!moverVars)
  OBVIOUS
<1>1. CASE ClockEdge
  <2>1. Stays \/ Begins \/ Reads \/ Arrives \/ Writes \/ Finishes
    BY <1>1, CopyCases
  <2> QED BY <1>1, <2>1, StaysMaps, BeginsMaps, ReadsMaps, ArrivesMaps, WritesMaps,
             FinishesMaps DEF Mover!MoverNext, Mover!moverVars
<1>2. CASE ResetEdge
  BY <1>2, ResetMaps DEF Mover!MoverNext, Mover!moverVars
<1>3. CASE UNCHANGED vars
  <2>1. copy' = copy /\ granted' = granted /\ ram' = ram
    BY <1>3 DEF vars, engineVars, memVars, ghostVars
  <2>2. CopyJob' = CopyJob
    BY <2>1 DEF CopyJob, WordOnItsWay, IsRead
  <2> QED BY <2>1, <2>2 DEF Mover!moverVars
<1> QED BY <1>1, <1>2, <1>3 DEF Next

\* Left alone with the system SRAM, and given jobs that stay in it, the copy
\* engine with its arbiter and its memory moves words as WordCopy.tla says
\* (dma_master.v, dma_arbiter.v, mem_subsystem.v): each is read and then
\* written, in order, and nothing else changes.
THEOREM CopyEngineMovesWords ==
  ASSUME MemoryIsItsOwn
  PROVE  Spec => CopyMovesWords
BY MoveInvariant, MoverInits, MoverSteps, PTL DEF Spec, CopyMovesWords, Mover!MoverSpec

-----------------------------------------------------------------------------
(* The block.  A history of the system remembers what CopiedBlock.tla      *)
(* remembers of the mover: the memory in which the last job was begun, and *)
(* that job in words.  It only looks on: the clause that moves it can be   *)
(* met in every step.                                                      *)

VARIABLES before, request

Engine == INSTANCE DmaMaster_proofs WITH
            waiting <- CopyReads, granted <- granted[1].by = "copy",
            Depth <- RamDepth, MaxWords <- Words(LenMod - 1), Value <- Data,
            memory <- ram, job <- CopyJob

JobBegins == CopyJob.phase = "idle" /\ CopyJob'.phase = "read"

HistoryStep ==
  IF JobBegins
    THEN /\ before' = ram
         /\ request' = [src |-> CopyJob'.src, dst |-> CopyJob'.dst,
                        words |-> CopyJob'.left]
    ELSE UNCHANGED <<before, request>>

SpecWithHistory ==
  /\ Spec
  /\ before = ram /\ request = [src |-> 0, dst |-> 0, words |-> 0]
  /\ [][HistoryStep]_<<vars, before, request>>

\* The instance speaks of the mover of the system.
LEMMA SameMover ==
  /\ Engine!MoverInit <=> Mover!MoverInit
  /\ Engine!Elsewhere <=> Mover!Elsewhere
  /\ Engine!Begin <=> Mover!Begin
  /\ Engine!ReadWord <=> Mover!ReadWord
  /\ Engine!WriteWord <=> Mover!WriteWord
  /\ Engine!End <=> Mover!End
  /\ Engine!GiveUp <=> Mover!GiveUp
BY DEF Engine!MoverInit, Mover!MoverInit, Engine!Memory, Mover!Memory, Engine!Index,
       Mover!Index, Engine!Job, Mover!Job, Engine!Phases, Mover!Phases,
       Engine!Elsewhere, Mover!Elsewhere, Engine!Begin, Mover!Begin,
       Engine!ReadWord, Mover!ReadWord, Engine!WriteWord, Mover!WriteWord,
       Engine!Following, Mover!Following, Engine!End, Mover!End,
       Engine!GiveUp, Mover!GiveUp

\* A job begins when the engine leaves its idle state for the first fetch.
LEMMA JobBeginsFacts ==
  /\ copy.state = "idle" /\ copy'.state = "fetch" => JobBegins
  /\ copy.state # "idle" /\ copy.state \in Copy!States => ~JobBegins
  /\ copy'.state # "fetch" /\ copy'.state \in Copy!States => ~JobBegins
<1>1. /\ CopyJob.phase = PhaseOf[copy.state]
      /\ CopyJob'.phase = PhaseOf[copy'.state]
  BY JobFieldsOf, JobAfter
<1>2. /\ \A x \in Copy!States : x # "idle" => PhaseOf[x] # "idle"
      /\ \A x \in Copy!States : x # "fetch" => PhaseOf[x] # "read"
  BY Phases5 DEF Copy!States
<1> QED BY <1>1, <1>2, Phases5 DEF JobBegins

LEMMA UnchangedJob ==
  ASSUME UNCHANGED vars
  PROVE  ram' = ram /\ CopyJob' = CopyJob /\ ~JobBegins
<1>1. copy' = copy /\ granted' = granted /\ ram' = ram
  BY DEF vars, engineVars, memVars, ghostVars
<1>2. CopyJob' = CopyJob
  BY <1>1 DEF CopyJob, WordOnItsWay, IsRead
<1> QED BY <1>1, <1>2 DEF JobBegins

\* The history of the system is that of the mover.
LEMMA HistorySteps ==
  ASSUME MemoryIsItsOwn
  PROVE  /\ IInv /\ IInv' /\ MoveInv
         /\ [Next]_vars /\ [HistoryStep]_<<vars, before, request>>
         => [Engine!NextH]_<<Engine!moverVars, Engine!history>>
<1> SUFFICES ASSUME IInv, IInv', MoveInv, [Next]_vars,
                    [HistoryStep]_<<vars, before, request>>
             PROVE  [Engine!NextH]_<<Engine!moverVars, Engine!history>>
  OBVIOUS
<1> DEFINE still == UNCHANGED <<before, request>>
<1>0. copy.state \in Copy!States /\ copy'.state \in Copy!States
  BY CopyFields DEF IInv, SystemTyped, Copy!Registers
<1>1. CASE UNCHANGED vars
  <2>1. still
    BY <1>1, UnchangedJob DEF HistoryStep
  <2> QED BY <1>1, <2>1, UnchangedJob DEF Engine!moverVars, Engine!history
<1>2. ASSUME Next, HistoryStep
      PROVE  [Engine!NextH]_<<Engine!moverVars, Engine!history>>
  <2>1. CASE ClockEdge /\ Begins
    <3>1. JobBegins /\ Mover!Begin
      BY <2>1, BeginsMaps, JobBeginsFacts DEF Begins
    <3> QED BY <1>2, <3>1, SameMover DEF HistoryStep, Engine!BeginH, Engine!NextH
  <2>2. CASE ClockEdge /\ (Stays \/ Reads \/ Arrives \/ Writes \/ Finishes)
    <3>1. ~JobBegins
      BY <1>0, <2>2, JobBeginsFacts DEF Stays, Reads, Arrives, Writes, Finishes
    <3>2. \/ Mover!Elsewhere \/ Mover!ReadWord \/ Mover!WriteWord \/ Mover!End
          \/ UNCHANGED <<ram, CopyJob>>
      BY <2>2, StaysMaps, ReadsMaps, ArrivesMaps, WritesMaps, FinishesMaps
    <3>3. still
      BY <1>2, <3>1 DEF HistoryStep
    <3> QED BY <3>2, <3>3, SameMover
        DEF Engine!OtherH, Engine!NextH, Engine!moverVars, Engine!history
  <2>3. CASE ResetEdge
    <3>1. ~JobBegins
      <4>1. copy'.state = "idle"
        BY <2>3 DEF IInv, SystemTyped, Copy!Registers, ResetEdge, Copy!Reset
      <4> QED BY <1>0, <4>1, JobBeginsFacts
    <3>2. still
      BY <1>2, <3>1 DEF HistoryStep
    <3>3. Mover!GiveUp \/ UNCHANGED <<ram, CopyJob>>
      BY <2>3, ResetMaps
    <3> QED BY <3>2, <3>3, SameMover
        DEF Engine!OtherH, Engine!NextH, Engine!moverVars, Engine!history
  <2> QED BY <1>2, <2>1, <2>2, <2>3, CopyCases DEF Next
<1>3. Next \/ UNCHANGED vars
  OBVIOUS
<1>4. HistoryStep \/ UNCHANGED vars
  OBVIOUS
<1> QED BY <1>1, <1>2, <1>3, <1>4

LEMMA HistoryInits ==
  SpecWithHistory => Engine!InitH
<1>1. Init /\ before = ram /\ request = [src |-> 0, dst |-> 0, words |-> 0]
        => Engine!InitH
  BY MoverInits, SameMover DEF Engine!InitH, Engine!AtRest
<1> QED BY <1>1 DEF SpecWithHistory, Spec

\* The constants of the mover are what its assumptions say.
LEMMA MoverAssumptions ==
  /\ Engine!MapAssumption /\ Engine!JobAssumption /\ Engine!CopyAssumption
<1>1. Words(LenMod - 1) \in Nat \ {0}
  BY SystemAssumption, WordsFacts
<1>2. RamDepth \in Nat \ {0} /\ Data # {}
  BY MapAssumption
<1>3. Engine!CopyAssumption
  BY <1>1, <1>2 DEF Engine!CopyAssumption
<1>4. Engine!MapAssumption
  BY MapAssumption DEF Engine!MapAssumption
<1>5. Engine!JobAssumption
  BY SystemAssumption DEF Engine!JobAssumption, Addr, Engine!Addr
<1> QED BY <1>3, <1>4, <1>5

\* End to end: what software is promised of a job that it gives to the copy
\* engine of the real system.  At every edge of the job, and so when done is
\* raised, the words moved so far are those that the source held when the job
\* was accepted, and nothing else in the system SRAM has changed, unless the
\* job overwrites words it has still to read (dma_master.v, dma_arbiter.v,
\* mem_subsystem.v).
THEOREM CopyEngineCopiesBlocks ==
  ASSUME MemoryIsItsOwn
  PROVE  SpecWithHistory => []Engine!CopiesBlock
<1>1. SpecWithHistory => [](IInv /\ MoveInv)
  BY MoveInvariant, PTL DEF SpecWithHistory
<1>2. SpecWithHistory => Engine!SpecH
  BY <1>1, HistoryInits, HistorySteps, PTL DEF SpecWithHistory, Spec, Engine!SpecH
<1>3. Engine!SpecH => []Engine!CopiesBlock
  BY Engine!BlockIsCopied, MoverAssumptions
<1> QED BY <1>2, <1>3, PTL

-----------------------------------------------------------------------------
(* The promises.  Engine and the two instances below bring the theorems of *)
(* the components; each speaks of the component that the system is built   *)
(* from, under the same substitution.                                      *)

StreamDma == INSTANCE AxiStreamDma_proofs WITH
                pipe <- <<GrantOf("stream", granted[1]), GrantOf("stream", granted[2])>>
Arbiter == INSTANCE DmaArbiter_proofs WITH
             ClientRequest <- Request, streamIn <- stream.port,
             copyIn <- copy.port, flight <- Flight, passed <- arbPassed

\* The instances define the components as the system does.
LEMMA SameArbiter ==
  /\ Arbiter!Init <=> Arb!Init
  /\ Arbiter!Next <=> Arb!Next
  /\ Arbiter!AtMostOnePassed <=> Arb!AtMostOnePassed
<1>1. Arbiter!Init <=> Arb!Init
  BY DEF Arb!Init, Arbiter!Init, Arb!Init0, Arbiter!Init0
<1>2. /\ Arbiter!SelectStream <=> Arb!SelectStream
      /\ Arbiter!Selected = Arb!Selected
      /\ Arbiter!MemReq <=> Arb!MemReq
  BY DEF Arb!SelectStream, Arbiter!SelectStream, Arb!Selected, Arbiter!Selected,
         Arb!MemReq, Arbiter!MemReq
<1>3. ASSUME NEW gnt \in BOOLEAN, NEW rvalid \in BOOLEAN
      PROVE  /\ Arbiter!Tick(gnt, rvalid) <=> Arb!Tick(gnt, rvalid)
             /\ Arbiter!MemoryTick(gnt, rvalid) <=> Arb!MemoryTick(gnt, rvalid)
             /\ Arbiter!ClientTick(gnt) <=> Arb!ClientTick(gnt)
  <2>0. Arbiter!SelectStream = Arb!SelectStream
    BY <1>2 DEF Arbiter!SelectStream, Arb!SelectStream
  <2>1. Arbiter!ReadPush(gnt) <=> Arb!ReadPush(gnt)
    BY <1>2 DEF Arb!ReadPush, Arbiter!ReadPush
  <2>2. Arbiter!Tick(gnt, rvalid) <=> Arb!Tick(gnt, rvalid)
    <3>1. Arbiter!TurnOver(gnt) <=> Arb!TurnOver(gnt)
      BY <1>2, <2>0 DEF Arb!TurnOver, Arbiter!TurnOver
    <3>2. Arbiter!PushOwner(gnt, rvalid) <=> Arb!PushOwner(gnt, rvalid)
      BY <2>1, <2>0 DEF Arb!PushOwner, Arbiter!PushOwner
    <3>3. Arbiter!PopOwner(gnt, rvalid) <=> Arb!PopOwner(gnt, rvalid)
      BY <2>1, <2>0 DEF Arb!PopOwner, Arbiter!PopOwner
    <3>4. Arbiter!ReplaceOwner(gnt, rvalid) <=> Arb!ReplaceOwner(gnt, rvalid)
      BY <2>1, <2>0 DEF Arb!ReplaceOwner, Arbiter!ReplaceOwner
    <3>5. Arbiter!KeepOwners(gnt, rvalid) <=> Arb!KeepOwners(gnt, rvalid)
      BY <2>1 DEF Arb!KeepOwners, Arbiter!KeepOwners
    <3> QED BY <3>1, <3>2, <3>3, <3>4, <3>5 DEF Arb!Tick, Arbiter!Tick
  <2>3. Arbiter!MemoryTick(gnt, rvalid) <=> Arb!MemoryTick(gnt, rvalid)
    BY <1>2, <2>0, <2>1
    DEF Arb!MemoryTick, Arbiter!MemoryTick, Arb!Unanswered, Arbiter!Unanswered
  <2>4. Arbiter!ClientTick(gnt) <=> Arb!ClientTick(gnt)
    BY <1>2 DEF Arb!ClientTick, Arbiter!ClientTick, Arb!PassedTick, Arbiter!PassedTick,
                Arb!StreamGnt, Arbiter!StreamGnt, Arb!CopyGnt, Arbiter!CopyGnt
  <2> QED BY <2>2, <2>3, <2>4
<1>4. Arbiter!ResetAll <=> Arb!ResetAll
  <2>1. Arbiter!ClientTick(FALSE) <=> Arb!ClientTick(FALSE)
    BY <1>3
  <2> QED BY <2>1 DEF Arb!ResetAll, Arbiter!ResetAll, Arb!Reset, Arbiter!Reset
<1>5. Arbiter!Next <=> Arb!Next
  BY <1>3, <1>4 DEF Arb!Next, Arbiter!Next
<1>6. Arbiter!AtMostOnePassed <=> Arb!AtMostOnePassed
  BY DEF Arb!AtMostOnePassed, Arbiter!AtMostOnePassed
<1> QED BY <1>1, <1>5, <1>6

LEMMA SameStream ==
  /\ StreamDma!Init <=> Stream!Init
  /\ StreamDma!Next <=> Stream!Next
<1>0. /\ StreamDma!NoRequest = Stream!NoRequest /\ StreamDma!NoBeat = Stream!NoBeat
      /\ \A a : StreamDma!NextAddr(a) = Stream!NextAddr(a)
      /\ StreamDma!ResultBeat = Stream!ResultBeat /\ StreamDma!AnyData = Stream!AnyData
  BY DEF StreamDma!NoRequest, Stream!NoRequest, StreamDma!NoBeat, Stream!NoBeat,
         StreamDma!AnyData, Stream!AnyData, StreamDma!NextAddr, Stream!NextAddr,
         StreamDma!ResultBeat, Stream!ResultBeat
<1>1. StreamDma!Init <=> Stream!Init
  BY <1>0 DEF Stream!Init, StreamDma!Init, Stream!Init0, StreamDma!Init0
<1>2. /\ StreamDma!Quiet = Stream!Quiet
      /\ StreamDma!ReadPort = Stream!ReadPort
      /\ StreamDma!WritePort = Stream!WritePort
      /\ StreamDma!AfterWord = Stream!AfterWord
  BY DEF Stream!Quiet, StreamDma!Quiet, Stream!ReadPort, StreamDma!ReadPort,
         Stream!WritePort, StreamDma!WritePort, Stream!AfterWord, StreamDma!AfterWord
<1>3. ASSUME NEW start \in BOOLEAN, NEW abort \in BOOLEAN, NEW cfg, NEW gnt \in BOOLEAN,
             NEW rvalid \in BOOLEAN, NEW rdata, NEW res
      PROVE  StreamDma!Tick(start, abort, cfg, gnt, rvalid, rdata, res)
             <=> Stream!Tick(start, abort, cfg, gnt, rvalid, rdata, res)
  <2>1. StreamDma!Idle(start) <=> Stream!Idle(start)
    BY <1>2 DEF StreamDma!Idle, Stream!Idle
  <2>2. StreamDma!Start(start, cfg) <=> Stream!Start(start, cfg)
    BY <1>2 DEF StreamDma!Start, Stream!Start
  <2>3. StreamDma!WeightsFilled(cfg) <=> Stream!WeightsFilled(cfg)
    BY <1>2 DEF StreamDma!WeightsFilled, Stream!WeightsFilled
  <2>4. StreamDma!FillWeights(gnt) <=> Stream!FillWeights(gnt)
    BY <1>2 DEF StreamDma!FillWeights, Stream!FillWeights
  <2>5. StreamDma!WeightWait(rvalid, rdata) <=> Stream!WeightWait(rvalid, rdata)
    BY <1>0, <1>2 DEF StreamDma!WeightWait, Stream!WeightWait
  <2>6. StreamDma!ActivationsFilled <=> Stream!ActivationsFilled
    BY <1>2 DEF StreamDma!ActivationsFilled, Stream!ActivationsFilled
  <2>7. StreamDma!FillActivations(gnt) <=> Stream!FillActivations(gnt)
    BY <1>2 DEF StreamDma!FillActivations, Stream!FillActivations
  <2>8. StreamDma!ActivationWait(rvalid, rdata) <=> Stream!ActivationWait(rvalid, rdata)
    BY <1>0, <1>2 DEF StreamDma!ActivationWait, Stream!ActivationWait
  <2>9. StreamDma!RunArray(cfg, res) <=> Stream!RunArray(cfg, res)
    BY <1>2 DEF StreamDma!RunArray, Stream!RunArray
  <2>10. StreamDma!DrainResult(res) <=> Stream!DrainResult(res)
    BY <1>2 DEF StreamDma!DrainResult, Stream!DrainResult
  <2>11. StreamDma!WriteResult(gnt) <=> Stream!WriteResult(gnt)
    BY <1>2 DEF StreamDma!WriteResult, Stream!WriteResult
  <2>12. StreamDma!ResultWritten(gnt, res) <=> Stream!ResultWritten(gnt, res)
    BY <1>0, <1>2 DEF StreamDma!ResultWritten, Stream!ResultWritten
  <2>13. StreamDma!Abort <=> Stream!Abort
    BY <1>2 DEF StreamDma!Abort, Stream!Abort
  <2> QED
    BY <2>1, <2>2, <2>3, <2>4, <2>5, <2>6, <2>7, <2>8, <2>9, <2>10, <2>11, <2>12, <2>13
    DEF StreamDma!Tick, Stream!Tick
<1>4. StreamDma!ResetEdge <=> Stream!ResetEdge
  BY <1>0 DEF StreamDma!ResetEdge, Stream!ResetEdge, StreamDma!Reset, Stream!Reset
<1>5. StreamDma!ClockEdge <=> Stream!ClockEdge
  <2> DEFINE bus == <<GrantOf("stream", granted[1]), GrantOf("stream", granted[2])>>
             due == bus[2].req /\ ~bus[2].we
             T(start, abort, cfg, gnt, rdata, res) ==
               Stream!Tick(start, abort, cfg, gnt, due, rdata, res)
             U(start, abort, cfg, gnt, rdata, res) ==
               StreamDma!Tick(start, abort, cfg, gnt, due, rdata, res)
  <2>1. due \in BOOLEAN
    OBVIOUS
  <2>2. \A start, abort, gnt \in BOOLEAN : \A cfg, rdata, res :
          T(start, abort, cfg, gnt, rdata, res) <=> U(start, abort, cfg, gnt, rdata, res)
    BY <1>3, <2>1
  <2>3. Stream!ClockEdge <=>
          \E start, abort, gnt \in BOOLEAN, cfg \in Configs, rdata \in Data,
             res \in Stream!ResultBeat :
            /\ gnt => stream.port.req
            /\ T(start, abort, cfg, gnt, rdata, res)
            /\ bus' = <<IF gnt THEN stream.port ELSE Stream!NoRequest, bus[1]>>
    BY Zenon DEF Stream!ClockEdge
  <2>4. StreamDma!ClockEdge <=>
          \E start, abort, gnt \in BOOLEAN, cfg \in Configs, rdata \in Data,
             res \in Stream!ResultBeat :
            /\ gnt => stream.port.req
            /\ U(start, abort, cfg, gnt, rdata, res)
            /\ bus' = <<IF gnt THEN stream.port ELSE Stream!NoRequest, bus[1]>>
    BY <1>0, Zenon DEF StreamDma!ClockEdge
  <2> HIDE DEF T, U, bus
  <2> QED BY <2>2, <2>3, <2>4
<1> QED BY <1>1, <1>4, <1>5 DEF StreamDma!Next, Stream!Next

LEMMA SameCopy ==
  /\ Engine!Init <=> Copy!Init
  /\ Engine!Next <=> Copy!Next
<1>1. /\ Engine!NoRequest = Copy!NoRequest /\ Engine!AnyData = Copy!AnyData
      /\ \A a : Engine!NextAddr(a) = Copy!NextAddr(a)
      /\ \A a : Engine!Aligned(a) <=> Copy!Aligned(a)
  BY DEF Engine!NoRequest, Copy!NoRequest, Engine!AnyData, Copy!AnyData,
         Engine!NextAddr, Copy!NextAddr, Engine!Aligned, Copy!Aligned
<1>2. /\ Engine!Init <=> Copy!Init
      /\ Engine!ResetEdge <=> Copy!ResetEdge
  BY <1>1 DEF Engine!Init, Copy!Init, Engine!Init0, Copy!Init0,
              Engine!ResetEdge, Copy!ResetEdge, Engine!Reset, Copy!Reset
<1>3. ASSUME NEW start \in BOOLEAN, NEW job, NEW gnt \in BOOLEAN,
             NEW rvalid \in BOOLEAN, NEW rdata
      PROVE  Engine!Tick(start, job, gnt, rvalid, rdata)
             <=> Copy!Tick(start, job, gnt, rvalid, rdata)
  <2>1. /\ Engine!Idle(start) <=> Copy!Idle(start)
        /\ Engine!Misaligned(job) <=> Copy!Misaligned(job)
        /\ Engine!Finish <=> Copy!Finish
        /\ Engine!AwaitData(rvalid, rdata) <=> Copy!AwaitData(rvalid, rdata)
    BY <1>1 DEF Engine!Idle, Copy!Idle, Engine!Misaligned, Copy!Misaligned,
                Engine!Finish, Copy!Finish, Engine!AwaitData, Copy!AwaitData
  <2>2. /\ Engine!Reject(start, job) <=> Copy!Reject(start, job)
        /\ Engine!Accept(start, job) <=> Copy!Accept(start, job)
    BY <2>1 DEF Engine!Reject, Copy!Reject, Engine!Accept, Copy!Accept
  <2>3. Engine!Fetch(gnt) <=> Copy!Fetch(gnt)
    BY DEF Engine!Fetch, Copy!Fetch, Engine!FetchPort, Copy!FetchPort
  <2>4. Engine!StoreRequest(gnt) <=> Copy!StoreRequest(gnt)
    BY DEF Engine!StoreRequest, Copy!StoreRequest, Engine!StorePort, Copy!StorePort
  <2>5. Engine!StoreGranted(gnt) <=> Copy!StoreGranted(gnt)
    BY <1>1 DEF Engine!StoreGranted, Copy!StoreGranted, Engine!StorePort, Copy!StorePort,
                Engine!LastWord, Copy!LastWord
  <2> QED BY <2>1, <2>2, <2>3, <2>4, <2>5 DEF Engine!Tick, Copy!Tick
<1>4. ASSUME NEW gnt \in BOOLEAN, NEW rvalid \in BOOLEAN
      PROVE  Engine!Bus(gnt, rvalid) <=> Copy!Bus(gnt, rvalid)
  BY DEF Engine!Bus, Copy!Bus
<1>5. Engine!ClockEdge <=> Copy!ClockEdge
  BY <1>3, <1>4 DEF Engine!ClockEdge, Copy!ClockEdge
<1> QED BY <1>2, <1>5 DEF Engine!Next, Copy!Next

LEMMA SameSpecs ==
  /\ Engine!Spec <=> Copy!Spec
  /\ StreamDma!Spec <=> Stream!Spec
  /\ Arbiter!Spec <=> Arb!Spec
<1>1. /\ [Engine!Next]_(Engine!vars) <=> [Copy!Next]_(Copy!vars)
      /\ [StreamDma!Next]_(StreamDma!vars) <=> [Stream!Next]_(Stream!vars)
      /\ [Arbiter!Next]_(Arbiter!vars) <=> [Arb!Next]_(Arb!vars)
  BY SameCopy, SameStream, SameArbiter
  DEF Engine!vars, Copy!vars, StreamDma!vars, Stream!vars, Arbiter!vars, Arb!vars
<1>2. Engine!Spec <=> Copy!Spec
  BY <1>1, SameCopy, PTL DEF Engine!Spec, Copy!Spec
<1>3. StreamDma!Spec <=> Stream!Spec
  BY <1>1, SameStream, PTL DEF StreamDma!Spec, Stream!Spec
<1>4. Arbiter!Spec <=> Arb!Spec
  BY <1>1, SameArbiter, PTL DEF Arbiter!Spec, Arb!Spec
<1> QED BY <1>2, <1>3, <1>4

\* The constants of the system are what the components assume.
LEMMA ComponentAssumptions ==
  /\ StreamDma!MapAssumption /\ StreamDma!ConfigAssumption
  /\ Arbiter!ClientAssumption
<1>1. StreamDma!MapAssumption
  BY MapAssumption DEF StreamDma!MapAssumption
<1>2. StreamDma!ConfigAssumption
  BY SystemAssumption DEF StreamDma!ConfigAssumption, Addr, StreamDma!Addr
<1>3. Arbiter!ClientAssumption
  BY DEF Arbiter!ClientAssumption, Request
<1> QED BY <1>1, <1>2, <1>3

\* Composition: what the modules of the engines and of the arbiter prove of
\* each alone holds of all of them together.  The copy engine holds a request
\* until its grant and then withdraws it, the stream engine waits only for the
\* word it asked for and repeats a granted request at most once, and each
\* gives way to the other at most once (dma_master.v:55-88,
\* axi_stream_dma.v:115-196, dma_arbiter.v:33,60-61).
THEOREM PromisesHold ==
  Spec => /\ Copy!HeldUntilGranted
          /\ []Stream!AnswersCurrentWord
          /\ []Stream!RepeatsAtMostOnce
          /\ []Arb!AtMostOnePassed
<1>1. Spec => Engine!Spec /\ StreamDma!Spec /\ Arbiter!Spec
  BY ComponentsKeepContracts, SameSpecs DEF Contracts
<1>2. Engine!Spec => Engine!HeldUntilGranted
  BY Engine!StableRequest, MoverAssumptions
<1>3. StreamDma!Spec => []StreamDma!AnswersCurrentWord
  BY StreamDma!RightAnswer, ComponentAssumptions
<1>4. StreamDma!Spec => []StreamDma!RepeatsAtMostOnce
  BY StreamDma!OneRepetition, ComponentAssumptions
<1>5. Arbiter!Spec => []Arbiter!AtMostOnePassed
  BY Arbiter!BoundedBypass, ComponentAssumptions
<1>6. Engine!HeldUntilGranted => Copy!HeldUntilGranted
  BY DEF Engine!HeldUntilGranted, Copy!HeldUntilGranted, Engine!vars, Copy!vars
<1>7. /\ StreamDma!AnswersCurrentWord => Stream!AnswersCurrentWord
      /\ StreamDma!RepeatsAtMostOnce => Stream!RepeatsAtMostOnce
  BY DEF StreamDma!AnswersCurrentWord, Stream!AnswersCurrentWord,
         StreamDma!RepeatsAtMostOnce, Stream!RepeatsAtMostOnce,
         StreamDma!Waiting, Stream!Waiting, StreamDma!IsRead, Stream!IsRead
<1> QED BY <1>1, <1>2, <1>3, <1>4, <1>5, <1>6, <1>7, SameArbiter, PTL
=============================================================================
