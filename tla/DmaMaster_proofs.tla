-------------------------- MODULE DmaMaster_proofs --------------------------
(***************************************************************************)
(* Invariants of the copy engine for every address space, every length and *)
(* every set of jobs; and what the words that it moves amount to, for a    *)
(* memory and a job of any size, which is a specification of its own       *)
(* (CopiedBlock.tla).  DmaSystem_proofs.tla brings the two together.       *)
(***************************************************************************)
EXTENDS DmaMaster, CopiedBlock, TLAPS

\* busy_o covers the whole job.
BusyOutsideIdle == copy.busy <=> copy.state # "idle"

IInv == TypeOK /\ WaitsForItsRead /\ AsksForCurrentWord /\ BusyOutsideIdle

LEMMA AddressFacts ==
  /\ 0 \in Addr
  /\ \A a \in Addr : NextAddr(a) \in Addr
  /\ AnyData \in Data
  /\ NoRequest \in Request /\ ~NoRequest.req
  /\ 0 \in 0..LenMod - 1
<1>1. \A a \in Int, m \in Nat \ {0} : a % m \in 0..m - 1
  OBVIOUS
<1>2. \A a \in Addr : NextAddr(a) \in Addr
  BY <1>1, MapAssumption DEF Addr, NextAddr
<1>3. 0 \in Addr /\ 0 \in 0..LenMod - 1
  BY MapAssumption, JobAssumption DEF Addr
<1>4. AnyData \in Data
  BY MapAssumption DEF AnyData
<1>5. NoRequest \in Request /\ ~NoRequest.req
  BY <1>3, <1>4 DEF NoRequest, Request
<1> QED BY <1>2, <1>3, <1>4, <1>5

LEMMA InitInvariant == Init => IInv
<1> SUFFICES ASSUME Init PROVE IInv
  OBVIOUS
<1>1. copy \in Registers
  BY AddressFacts DEF Init, Init0, Registers, States
<1>2. copy.state = "idle" /\ ~copy.busy /\ ~copy.port.req /\ ~waiting
  BY AddressFacts DEF Init, Init0
<1> QED
  BY <1>1, <1>2 DEF Init, IInv, TypeOK, WaitsForItsRead, AsksForCurrentWord, BusyOutsideIdle

\* The type of the registers after an edge of each kind.
LEMMA TickTyped ==
  ASSUME IInv, NEW start \in BOOLEAN, NEW j \in Jobs, NEW gnt \in BOOLEAN,
         NEW rvalid \in BOOLEAN, NEW rdata \in Data,
         Tick(start, j, gnt, rvalid, rdata)
  PROVE  copy' \in Registers
<1> USE DEF IInv, TypeOK, Registers, States
<1>1. CASE Idle(start)
  BY <1>1 DEF Idle
<1>2. CASE Reject(start, j)
  BY <1>2 DEF Reject
<1>3. CASE Accept(start, j)
  BY <1>3, JobAssumption DEF Accept
<1>4. CASE Fetch(gnt)
  BY <1>4 DEF Fetch, FetchPort, Request
<1>5. CASE AwaitData(rvalid, rdata)
  BY <1>5 DEF AwaitData
<1>6. CASE StoreRequest(gnt)
  BY <1>6 DEF StoreRequest, StorePort, Request
<1>7. CASE StoreGranted(gnt)
  <2>1. (IF LastWord THEN copy.left ELSE copy.left - 4) \in 0..LenMod - 1
    BY JobAssumption DEF LastWord
  <2>2. StorePort(FALSE) \in Request
    BY DEF StorePort, Request
  <2> QED BY <1>7, <2>1, <2>2, AddressFacts DEF StoreGranted
<1>8. CASE Finish
  BY <1>8 DEF Finish
<1> QED BY <1>1, <1>2, <1>3, <1>4, <1>5, <1>6, <1>7, <1>8 DEF Tick

\* The relation of the port, the state and the bus after an edge.
LEMMA TickInStep ==
  ASSUME IInv, NEW start \in BOOLEAN, NEW j \in Jobs, NEW gnt \in BOOLEAN,
         NEW rvalid \in BOOLEAN, NEW rdata \in Data,
         Tick(start, j, gnt, rvalid, rdata), Bus(gnt, rvalid)
  PROVE  /\ waiting' \in BOOLEAN /\ granted' = gnt
         /\ WaitsForItsRead' /\ AsksForCurrentWord' /\ BusyOutsideIdle'
         /\ copy.port.req =>
              IF gnt THEN ~copy'.port.req ELSE copy'.port = copy.port
<1> USE DEF IInv, TypeOK, Registers, States, Request, Bus,
        WaitsForItsRead, AsksForCurrentWord, BusyOutsideIdle
<1>1. CASE Idle(start)
  BY <1>1 DEF Idle
<1>2. CASE Reject(start, j)
  BY <1>2 DEF Reject
<1>3. CASE Accept(start, j)
  BY <1>3 DEF Accept
<1>4. CASE Fetch(gnt)
  BY <1>4 DEF Fetch, FetchPort
<1>5. CASE AwaitData(rvalid, rdata)
  BY <1>5 DEF AwaitData
<1>6. CASE StoreRequest(gnt)
  BY <1>6 DEF StoreRequest, StorePort
<1>7. CASE StoreGranted(gnt)
  BY <1>7 DEF StoreGranted, StorePort
<1>8. CASE Finish
  BY <1>8 DEF Finish
<1> QED BY <1>1, <1>2, <1>3, <1>4, <1>5, <1>6, <1>7, <1>8 DEF Tick

LEMMA NextInvariant == IInv /\ [Next]_vars => IInv'
<1> SUFFICES ASSUME IInv, [Next]_vars PROVE IInv'
  OBVIOUS
<1>1. CASE ClockEdge
  BY <1>1, TickTyped, TickInStep DEF ClockEdge, IInv, TypeOK
<1>2. CASE ResetEdge
  BY <1>2 DEF ResetEdge, Reset, IInv, TypeOK, Registers, States, Request,
     WaitsForItsRead, AsksForCurrentWord, BusyOutsideIdle
<1>3. CASE UNCHANGED vars
  BY <1>3 DEF vars, IInv, TypeOK, WaitsForItsRead, AsksForCurrentWord, BusyOutsideIdle
<1> QED BY <1>1, <1>2, <1>3 DEF Next

LEMMA SpecInvariant == Spec => []IInv
BY InitInvariant, NextInvariant, PTL DEF Spec

\* The registers keep their types, the byte counter and addresses included.
THEOREM TypeCorrect == Spec => []TypeOK
<1>1. IInv => TypeOK
  BY DEF IInv
<1> QED BY <1>1, SpecInvariant, PTL

\* The engine is in ST_WAIT_R exactly while its read is unanswered.
THEOREM NoLostResponse == Spec => []WaitsForItsRead
<1>1. IInv => WaitsForItsRead
  BY DEF IInv
<1> QED BY <1>1, SpecInvariant, PTL

\* A request on the port is always the transfer of the current word.
THEOREM CurrentWordOnly == Spec => []AsksForCurrentWord
<1>1. IInv => AsksForCurrentWord
  BY DEF IInv
<1> QED BY <1>1, SpecInvariant, PTL

\* A request is stable until granted and withdrawn in the following cycle
\* (dma_master.v:55-63, 72-88).
THEOREM StableRequest == Spec => HeldUntilGranted
<1> DEFINE Held == copy.port.req =>
             IF granted' THEN ~copy'.port.req
                         ELSE copy'.port = copy.port \/ ~copy'.busy
<1>1. IInv /\ [Next]_vars => [Held]_vars
  <2> SUFFICES ASSUME IInv, Next PROVE Held
    BY DEF vars
  <2>1. CASE ClockEdge
    BY <2>1, TickInStep DEF ClockEdge
  <2>2. CASE ResetEdge
    BY <2>2 DEF ResetEdge, Reset, IInv, TypeOK, Registers
  <2> QED BY <2>1, <2>2 DEF Next
<1> QED BY <1>1, SpecInvariant, PTL DEF Spec, HeldUntilGranted

-----------------------------------------------------------------------------
(* What the moved words amount to (CopiedBlock.tla), for a memory and a    *)
(* job of any size.                                                        *)

\* Where the job is: the next words to read and to write are those with the
\* number of the words moved so far.
Position ==
  /\ job.phase \in {"read", "write"} => job.left >= 1
  /\ job.phase = "over" => job.left = 0
  /\ Running =>
       /\ job.left <= request.words
       /\ request.words <= Depth =>
            /\ job.src = Nth(request.src, Moved)
            /\ job.dst = Nth(request.dst, Moved)

\* Between the read and the write the job holds the word the source had when
\* the job began.
HoldsSourceWord ==
  job.phase = "write" /\ ReadsComeFirst => job.held = before[Nth(request.src, Moved)]

BlockInv == BlockTyped /\ Position /\ HoldsSourceWord /\ CopiesBlock

LEMMA NthIsAnIndex ==
  ASSUME NEW i \in Index, NEW k \in 0..Depth
  PROVE  Nth(i, k) \in Index
BY CopyAssumption DEF Nth, Index

LEMMA NthFollows ==
  ASSUME NEW i \in Index, NEW k \in 0..Depth - 1
  PROVE  Following(Nth(i, k)) = Nth(i, k + 1)
BY CopyAssumption DEF Nth, Index, Following

\* Different words of a block no longer than the memory are in different places.
LEMMA NthIsInjective ==
  ASSUME NEW i \in Index, NEW k \in 0..Depth - 1, NEW n \in 0..Depth - 1, k # n
  PROVE  Nth(i, k) # Nth(i, n)
BY CopyAssumption DEF Nth, Index

\* The fields of a job, and a job made of such fields.
LEMMA BlockJobFields ==
  ASSUME NEW j \in Job
  PROVE  /\ j.phase \in Phases /\ j.src \in Index /\ j.dst \in Index
         /\ j.left \in 0..MaxWords /\ j.held \in Value
BY DEF Job

LEMMA BlockJobOfFields ==
  ASSUME NEW p \in Phases, NEW s \in Index, NEW d \in Index,
         NEW n \in 0..MaxWords, NEW v \in Value
  PROVE  [phase |-> p, src |-> s, dst |-> d, left |-> n, held |-> v] \in Job
BY DEF Job

LEMMA BlockInit == InitH => BlockInv
<1> SUFFICES ASSUME InitH PROVE BlockInv
  OBVIOUS
<1>1. BlockTyped
  BY CopyAssumption DEF InitH, MoverInit, AtRest, BlockTyped, Index
<1>2. job.phase = "idle"
  BY DEF InitH, MoverInit
<1> QED BY <1>1, <1>2 DEF BlockInv, Position, Running, HoldsSourceWord, CopiesBlock

\* A job begins with nothing moved, in the memory it will be compared with.
LEMMA BlockBegins ==
  ASSUME BlockInv, BeginH
  PROVE  BlockInv'
<1>0. PICK s \in Index, d \in Index, n \in 1..MaxWords :
      job' = [job EXCEPT !.phase = "read", !.src = s, !.dst = d, !.left = n]
  BY DEF BeginH, Begin
<1>1. /\ job' \in Job
      /\ job'.phase = "read" /\ job'.src = s /\ job'.dst = d /\ job'.left = n
  <2>1. job' = [phase |-> "read", src |-> s, dst |-> d, left |-> n, held |-> job.held]
    BY <1>0 DEF BlockInv, BlockTyped, Job
  <2>2. "read" \in Phases /\ n \in 0..MaxWords /\ job \in Job
    BY CopyAssumption DEF Phases, BlockInv, BlockTyped
  <2>3. job.held \in Value
    BY <2>2, BlockJobFields
  <2>4. job' \in Job
    BY <2>1, <2>2, <2>3, BlockJobOfFields
  <2> QED BY <2>1, <2>4
<1>2. /\ memory' = memory /\ before' = memory
      /\ request' = [src |-> s, dst |-> d, words |-> n]
  BY <1>1 DEF BeginH, Begin
<1>3. BlockTyped'
  BY <1>1, <1>2, CopyAssumption DEF BlockInv, BlockTyped
<1>4. Moved' = 0
  BY <1>1, <1>2, CopyAssumption DEF Moved
<1>5. Position'
  BY <1>1, <1>2, <1>4, CopyAssumption DEF Position, Running, Nth, Index
<1>6. HoldsSourceWord' /\ CopiesBlock'
  BY <1>1, <1>2, <1>4 DEF HoldsSourceWord, CopiesBlock, BlockCopied
<1> QED BY <1>3, <1>5, <1>6 DEF BlockInv

\* The word read is still the one the source held when the job began: no
\* word written so far lies there.
LEMMA BlockReads ==
  ASSUME BlockInv, ReadWord, UNCHANGED history
  PROVE  BlockInv'
<1>1. /\ job.phase = "read" /\ memory' = memory
      /\ before' = before /\ request' = request
      /\ job' = [job EXCEPT !.phase = "write", !.held = memory[job.src]]
  BY DEF ReadWord, history
<1>2. /\ job' \in Job /\ job'.phase = "write" /\ job'.held = memory[job.src]
      /\ job'.src = job.src /\ job'.dst = job.dst /\ job'.left = job.left
  BY <1>1 DEF BlockInv, BlockTyped, Job, Phases, Memory
<1>3. BlockTyped'
  BY <1>1, <1>2 DEF BlockInv, BlockTyped
<1>4. Moved' = Moved /\ (ReadsComeFirst' <=> ReadsComeFirst)
      /\ (BlockCopied(Moved)' <=> BlockCopied(Moved))
  BY <1>1, <1>2 DEF Moved, ReadsComeFirst, BlockCopied
<1>5. Position' /\ CopiesBlock'
  BY <1>1, <1>2, <1>4 DEF BlockInv, Position, CopiesBlock, Running
<1>6. HoldsSourceWord'
  <2> SUFFICES ASSUME ReadsComeFirst
               PROVE  memory[job.src] = before[Nth(request.src, Moved)]
    BY <1>1, <1>2, <1>4 DEF HoldsSourceWord
  <2>1. /\ Moved \in 0..request.words - 1 /\ request.words <= Depth
        /\ job.src = Nth(request.src, Moved) /\ job.src \in Index
    BY <1>1, CopyAssumption
    DEF BlockInv, BlockTyped, Job, Position, Running, Moved, ReadsComeFirst
  <2>2. \A k \in 0..Moved - 1 : job.src # Nth(request.dst, k)
    <3> TAKE k \in 0..Moved - 1
    <3>1. k \in 0..request.words - 1 /\ k < Moved
      BY <2>1 DEF BlockInv, BlockTyped
    <3>2. Nth(request.dst, k) # Nth(request.src, Moved)
      BY <2>1, <3>1 DEF ReadsComeFirst
    <3> QED BY <2>1, <3>2
  <2>3. BlockCopied(Moved)
    BY <1>1 DEF BlockInv, CopiesBlock, Running
  <2> QED BY <2>1, <2>2, <2>3 DEF BlockCopied
<1> QED BY <1>3, <1>5, <1>6 DEF BlockInv

LEMMA BlockWrites ==
  ASSUME BlockInv, WriteWord, UNCHANGED history
  PROVE  BlockInv'
<1>1. /\ job.phase = "write"
      /\ memory' = [memory EXCEPT ![job.dst] = job.held]
      /\ before' = before /\ request' = request
  BY DEF WriteWord, history
<1>2. /\ job.src \in Index /\ job.dst \in Index /\ job.held \in Value
      /\ job.left \in 1..MaxWords /\ Moved \in Nat
      /\ request.words \in 0..MaxWords /\ job.left <= request.words
      /\ request.src \in Index /\ request.dst \in Index
  BY <1>1, CopyAssumption DEF BlockInv, BlockTyped, Job, Position, Running, Moved
<1>3. Following(job.src) \in Index /\ Following(job.dst) \in Index
  BY <1>2, CopyAssumption DEF Following, Index
<1>4. /\ job' \in Job
      /\ job'.phase = IF job.left = 1 THEN "over" ELSE "read"
      /\ job'.src = Following(job.src) /\ job'.dst = Following(job.dst)
      /\ job'.left = job.left - 1
  <2> DEFINE p == IF job.left = 1 THEN "over" ELSE "read"
  <2>1. job' = [phase |-> p, src |-> Following(job.src), dst |-> Following(job.dst),
                left |-> job.left - 1, held |-> job.held]
    BY DEF WriteWord, BlockInv, BlockTyped, Job
  <2>2. p \in Phases /\ job.left - 1 \in 0..MaxWords /\ job \in Job
    BY <1>2, CopyAssumption DEF Phases, BlockInv, BlockTyped
  <2> HIDE DEF p
  <2>3. job' \in Job
    BY <1>2, <1>3, <2>1, <2>2, BlockJobFields, BlockJobOfFields
  <2> QED BY <2>1, <2>3 DEF p
<1>5. BlockTyped'
  BY <1>1, <1>2, <1>4 DEF BlockInv, BlockTyped, Memory
<1>6. Moved' = Moved + 1 /\ (ReadsComeFirst' <=> ReadsComeFirst)
  BY <1>1, <1>2, <1>4 DEF Moved, ReadsComeFirst
<1>7. request.words <= Depth =>
        /\ Moved \in 0..Depth - 1
        /\ job.src = Nth(request.src, Moved) /\ job.dst = Nth(request.dst, Moved)
  BY <1>1, <1>2, CopyAssumption DEF BlockInv, Position, Running, Moved
<1>8. Position'
  <2>1. request.words <= Depth =>
          /\ job'.src = Nth(request.src, Moved + 1)
          /\ job'.dst = Nth(request.dst, Moved + 1)
    BY <1>2, <1>4, <1>7, NthFollows
  <2> QED BY <1>1, <1>2, <1>4, <1>6, <2>1 DEF Position, Running, Nth
<1>9. HoldsSourceWord'
  BY <1>4 DEF HoldsSourceWord
<1>10. CopiesBlock'
  <2> SUFFICES ASSUME ReadsComeFirst
               PROVE  BlockCopied(Moved)'
    BY <1>6 DEF CopiesBlock
  <2>1. BlockCopied(Moved) /\ job.held = before[Nth(request.src, Moved)]
    BY <1>1 DEF BlockInv, CopiesBlock, HoldsSourceWord, Running
  <2>2. Moved \in 0..Depth - 1 /\ job.dst = Nth(request.dst, Moved)
    BY <1>7 DEF ReadsComeFirst
  <2>3. ASSUME NEW k \in 0..Moved
        PROVE  memory'[Nth(request.dst, k)] = before[Nth(request.src, k)]
    <3>1. k \in 0..Depth - 1 /\ Nth(request.dst, k) \in Index
      BY <1>2, <2>2, <2>3, NthIsAnIndex, CopyAssumption
    <3>2. CASE k = Moved
      BY <1>1, <2>1, <2>2, <3>1, <3>2 DEF BlockInv, BlockTyped, Memory
    <3>3. CASE k # Moved
      <4>1. Nth(request.dst, k) # job.dst
        BY <1>2, <2>2, <3>1, <3>3, NthIsInjective
      <4>2. k \in 0..Moved - 1
        BY <1>2, <3>3
      <4> QED BY <1>1, <2>1, <3>1, <4>1, <4>2 DEF BlockInv, BlockTyped, Memory, BlockCopied
    <3> QED BY <3>2, <3>3
  <2>4. ASSUME NEW i \in Index, \A k \in 0..Moved : i # Nth(request.dst, k)
        PROVE  memory'[i] = before[i]
    <3>1. i # job.dst /\ \A k \in 0..Moved - 1 : i # Nth(request.dst, k)
      BY <1>2, <2>2, <2>4
    <3> QED BY <1>1, <2>1, <3>1 DEF BlockInv, BlockTyped, Memory, BlockCopied
  <2>5. (0..Moved' - 1) = 0..Moved
    BY <1>2, <1>6
  <2> QED BY <1>1, <2>3, <2>4, <2>5 DEF BlockCopied, Nth
<1> QED BY <1>5, <1>8, <1>9, <1>10 DEF BlockInv

\* No other step touches a running job or its memory.
BlockRests == job.phase = "idle" /\ job \in Job /\ memory \in Memory

LEMMA BlockRestIsIdle ==
  ASSUME BlockInv, Elsewhere \/ End \/ GiveUp
  PROVE  BlockRests'
<1>1. job \in Job /\ memory \in Memory /\ "idle" \in Phases /\ 0 \in 0..MaxWords
  BY CopyAssumption DEF BlockInv, BlockTyped, Phases
<1>2. CASE Elsewhere
  BY <1>1, <1>2 DEF Elsewhere, BlockRests
<1>3. CASE End
  <2>1. job' = [phase |-> "idle", src |-> job.src, dst |-> job.dst,
                left |-> job.left, held |-> job.held]
    BY <1>1, <1>3 DEF End, Job
  <2>2. /\ job.src \in Index /\ job.dst \in Index
        /\ job.left \in 0..MaxWords /\ job.held \in Value
    BY <1>1, BlockJobFields
  <2>3. job' \in Job
    BY <1>1, <2>1, <2>2, BlockJobOfFields
  <2> QED BY <1>1, <1>3, <2>1, <2>3 DEF End, BlockRests
<1>4. CASE GiveUp
  <2>1. PICK v \in Value : job' = [job EXCEPT !.phase = "idle", !.left = 0, !.held = v]
    BY <1>4 DEF GiveUp
  <2>2. job' = [phase |-> "idle", src |-> job.src, dst |-> job.dst,
                left |-> 0, held |-> v]
    BY <1>1, <2>1 DEF Job
  <2>3. job.src \in Index /\ job.dst \in Index
    BY <1>1, BlockJobFields
  <2>4. job' \in Job
    BY <1>1, <2>2, <2>3, BlockJobOfFields
  <2> QED BY <1>1, <1>4, <2>2, <2>4 DEF GiveUp, BlockRests
<1> QED BY <1>2, <1>3, <1>4

LEMMA BlockRestKeeps ==
  ASSUME BlockInv, Elsewhere \/ End \/ GiveUp, UNCHANGED history
  PROVE  BlockInv'
<1>1. job'.phase = "idle" /\ job' \in Job /\ memory' \in Memory
  BY BlockRestIsIdle DEF BlockRests
<1>2. before' = before /\ request' = request
  BY DEF history
<1> QED BY <1>1, <1>2
    DEF BlockInv, BlockTyped, Position, Running, HoldsSourceWord, CopiesBlock

LEMMA BlockNext == BlockInv /\ [NextH]_<<moverVars, history>> => BlockInv'
<1> SUFFICES ASSUME BlockInv, [NextH]_<<moverVars, history>> PROVE BlockInv'
  OBVIOUS
<1>1. CASE NextH
  BY <1>1, BlockBegins, BlockReads, BlockWrites, BlockRestKeeps DEF NextH, OtherH
<1>2. CASE UNCHANGED <<moverVars, history>>
  BY <1>2 DEF moverVars, history, BlockInv, BlockTyped, Position, Running, HoldsSourceWord,
              CopiesBlock, BlockCopied, ReadsComeFirst, Moved
<1> QED BY <1>1, <1>2

LEMMA BlockInvariant == SpecH => []BlockInv
BY BlockInit, BlockNext, PTL DEF SpecH

\* A running job is where its request and the words moved so far put it, in
\* the ranges of the registers of dma_master.v.
THEOREM BlockTypes == SpecH => []BlockTyped
<1>1. BlockInv => BlockTyped
  BY DEF BlockInv
<1> QED BY <1>1, BlockInvariant, PTL

\* The copy engine's words arrive: whatever the sizes, a job that does not
\* overwrite its own source moves the block it was given and nothing else.
THEOREM BlockIsCopied == SpecH => []CopiesBlock
<1>1. BlockInv => CopiesBlock
  BY DEF BlockInv
<1> QED BY <1>1, BlockInvariant, PTL
=============================================================================
