------------------------ MODULE AxiStreamDma_proofs ------------------------
(***************************************************************************)
(* The stream engine and its repeated requests, for every address space,   *)
(* every length and every configuration.                                   *)
(***************************************************************************)
EXTENDS AxiStreamDma, TLAPS

Asking == stream.state \in {"fill_wgt", "fill_act", "res_write"}

Reading == stream.state \in {"fill_wgt", "fill_act", "wgt_wait", "act_wait"}

\* A request on the bus is either one that has not been granted, with nothing
\* granted just before it, or the repetition of the one granted just now.
FirstOrRepeated ==
  stream.port.req =>
    \/ Asking /\ ~pipe[1].req
    \/ /\ stream.state \in {"wgt_wait", "act_wait", "drain_res", "idle"}
       /\ pipe[1].req /\ stream.port = pipe[1] /\ ~pipe[2].req

\* A request of a reading engine is for the word at curr_addr.
ReadsCurrentWord ==
  stream.port.req /\ Reading => ~stream.port.we /\ stream.port.addr = stream.addr

\* In the cycle after the grant the request is still up; from the next one
\* on the answer is there.
AnswerIsOnItsWay ==
  Waiting /\ ~stream.port.req => IsRead(pipe[2]) /\ pipe[2].addr = stream.addr

\* While a result word waits for its grant, it is the one asked for.
WritesCurrentWord ==
  stream.port.req /\ stream.state = "res_write" => stream.port = WritePort

IInv ==
  /\ TypeOK /\ FirstOrRepeated
  /\ ReadsCurrentWord /\ WritesCurrentWord /\ AnswerIsOnItsWay

LEMMA InvariantsFollow ==
  IInv => AnswersCurrentWord /\ RepeatsAtMostOnce
BY DEF IInv, TypeOK, Registers, Request, FirstOrRepeated, ReadsCurrentWord,
       AnswerIsOnItsWay, AnswersCurrentWord, RepeatsAtMostOnce,
       Waiting, Asking, Reading, IsRead

LEMMA NumberFacts ==
  /\ 0 \in Addr /\ 0 \in 0..StreamLenMod - 1
  /\ \A a \in Addr : NextAddr(a) \in Addr
  /\ AnyData \in Data /\ NoBeat \in Beat
  /\ NoRequest \in Request /\ NoRequest.req = FALSE
<1>1. \A a \in Int, m \in Nat \ {0} : a % m \in 0..m - 1
  OBVIOUS
<1>2. \A a \in Addr : NextAddr(a) \in Addr
  BY <1>1, MapAssumption DEF Addr, NextAddr
<1>3. 0 \in Addr /\ 0 \in 0..StreamLenMod - 1
  BY MapAssumption, ConfigAssumption DEF Addr
<1>4. AnyData \in Data
  BY MapAssumption DEF AnyData
<1>5. /\ NoRequest \in Request /\ NoRequest.req = FALSE
      /\ NoBeat \in Beat
  BY <1>3, <1>4 DEF NoRequest, Request, NoBeat, Beat
<1> QED BY <1>2, <1>3, <1>4, <1>5

LEMMA AfterWordTyped ==
  stream.left \in 0..StreamLenMod - 1 => AfterWord \in 0..StreamLenMod - 1
<1>1. \A a \in Int, m \in Nat \ {0} : a % m \in 0..m - 1
  OBVIOUS
<1>2. \A n \in 0..StreamLenMod - 1 : (n - 4) % StreamLenMod \in 0..StreamLenMod - 1
  BY <1>1, ConfigAssumption
<1> QED BY <1>2 DEF AfterWord

LEMMA InitInvariant == Init => IInv
<1> SUFFICES ASSUME Init PROVE IInv
  OBVIOUS
<1>1. stream \in Registers
  BY NumberFacts DEF Init, Init0, Registers, States
<1>3. stream.port = NoRequest /\ stream.state = "idle"
  BY DEF Init, Init0
<1>2. pipe \in [1..2 -> Request]
  BY NumberFacts DEF Init
<1> QED BY <1>1, <1>2, <1>3, NumberFacts DEF IInv, TypeOK, FirstOrRepeated, ReadsCurrentWord,
                         WritesCurrentWord, AnswerIsOnItsWay, Waiting

\* The defaults of the always block leave everything else as it was.
LEMMA QuietFacts ==
  ASSUME TypeOK
  PROVE  /\ Quiet \in Registers
         /\ Quiet.port.req = FALSE /\ Quiet.state = stream.state
         /\ Quiet.addr = stream.addr
BY DEF TypeOK, Quiet, Registers, Request, Beat

LEMMA ReadOf ==
  ASSUME NEW r \in Request, NEW a \in Addr
  PROVE  [r EXCEPT !.req = TRUE, !.we = FALSE, !.addr = a]
           = [req |-> TRUE, we |-> FALSE, addr |-> a, data |-> r.data]
<1> DEFINE x == [r EXCEPT !.req = TRUE, !.we = FALSE, !.addr = a]
           y == [req |-> TRUE, we |-> FALSE, addr |-> a, data |-> r.data]
<1>1. r.data \in Data
  BY DEF Request
<1>2. x \in Request /\ x.req = TRUE /\ x.we = FALSE /\ x.addr = a /\ x.data = r.data
  BY DEF Request
<1>3. y \in Request /\ y.req = TRUE /\ y.we = FALSE /\ y.addr = a /\ y.data = r.data
  BY <1>1 DEF Request
<1> HIDE DEF x, y
<1>4. x = y
  BY <1>2, <1>3 DEF Request
<1> QED BY <1>4 DEF x, y

\* The type of the registers after an edge of each kind.
LEMMA TickTyped ==
  ASSUME TypeOK, NEW start \in BOOLEAN, NEW abort \in BOOLEAN, NEW cfg \in Configs,
         NEW gnt \in BOOLEAN, NEW rvalid \in BOOLEAN, NEW rdata \in Data,
         NEW res \in ResultBeat,
         Tick(start, abort, cfg, gnt, rvalid, rdata, res)
  PROVE  stream' \in Registers
<1> DEFINE Q == Quiet
<1>0. /\ Q \in Registers /\ stream \in Registers
      /\ cfg.wgt \in Addr /\ cfg.act \in Addr /\ cfg.res \in Addr
      /\ cfg.lenWgt \in 0..StreamLenMod - 1 /\ cfg.lenAct \in 0..StreamLenMod - 1
      /\ res.data \in Data
  BY QuietFacts, ConfigAssumption DEF TypeOK, ResultBeat
<1>1. /\ NextAddr(stream.addr) \in Addr /\ AfterWord \in 0..StreamLenMod - 1
      /\ ReadPort \in Request /\ WritePort \in Request
  <2>1. /\ stream.addr \in Addr /\ stream.buffer \in Data
        /\ stream.left \in 0..StreamLenMod - 1 /\ stream.port \in Request
    BY <1>0 DEF Registers
  <2>2. ReadPort \in Request
    BY <2>1 DEF ReadPort, Request
  <2>3. WritePort \in Request
    BY <2>1 DEF WritePort, Request
  <2> QED BY <2>1, <2>2, <2>3, NumberFacts, AfterWordTyped
<1> HIDE DEF Q
<1> USE DEF Registers, States
<1>2. CASE Idle(start)
  BY <1>0, <1>2 DEF Idle, Q
<1>3. CASE Start(start, cfg)
  BY <1>0, <1>3 DEF Start, Q
<1>4. CASE WeightsFilled(cfg)
  BY <1>0, <1>4 DEF WeightsFilled, Q
<1>5. CASE FillWeights(gnt)
  BY <1>0, <1>1, <1>5 DEF FillWeights, Q
<1>6. CASE WeightWait(rvalid, rdata)
  <2>1. [valid |-> TRUE, data |-> rdata] \in Beat
    BY DEF Beat
  <2> QED BY <1>0, <1>1, <1>6, <2>1 DEF WeightWait, Q
<1>7. CASE ActivationsFilled
  BY <1>0, <1>7 DEF ActivationsFilled, Q
<1>8. CASE FillActivations(gnt)
  BY <1>0, <1>1, <1>8 DEF FillActivations, Q
<1>9. CASE ActivationWait(rvalid, rdata)
  <2>1. [valid |-> TRUE, data |-> rdata] \in Beat
    BY DEF Beat
  <2> QED BY <1>0, <1>1, <1>9, <2>1 DEF ActivationWait, Q
<1>10. CASE RunArray(cfg, res)
  BY <1>0, <1>10 DEF RunArray, Q
<1>11. CASE DrainResult(res)
  BY <1>0, <1>11 DEF DrainResult, Q
<1>12. CASE WriteResult(gnt)
  BY <1>0, <1>1, <1>12 DEF WriteResult, Q
<1>13. CASE ResultWritten(gnt, res)
  BY <1>0, <1>1, <1>13 DEF ResultWritten, Q
<1>14. CASE Abort
  BY <1>0, <1>14 DEF Abort, Q
<1> QED BY <1>2, <1>3, <1>4, <1>5, <1>6, <1>7, <1>8, <1>9, <1>10, <1>11, <1>12,
           <1>13, <1>14 DEF Tick

\* The relation of the request and the bus after an edge: what the bus has
\* accepted moves on, and the engine asks again or falls silent.
LEMMA TickInStep ==
  ASSUME IInv, NEW start \in BOOLEAN, NEW abort \in BOOLEAN, NEW cfg \in Configs,
         NEW gnt \in BOOLEAN, NEW rdata \in Data, NEW res \in ResultBeat,
         gnt => stream.port.req,
         Tick(start, abort, cfg, gnt, pipe[2].req /\ ~pipe[2].we, rdata, res),
         pipe' = <<IF gnt THEN stream.port ELSE NoRequest, pipe[1]>>
  PROVE  /\ pipe' \in [1..2 -> Request]
         /\ FirstOrRepeated' /\ ReadsCurrentWord'
         /\ WritesCurrentWord' /\ AnswerIsOnItsWay'
<1> DEFINE Q == Quiet
           Silent == stream'.port.req = FALSE /\ stream'.state \notin {"wgt_wait", "act_wait"}
<1>0. /\ Q \in Registers /\ stream \in Registers
      /\ Q.port.req = FALSE /\ Q.state = stream.state /\ Q.addr = stream.addr
      /\ Q.buffer = stream.buffer
      /\ stream.port \in Request /\ stream.port.req \in BOOLEAN
      /\ stream.port.we \in BOOLEAN /\ stream.addr \in Addr
  BY QuietFacts DEF IInv, TypeOK, Registers, Request, Quiet
<1>1. /\ pipe' \in [1..2 -> Request]
      /\ pipe'[2] = pipe[1]
      /\ gnt => pipe'[1] = stream.port
      /\ ~gnt => pipe'[1].req = FALSE
  BY <1>0, NumberFacts DEF IInv, TypeOK
<1>2. /\ ReadPort.req = TRUE /\ ReadPort.we = FALSE /\ ReadPort.addr = stream.addr
      /\ WritePort.req = TRUE /\ WritePort.we = TRUE
      /\ ReadPort = [req |-> TRUE, we |-> FALSE, addr |-> stream.addr,
                     data |-> stream.port.data]
  <2>1. ReadPort = [req |-> TRUE, we |-> FALSE, addr |-> stream.addr,
                    data |-> stream.port.data]
    BY <1>0, ReadOf DEF ReadPort
  <2>2. WritePort.req = TRUE /\ WritePort.we = TRUE
    BY DEF WritePort
  <2> QED BY <2>1, <2>2
<1>3. stream.port.req /\ Reading => stream.port = ReadPort
  BY <1>0, <1>2 DEF IInv, ReadsCurrentWord, Request
<1>4. stream.port.req /\ Asking => pipe[1].req = FALSE
  BY DEF IInv, TypeOK, Request, FirstOrRepeated, Asking
<1> HIDE DEF Q
<1> USE DEF FirstOrRepeated, ReadsCurrentWord, WritesCurrentWord, AnswerIsOnItsWay
<1>5. CASE Silent
  BY <1>1, <1>5 DEF Waiting
<1>6. CASE FillWeights(gnt) \/ FillActivations(gnt)
  <2>1. /\ Asking /\ Reading
        /\ stream'.port = ReadPort /\ stream'.addr = stream.addr
        /\ stream'.state # "res_write"
        /\ gnt => stream'.state \in {"wgt_wait", "act_wait"}
        /\ ~gnt => stream'.state \in {"fill_wgt", "fill_act"}
    BY <1>0, <1>6 DEF FillWeights, FillActivations, Asking, Reading, Q, Registers
  <2>2. CASE gnt
    BY <1>1, <1>2, <1>3, <1>4, <2>1, <2>2 DEF Waiting, Asking
  <2>3. CASE ~gnt
    BY <1>1, <1>2, <2>1, <2>3 DEF Waiting, Asking
  <2> QED BY <2>2, <2>3
<1>7. CASE WriteResult(gnt)
  <2>1. /\ stream'.port = WritePort /\ stream'.addr = stream.addr
        /\ stream'.buffer = stream.buffer /\ stream'.state = "res_write"
    BY <1>0, <1>7 DEF WriteResult, Q, Registers
  <2>2. WritePort' = WritePort
    BY <2>1 DEF WritePort
  <2> QED BY <1>1, <1>7, <2>1, <2>2 DEF WriteResult, Waiting, Asking, Reading
<1>8. CASE ResultWritten(gnt, res)
  <2>1. /\ stream'.port = WritePort /\ stream'.state \in {"idle", "drain_res"}
        /\ gnt /\ stream.state = "res_write"
    BY <1>0, <1>8 DEF ResultWritten, Q, Registers
  <2>2. stream.port = WritePort
    BY <2>1 DEF IInv
  <2> QED BY <1>1, <1>2, <1>4, <2>1, <2>2 DEF Waiting, Asking, Reading
<1>9. CASE WeightWait(pipe[2].req /\ ~pipe[2].we, rdata)
           \/ ActivationWait(pipe[2].req /\ ~pipe[2].we, rdata)
  <2>1. CASE IsRead(pipe[2])
    <3>1. Silent
      BY <1>0, <1>9, <2>1 DEF WeightWait, ActivationWait, IsRead, Q, Registers
    <3> QED BY <1>5, <3>1
  <2>2. CASE ~IsRead(pipe[2])
    <3>1. stream' = Q /\ Waiting /\ Reading
      BY <1>9, <2>2 DEF WeightWait, ActivationWait, IsRead, Q, Waiting, Reading
    <3>2. stream.port = ReadPort /\ pipe[1] = stream.port
      BY <1>3, <2>2, <3>1 DEF IInv, Waiting, Asking
    <3> QED BY <1>0, <1>1, <1>2, <3>1, <3>2 DEF Waiting, IsRead
  <2> QED BY <2>1, <2>2
<1>10. CASE \/ Idle(start) \/ Start(start, cfg) \/ WeightsFilled(cfg)
           \/ ActivationsFilled \/ RunArray(cfg, res) \/ DrainResult(res) \/ Abort
  <2>1. Silent
    <3> USE <1>0 DEF Q, Registers
    <3>1. CASE Idle(start)
      BY <3>1 DEF Idle
    <3>2. CASE Start(start, cfg)
      BY <3>2 DEF Start
    <3>3. CASE WeightsFilled(cfg)
      BY <3>3 DEF WeightsFilled
    <3>4. CASE ActivationsFilled
      BY <3>4 DEF ActivationsFilled
    <3>5. CASE RunArray(cfg, res)
      BY <3>5 DEF RunArray
    <3>6. CASE DrainResult(res)
      BY <3>6 DEF DrainResult
    <3>7. CASE Abort
      BY <3>7 DEF Abort
    <3> QED BY <1>10, <3>1, <3>2, <3>3, <3>4, <3>5, <3>6, <3>7
  <2> QED BY <1>5, <2>1
<1> QED BY <1>6, <1>7, <1>8, <1>9, <1>10 DEF Tick

LEMMA NextInvariant == IInv /\ [Next]_vars => IInv'
<1> SUFFICES ASSUME IInv, [Next]_vars PROVE IInv'
  OBVIOUS
<1>1. CASE ClockEdge
  <2> PICK start \in BOOLEAN, abort \in BOOLEAN, gnt \in BOOLEAN, cfg \in Configs,
           rdata \in Data, res \in ResultBeat :
        /\ gnt => stream.port.req
        /\ Tick(start, abort, cfg, gnt, pipe[2].req /\ ~pipe[2].we, rdata, res)
        /\ pipe' = <<IF gnt THEN stream.port ELSE NoRequest, pipe[1]>>
    BY <1>1 DEF ClockEdge
  <2>1. (pipe[2].req /\ ~pipe[2].we) \in BOOLEAN
    OBVIOUS
  <2>2. stream' \in Registers
    BY <2>1, TickTyped DEF IInv
  <2> QED BY <2>2, TickInStep DEF IInv, TypeOK
<1>2. CASE ResetEdge
  <2>1. stream' \in Registers
    BY <1>2, NumberFacts DEF ResetEdge, Reset, IInv, TypeOK, Registers, States
  <2>2. stream'.port = NoRequest /\ stream'.state = "idle"
    BY <1>2 DEF ResetEdge, Reset, IInv, TypeOK, Registers
  <2>3. pipe' \in [1..2 -> Request]
    BY <1>2, NumberFacts DEF ResetEdge
  <2> QED BY <2>1, <2>2, <2>3, NumberFacts
          DEF IInv, TypeOK, FirstOrRepeated, ReadsCurrentWord, WritesCurrentWord,
              AnswerIsOnItsWay, Waiting
<1>3. CASE UNCHANGED vars
  BY <1>3 DEF vars, IInv, TypeOK, FirstOrRepeated, ReadsCurrentWord, WritesCurrentWord,
              WritePort, AnswerIsOnItsWay, Waiting, Asking, Reading
<1> QED BY <1>1, <1>2, <1>3 DEF Next

LEMMA SpecInvariant == Spec => []IInv
BY InitInvariant, NextInvariant, PTL DEF Spec

\* The registers keep their types; bytes_left wraps inside its width when a
\* length is not a multiple of four.
THEOREM TypeCorrect == Spec => []TypeOK
<1>1. IInv => TypeOK
  BY DEF IInv
<1> QED BY <1>1, SpecInvariant, PTL

\* A wait of the engine ends with the word it waits for, although every word
\* may have been requested twice.
THEOREM RightAnswer == Spec => []AnswersCurrentWord
BY InvariantsFollow, SpecInvariant, PTL

\* A grant is repeated once at most, for the same transfer.
THEOREM OneRepetition == Spec => []RepeatsAtMostOnce
BY InvariantsFollow, SpecInvariant, PTL
=============================================================================
