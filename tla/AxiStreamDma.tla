---------------------------- MODULE AxiStreamDma ----------------------------
(***************************************************************************)
(* rtl/accel/axi_stream_dma.v: the DMA of the accelerator.  After a start  *)
(* it reads the weights and then the activations from the system SRAM and  *)
(* hands each word to the array on its stream; then it waits for the       *)
(* result stream and writes every result word back, until tlast.           *)
(*                                                                         *)
(* stream is the register file of the module.  port is its bus output,     *)
(* wgt and act are its two output streams (tvalid, tdata), addr, left and  *)
(* buffer are curr_addr, bytes_left and wdata_buf.                         *)
(*                                                                         *)
(* One step is one rising clock edge.  pipe is the memory on the other     *)
(* side, as rtl/core/mem_subsystem.v answers: a read accepted in one cycle *)
(* is answered in the second cycle after it.  pipe[1] is the request that  *)
(* the last edge accepted, pipe[2] the one that the edge before accepted,  *)
(* whose answer is due in this cycle if it was a read.                     *)
(***************************************************************************)
EXTENDS MemoryMap

CONSTANTS
  StreamLenMod,   \* bytes_left has 32 bits: StreamLenMod is 2^32
  Configs         \* what mac_cfg_regs can hold for the engine

ASSUME ConfigAssumption ==
  /\ StreamLenMod \in Nat \ {0} /\ StreamLenMod % 4 = 0
  /\ Configs \subseteq
       [wgt : Addr, act : Addr, res : Addr,
        lenWgt : 0..StreamLenMod - 1, lenAct : 0..StreamLenMod - 1]

VARIABLES stream, pipe

vars == <<stream, pipe>>

States == {"idle", "fill_wgt", "wgt_wait", "fill_act", "act_wait",
           "run_array", "drain_res", "res_write"}

Beat == [valid : BOOLEAN, data : Data]

NoBeat == [valid |-> FALSE, data |-> AnyData]

Registers ==
  [state : States, busy : BOOLEAN, wgtDone : BOOLEAN, actDone : BOOLEAN,
   resDone : BOOLEAN, port : Request, wgt : Beat, act : Beat,
   resReady : BOOLEAN, addr : Addr, left : 0..StreamLenMod - 1, buffer : Data]

Init0 ==
  stream = [state |-> "idle", busy |-> FALSE, wgtDone |-> FALSE,
            actDone |-> FALSE, resDone |-> FALSE, port |-> NoRequest,
            wgt |-> NoBeat, act |-> NoBeat, resReady |-> FALSE,
            addr |-> 0, left |-> 0, buffer |-> AnyData]

\* The defaults of the always block: outputs that are not driven go low.
Quiet == [stream EXCEPT !.port.req = FALSE, !.wgt.valid = FALSE,
                        !.act.valid = FALSE, !.resReady = FALSE]

Idle(start) ==
  /\ stream.state = "idle" /\ ~start
  /\ stream' = Quiet

Start(start, cfg) ==
  /\ stream.state = "idle" /\ start
  /\ stream' = [Quiet EXCEPT !.busy = TRUE, !.wgtDone = FALSE, !.actDone = FALSE,
                             !.resDone = FALSE, !.addr = cfg.wgt,
                             !.left = cfg.lenWgt, !.state = "fill_wgt"]

ReadPort == [stream.port EXCEPT !.req = TRUE, !.we = FALSE, !.addr = stream.addr]

WeightsFilled(cfg) ==
  /\ stream.state = "fill_wgt" /\ stream.left = 0
  /\ stream' = [Quiet EXCEPT !.wgtDone = TRUE, !.addr = cfg.act,
                             !.left = cfg.lenAct, !.state = "fill_act"]

\* Mutant of FillWeights: the engine waits for the data without a grant.
FillWeightsUngranted(gnt) ==
  /\ stream.state = "fill_wgt" /\ stream.left # 0
  /\ stream' = [Quiet EXCEPT !.port = ReadPort, !.state = "wgt_wait"]

\* m_req_o is set in the cycle of the grant too: the request is on the bus
\* for one cycle more.
FillWeights(gnt) ==
  /\ stream.state = "fill_wgt" /\ stream.left # 0
  /\ stream' = [Quiet EXCEPT !.port = ReadPort,
                             !.state = IF gnt THEN "wgt_wait" ELSE "fill_wgt"]

AfterWord == (stream.left - 4) % StreamLenMod

WeightWait(rvalid, rdata) ==
  /\ stream.state = "wgt_wait"
  /\ stream' = IF rvalid
                 THEN [Quiet EXCEPT !.wgt = [valid |-> TRUE, data |-> rdata],
                                    !.addr = NextAddr(stream.addr),
                                    !.left = AfterWord, !.state = "fill_wgt"]
                 ELSE Quiet

ActivationsFilled ==
  /\ stream.state = "fill_act" /\ stream.left = 0
  /\ stream' = [Quiet EXCEPT !.actDone = TRUE, !.state = "run_array"]

FillActivations(gnt) ==
  /\ stream.state = "fill_act" /\ stream.left # 0
  /\ stream' = [Quiet EXCEPT !.port = ReadPort,
                             !.state = IF gnt THEN "act_wait" ELSE "fill_act"]

ActivationWait(rvalid, rdata) ==
  /\ stream.state = "act_wait"
  /\ stream' = IF rvalid
                 THEN [Quiet EXCEPT !.act = [valid |-> TRUE, data |-> rdata],
                                    !.addr = NextAddr(stream.addr),
                                    !.left = AfterWord, !.state = "fill_act"]
                 ELSE Quiet

RunArray(cfg, res) ==
  /\ stream.state = "run_array"
  /\ stream' = IF res.valid THEN [Quiet EXCEPT !.addr = cfg.res, !.state = "drain_res"]
                            ELSE Quiet

\* Mutant of DrainResult: the request is not withdrawn by default.
DrainResultHeld(res) ==
  /\ stream.state = "drain_res"
  /\ stream' = IF res.valid
                 THEN [stream EXCEPT !.resReady = TRUE, !.buffer = res.data,
                                     !.state = "res_write"]
                 ELSE [stream EXCEPT !.resReady = TRUE]

DrainResult(res) ==
  /\ stream.state = "drain_res"
  /\ stream' = IF res.valid
                 THEN [Quiet EXCEPT !.resReady = TRUE, !.buffer = res.data,
                                    !.state = "res_write"]
                 ELSE [Quiet EXCEPT !.resReady = TRUE]

WritePort == [req |-> TRUE, we |-> TRUE, addr |-> stream.addr, data |-> stream.buffer]

WriteResult(gnt) ==
  /\ stream.state = "res_write" /\ ~gnt
  /\ stream' = [Quiet EXCEPT !.port = WritePort]

ResultWritten(gnt, res) ==
  /\ stream.state = "res_write" /\ gnt
  /\ stream' =
       IF res.last
         THEN [Quiet EXCEPT !.port = WritePort, !.addr = NextAddr(stream.addr),
                            !.resDone = TRUE, !.busy = FALSE, !.state = "idle"]
         ELSE [Quiet EXCEPT !.port = WritePort, !.addr = NextAddr(stream.addr),
                            !.state = "drain_res"]

Abort ==
  stream' = [Quiet EXCEPT !.state = "idle", !.busy = FALSE]

\* The always block, given the inputs of this cycle: gnt and rvalid come from
\* the arbiter, rdata from the memory, res is the result stream of core 0.
Tick(start, abort, cfg, gnt, rvalid, rdata, res) ==
  \/ abort /\ Abort
  \/ /\ ~abort
     /\ \/ Idle(start)
        \/ Start(start, cfg)
        \/ WeightsFilled(cfg)
        \/ FillWeights(gnt)
        \/ WeightWait(rvalid, rdata)
        \/ ActivationsFilled
        \/ FillActivations(gnt)
        \/ ActivationWait(rvalid, rdata)
        \/ RunArray(cfg, res)
        \/ DrainResult(res)
        \/ WriteResult(gnt)
        \/ ResultWritten(gnt, res)

\* curr_addr, bytes_left and wdata_buf have no reset.
Reset ==
  stream' = [stream EXCEPT !.state = "idle", !.busy = FALSE, !.wgtDone = FALSE,
                           !.actDone = FALSE, !.resDone = FALSE, !.port = NoRequest,
                           !.wgt = NoBeat, !.act = NoBeat, !.resReady = FALSE]

-----------------------------------------------------------------------------
(* The bus: it grants what is requested when it likes and answers each     *)
(* read, with the data of some word, in the second cycle after.            *)

ResultBeat == [valid : BOOLEAN, last : BOOLEAN, data : Data]

Init == Init0 /\ pipe = <<NoRequest, NoRequest>>

\* soc_top.v:145 ties abort_i low; here it may be raised at any time.
ClockEdge ==
  \E start, abort, gnt \in BOOLEAN, cfg \in Configs, rdata \in Data, res \in ResultBeat :
    /\ gnt => stream.port.req
    /\ Tick(start, abort, cfg, gnt, pipe[2].req /\ ~pipe[2].we, rdata, res)
    /\ pipe' = <<IF gnt THEN stream.port ELSE NoRequest, pipe[1]>>

ResetEdge == Reset /\ pipe' = <<NoRequest, NoRequest>>

Next == ClockEdge \/ ResetEdge

Spec == Init /\ [][Next]_vars

-----------------------------------------------------------------------------
\* Every register stays within its width.
TypeOK ==
  /\ stream \in Registers
  /\ pipe \in [1..2 -> Request]

Waiting == stream.state \in {"wgt_wait", "act_wait"}

IsRead(request) == request.req /\ ~request.we

\* The engine never waits for data that does not come, and the answer that
\* ends its wait is the word at curr_addr.  The request is on the bus for a
\* cycle too long, so every word can be read twice; the second answer must
\* find the engine out of its wait states (axi_stream_dma.v:115-163).
AnswersCurrentWord ==
  Waiting =>
    \/ IsRead(pipe[2]) /\ pipe[2].addr = stream.addr
    \/ ~IsRead(pipe[2]) /\ IsRead(pipe[1]) /\ pipe[1].addr = stream.addr

\* The cycle too many can only repeat the transfer that was just granted,
\* word for word, and there is no third one: a word of the result is written
\* twice to the same place at worst, even when busy_o has already fallen
\* (axi_stream_dma.v:181-196).
RepeatsAtMostOnce ==
  stream.port.req /\ pipe[1].req => stream.port = pipe[1] /\ ~pipe[2].req
=============================================================================
