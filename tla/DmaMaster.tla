----------------------------- MODULE DmaMaster -----------------------------
(***************************************************************************)
(* rtl/core/dma_master.v: the programmed-copy DMA.  It copies a job word   *)
(* by word, fetching from curr_src and storing to curr_dst, one request on *)
(* the bus at a time.                                                      *)
(*                                                                         *)
(* copy is the register file of the module; the fields are the source's    *)
(* registers, and port is its four bus outputs req_o, we_o, addr_o and     *)
(* wdata_o.  A field an action does not name keeps its value, as a         *)
(* register does.  The registers without a reset (curr_src, curr_dst,      *)
(* data_buffer, bytes_left and the bus payload) are written before they    *)
(* are used; Init gives them a fixed value.                                *)
(*                                                                         *)
(* One step is one rising clock edge.  waiting and granted describe the    *)
(* bus on the other side: whether a read has been accepted and not yet     *)
(* answered, and whether the last edge accepted a request.                 *)
(***************************************************************************)
EXTENDS MemoryMap

CONSTANTS
  LenMod,    \* bytes_left has 16 bits: LenMod is 2^16
  Jobs       \* the jobs dma_regs can hold: [src, dst : Addr, len : 0..LenMod-1]

ASSUME JobAssumption ==
  /\ LenMod \in Nat /\ LenMod > 4
  /\ Jobs \subseteq [src : Addr, dst : Addr, len : 0..LenMod - 1]

VARIABLES copy, waiting, granted

vars == <<copy, waiting, granted>>

States == {"idle", "fetch", "wait_r", "store", "done"}

Registers ==
  [state : States, busy : BOOLEAN, done : BOOLEAN, err : BOOLEAN,
   port : Request, src : Addr, dst : Addr, buffer : Data, left : 0..LenMod - 1]

Init0 ==
  copy = [state |-> "idle", busy |-> FALSE, done |-> FALSE, err |-> FALSE,
          port |-> NoRequest, src |-> 0, dst |-> 0, buffer |-> AnyData, left |-> 0]

Idle(start) ==
  /\ copy.state = "idle" /\ ~start
  /\ copy' = [copy EXCEPT !.done = FALSE]

Misaligned(job) == ~Aligned(job.src) \/ ~Aligned(job.dst)

Reject(start, job) ==
  /\ copy.state = "idle" /\ start /\ Misaligned(job)
  /\ copy' = [copy EXCEPT !.done = FALSE, !.err = TRUE]

Accept(start, job) ==
  /\ copy.state = "idle" /\ start /\ ~Misaligned(job)
  /\ copy' = [copy EXCEPT !.done = FALSE, !.src = job.src, !.dst = job.dst,
                          !.left = job.len, !.busy = TRUE, !.state = "fetch"]

FetchPort(req) == [copy.port EXCEPT !.req = req, !.we = FALSE, !.addr = copy.src]

\* Mutant of Fetch: the request stays up after its grant.
FetchHeld(gnt) ==
  /\ copy.state = "fetch"
  /\ copy' = [copy EXCEPT !.port = FetchPort(TRUE),
                          !.state = IF gnt THEN "wait_r" ELSE "fetch"]

\* Mutant of Fetch: the engine waits for the data without a grant.
FetchUngranted(gnt) ==
  /\ copy.state = "fetch"
  /\ copy' = [copy EXCEPT !.port = FetchPort(~gnt), !.state = "wait_r"]

Fetch(gnt) ==
  /\ copy.state = "fetch"
  /\ copy' = [copy EXCEPT !.port = FetchPort(~gnt),
                          !.state = IF gnt THEN "wait_r" ELSE "fetch"]

AwaitData(rvalid, rdata) ==
  /\ copy.state = "wait_r"
  /\ copy' = IF rvalid THEN [copy EXCEPT !.buffer = rdata, !.state = "store"]
                       ELSE copy

StorePort(req) == [req |-> req, we |-> TRUE, addr |-> copy.dst, data |-> copy.buffer]

StoreRequest(gnt) ==
  /\ copy.state = "store" /\ ~gnt
  /\ copy' = [copy EXCEPT !.port = StorePort(TRUE)]

\* Mutant of LastWord: a last whole word is not recognised.
LastWordBelow == copy.left < 4

LastWord == copy.left <= 4

\* Mutant of StoreGranted: the request stays up after its grant.
StoreGrantedHeld(gnt) ==
  /\ copy.state = "store" /\ gnt
  /\ copy' = [copy EXCEPT !.port = StorePort(TRUE),
                          !.src = NextAddr(copy.src), !.dst = NextAddr(copy.dst),
                          !.left = IF LastWord THEN copy.left ELSE copy.left - 4,
                          !.state = IF LastWord THEN "done" ELSE "fetch"]

StoreGranted(gnt) ==
  /\ copy.state = "store" /\ gnt
  /\ copy' = [copy EXCEPT !.port = StorePort(FALSE),
                          !.src = NextAddr(copy.src), !.dst = NextAddr(copy.dst),
                          !.left = IF LastWord THEN copy.left ELSE copy.left - 4,
                          !.state = IF LastWord THEN "done" ELSE "fetch"]

Finish ==
  /\ copy.state = "done"
  /\ copy' = [copy EXCEPT !.busy = FALSE, !.done = TRUE, !.state = "idle"]

\* The always block, given the inputs of this cycle.
Tick(start, job, gnt, rvalid, rdata) ==
  \/ Idle(start)
  \/ Reject(start, job)
  \/ Accept(start, job)
  \/ Fetch(gnt)
  \/ AwaitData(rvalid, rdata)
  \/ StoreRequest(gnt)
  \/ StoreGranted(gnt)
  \/ Finish

Reset ==
  copy' = [copy EXCEPT !.state = "idle", !.busy = FALSE, !.done = FALSE,
                       !.err = FALSE, !.port.req = FALSE]

-----------------------------------------------------------------------------
(* The bus: it accepts what is requested, whenever it likes, and answers a *)
(* read later, once.                                                       *)

Bus(gnt, rvalid) ==
  /\ gnt => copy.port.req
  /\ rvalid => waiting
  /\ waiting' = ((waiting /\ ~rvalid) \/ (gnt /\ ~copy.port.we))
  /\ granted' = gnt

Init == Init0 /\ waiting = FALSE /\ granted = FALSE

ClockEdge ==
  \E start, gnt, rvalid \in BOOLEAN, job \in Jobs, rdata \in Data :
    Tick(start, job, gnt, rvalid, rdata) /\ Bus(gnt, rvalid)

ResetEdge == Reset /\ waiting' = FALSE /\ granted' = FALSE

Next == ClockEdge \/ ResetEdge

Spec == Init /\ [][Next]_vars

-----------------------------------------------------------------------------
\* Every register stays within its width.
TypeOK ==
  /\ copy \in Registers
  /\ waiting \in BOOLEAN
  /\ granted \in BOOLEAN

\* The engine waits for data exactly while a read of its own is unanswered:
\* no response finds it elsewhere, where dma_master.v:65-70 would drop it, and
\* it never waits for an answer that will not come.
WaitsForItsRead == waiting <=> copy.state = "wait_r"

\* What the engine asks for in a cycle is the transfer of its state: a read
\* of the word at curr_src, or a store of data_buffer to curr_dst.
AsksForCurrentWord ==
  copy.port.req =>
    \/ copy.state = "fetch" /\ ~copy.port.we /\ copy.port.addr = copy.src
    \/ /\ copy.state = "store" /\ copy.port.we
       /\ copy.port.addr = copy.dst /\ copy.port.data = copy.buffer

\* A request is held unchanged until the cycle of its grant and is gone in
\* the next one, so that the arbiter sees each transfer exactly once
\* (dma_master.v:55-63, 72-88).  A reset withdraws it.
HeldUntilGranted ==
  [][copy.port.req =>
       IF granted' THEN ~copy'.port.req
                   ELSE copy'.port = copy.port \/ ~copy'.busy]_vars
=============================================================================
