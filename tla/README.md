# Mini-MaC: models, checks and proofs

TLA+ modules of Mini-MaC, a small SoC, and of the tools it is verified with. The
SoC is a RISC-V core (lowRISC Ibex), a boot ROM, a system SRAM, a DMA engine that
copies blocks, and a matrix accelerator (MAC) with a DMA engine of its own. Two
parts of the repository are modelled:

- **the hardware** that moves data: both engines, the arbiter between them, the
  memory subsystem they meet in, the registers and buses software reaches them
  through, and the composition of these;
- **the Python flow** that decides whether the design is right: the conductor of
  the formal proofs, the verification regression with its locked metadata, and the
  scripts the verdicts depend on (tool requirements, configurations, choice of
  tests, generated programs, simulation logs, the golden model of the array).

TLC checks them on small instances and TLAPS proves the main results for all of
them. Verilog lines are quoted as `file.v:line`, a bare file name being the one
below `rtl/`. Python files are in `rtl/core/ibex`: `conductor.py` in `dv/formal`,
the regression's scripts in `dv/uvm/core_ibex/scripts`, `ibex_config.py` and
`check_tool_requirements.py` in `util`, `ibex_log_to_trace_csv.py` in
`dv/uvm/core_ibex/riscv_dv_extension`; `golden_model.py` is in `dv/mac`.

## 1. Inventory

### The hardware

| part | file | state | operations |
|---|---|---|---|
| SoC interconnect | `soc_top.v` | reset synchroniser, last granted target | decodes the address of the core and of the DMA, chooses the response of the core |
| DMA arbiter | `core/dma_arbiter.v` | turn, owner queue (2 entries) and its count | grant one of two clients, push an owner at a read's grant, pop at a response |
| Copy DMA | `core/dma_master.v` | 5-state machine, source, destination, bytes left, buffer, bus port, busy/done/err | start, reject, read a word, write a word, finish |
| Copy DMA registers | `core/dma_regs.v` | source, destination, length, done flag | APB reads and writes, start pulse, acknowledge |
| Stream DMA | `accel/axi_stream_dma.v` | 8-state machine, address, bytes left, buffer, bus port, three streams, flags | fill weights, fill activations, wait for the array, drain results, abort |
| Memory subsystem, data side | `core/mem_subsystem.v` | SRAM, its output register, response pipeline, round robin pointer | grant CPU, MAC port or DMA; one access per cycle |
| Memory subsystem, fetch side | `core/mem_subsystem.v`, `core/boot_rom.v` | one response slot | accept a fetch, answer it |
| SRAM macro model | `macros/sram_wrapper.v` | words and output register | read or write per clock |
| Banked SRAM | `macros/sram_wrapper_banked_4096x32.v` | four banks | as above; used by its own bench only |
| OBI to APB bridge, APB bus | `bus/obi_to_apb.v`, `bus/apb_bus.v` | bridge state machine | one peripheral access at a time |
| MAC registers | `accel/mac_cfg_regs.v` | control, dimensions, addresses, lengths, flags | APB reads and writes, start and abort pulses |
| MAC core, array | `accel/mac_core_axi.v`, `accel/systolic_array.v`, `accel/pe.v` | buffers, counters, state machine, partial sums | load, compute, drain |
| Multi-core wrapper | `accel/mac_multicore.v` | per-core done registers | broadcast of the inputs, the collective done |
| Telemetry | `core/telemetry.v` | counters and their snapshot | count, capture, APB reads |
| Boot firmware | `dv/xcelium/firmware.S`, `build_firmware.py` | (core) | programs the MAC, polls, checks the results |
| Ibex | `core/ibex` | vendored | |

`core/mem_arbiter.v`, `accel/mac_counters.v` and `sanity_check.v` are
instantiated nowhere. `dv/` holds benches and the golden model of the array,
`apr/ syn/ sta/ constraints/ tech/` the physical flow.

**How the parts interact.** Everything runs on one clock. The core fetches from
the ROM and loads and stores through `soc_top`, which sends an access either to
the memory subsystem or through the bridge to the peripherals. A store to a
register block gives a start pulse to one of the engines. Each engine holds
`req`/`we`/`addr`/`wdata` registers; the arbiter passes one of the two requests,
combinationally, to the memory's single DMA port, returns the grant to its
owner, and routes the read responses, which carry no identity, by a queue of
owners. The memory serves the core first, then the MAC ports (tied off in
`soc_top`), then the DMA, and gives everybody the same output register as read
data. The stream engine hands the words it reads to the array and stores the
array's results.

**What is hard.** Several state machines meet in one cycle, and each sees the
others' values of before the edge: a request that stays up a cycle too long, an
answer one cycle later than the comments say, a queue that is pushed and popped
in the same cycle, an output register that the next access overwrites, a
fairness that depends on a turn bit, a copy whose source and destination
overlap, a request that nobody can grant, a level that is looked at in the wrong
cycle, a flag that is not sticky. The directed benches run each engine with a
memory model that is kinder than the real one. `PROJECT.json` lists these
hazards at their lines.

**What makes each part correct.**

- Arbiter: a response reaches the client that made the read; the owner queue
  does not overflow; a waiting client is passed over at most once.
- Copy engine: every transfer is requested once and held until granted; the
  engine waits for data exactly while a read of its own is unanswered; a job
  moves its block and touches nothing else; a job ends.
- Stream engine: the answer taken is the answer to the word waited for; a
  repeated transfer does no harm; the engine gets its inputs; every result is
  stored, and the engine stops after the last.
- Memory: at most one master served per cycle, so that what it finds in the
  output register in the next is its own word; a read returns the word it read;
  a MAC master is not starved by the others; a fetch is answered once, with its
  word.
- Registers and bridge: a write takes effect once; a done flag belongs to the
  job started last.
- Accelerator: the results are the matrix product, for every dimension the
  registers can hold; the collective done is raised.
- Telemetry: a snapshot is of one cycle.

### The Python flow

| part | file | state | operations |
|---|---|---|---|
| Process runner | `conductor.py:90-288` | queue, running processes, the flags of each process, futures | queue a command, poll: evict, start, time out, kill, complete |
| Proof conductor | `conductor.py:290-790` | coroutines, AIGER files in `build/`, `strategies/step<n>.json` | explore and store strategies, prove what is stored, bounded checks, print |
| Regression metadata | `metadata.py`, `scripts_lib.py`, `test_run_result.py` | `metadata.pickle` with a file lock, one pickle and `trr.yaml` per test | create, update under the lock, read without it, choose the tests |
| Regression flow | `run_instr_gen.py`, `compile_test.py`, `run_rtl.py`, `check_logs.py`, `collect_results.py`, `compile_tb.py`, `build_instr_gen.py`, `get_fcov.py`, `merge_cov.py`, the `.mk` files | stamps, programs, logs, records | one script per target of make, many at a time |
| Log processing | `ibex_log_to_trace_csv.py` | none | verdict on a log, conversion of a trace |
| Configurations, choice of tests | `ibex_config.py`, `ibex_cmd.py` | none | parse, check, pass to a simulator, filter tests |
| Tool requirements | `check_tool_requirements.py` | none | compare versions, exit status |
| Golden model | `golden_model.py` | none | eight cycles of the array |
| Reports, test list tools, riscv-dv interface, text filters | `report_lib/`, `gen_testlist.py`, `riscvdv_interface.py`, `syn/python` and others | none | formatting |

**How the parts interact.** The conductor is one process with an event loop:
coroutines queue shell commands and await futures that the runner's poll, a timer
callback, completes; they share the build directory and a counter of file names.
The regression has no process of its own: make starts a script for each target, as
many at a time as it likes, and the scripts meet in files. `metadata.pickle` is
changed under a lock by six of them and read without it by the scripts of the
tests; each test has a record of its own, emptied and written again by each of its
scripts in turn. The commands of the conductor are children that nothing kills when
it ends, so those of one start can meet the next in the build directory.
make looks at modification times only.

**What is hard.** Commands that end, are evicted, time out and are cancelled
between two polls; an order of commands that goes through two lists in both
directions; files that are shared, torn by a kill, or newer than what they should
be made from; a verdict that is written over an older one; exceptions that nobody
handles; success that is reported although something was skipped.

**What makes each part correct.**

- Process runner: while a start lasts no command runs that is not polled, and none is
  lost; commands keep their order; one always runs to its end.
- Conductor: what is stored was proved; success means that everything was proved in
  this run; every start ends. Of the code the first two are true but for the files that
  commands of an earlier start write, the third but for a command that does not fit
  (section 6).
- Metadata: nothing that was recorded is lost; the file is only there when the
  records of the tests are, and these can be loaded. The last is true but for a record
  whose export a kill has cut short.
- Flow: a verdict is that of the log it was made from; make ends well only if all
  tests passed; a regression ends.
- Scripts: see their properties in section 4.

## 2. Conventions of the models

- **One step is one rising clock edge.** A module's state is its registers; a
  `case` arm of an `always` block is an action, an `assign` is an operator.
  `Tick(inputs)` is the whole `always` block, and reads the unprimed values of
  everything.
- The registers of an engine are one record (`copy`, `stream`), updated with
  `EXCEPT`, as the `always` block assigns some registers and keeps the rest.
- **Reset** is an action that may happen at any edge. Registers without a reset
  branch keep their values, and the SRAM keeps its words.
- Each component module is closed by an environment that may do anything its
  interface allows: clients that ask for anything in any cycle, a memory that
  grants and answers when it likes. `DmaSystem` instantiates the same `Tick`,
  `Reset` and `Init0`, wires them to each other, and checks the component's
  whole specification as a property of the system. What is shown of a component
  alone therefore holds in the system.
- **Ghosts** (history variables) remember the past and influence nothing:
  `flight`, `passed`, `waiting`, `granted`, `pipe`, `promised`, `outstanding`,
  `before`, `request`; in the Python flow `proven`, `rewritten`, `recorded`, `hist`.
  Each header says what its ghosts are.
- Words are abstract (`Data`), addresses are numbers modulo `AddrMod`, because
  the address counters wrap, and the map is decoded as in the source: page,
  word index modulo the depth, local window, alignment. The byte lanes of a
  store of the core are abstracted: it leaves *some* word.
- **The Python flow.** One step is what no other actor can interleave with: a
  callback of the event loop, a coroutine up to its next `await`, one of the file
  operations of a script. Programs that are called (engines, simulators, compilers,
  make, riscv-dv) are external: they end in any of the ways the scripts tell apart.
  A kill may come at any point, also within a step of a script that nobody else can see
  the middle of: `Kill` then chooses among the states it can be cut off in. Scripts that
  keep no state are operators, called on
  every input of a bounded set and compared with a definition of what they are for.
- An operator whose comment begins with *Mutant of* is a plausible bug, used to
  see that a property can fail; nothing refers to it.

## 3. Modules

| module | models | notes |
|---|---|---|
| `MemoryMap` | the data-side address map, the request on a port | constants with `MapAssumption` |
| `DmaArbiter` | `dma_arbiter.v` | `PushOwner`, `PopOwner`, `ReplaceOwner`, `KeepOwners` are the arms of the `case` at lines 63-85, `TurnOver` is lines 60-61 |
| `DmaMaster` | `dma_master.v` | one action per state and outcome; `Reject` is the misaligned start |
| `AxiStreamDma` | `axi_stream_dma.v` | one action per state and outcome; `Quiet` is the default assignments of lines 96-100, which clear the request one edge after the grant |
| `DataPort` | data side of `mem_subsystem.v` with `sram_wrapper.v` | `Arbitrated` is the one-hot multiplexer; `ResponseTick` the two-cycle response |
| `InstrPort` | fetch side of `mem_subsystem.v` with `boot_rom.v` | `Accept`, `Release` |
| `WordCopy` | what a copy job promises: words moved one by one, in order, nothing else touched | abstract specification; no bus, no clock |
| `PeripheralBus` | `obi_to_apb.v`, `apb_bus.v`, `dma_regs.v`, the response multiplexer of `soc_top.v`, the core's data port, with `DmaMaster` | composition of the software's side of the copy engine; the memory is only the answer in the next cycle, the other peripherals only an address and some read data |
| `CopiedBlock` | `WordCopy` with the job and the memory it began in as history | says what the word-by-word copy amounts to, overlaps included |
| `DmaSystem` | both engines, arbiter, memory, gate of `soc_top.v:183`, core as a load/store unit | composition; refinement mapping to `WordCopy` |
| `ProcessRunner` | `conductor.py:90-288`: `Process`, `ProcessFuture`, `ProcessRunner` | `Poll` is one call of `poll`: its three loops as the number of evictions, the number of starts, and what then ends; `orphans` are the commands of earlier starts that still run |
| `JobLine` | what the runner promises of the order of commands: a line, of which a front part runs | abstract specification, implemented by `ProcessRunner` with the running commands before the reversed queue |
| `Conductor` | `conductor.py:290-790`, modes explore and prove, over the runner | a batch is one `gather`; the main coroutine is an action for each stretch between two awaits |
| `LockedMetadata` | `class LockedMetadata` and `export` | opening for writing empties the file, so writing is two steps |
| `Regression` | the scripts of the regression under the rules of the `.mk` files, over `LockedMetadata` | `old` is what make finds out of date: missing, or older than a prerequisite |
| `SimulationLog` | `ibex_log_to_trace_csv.py` | a line of a log is the marker it holds |
| `ToolRequirements` | `check_tool_requirements.py` | a version is its numbers |
| `IbexConfigs` | `ibex_config.py`, `ibex_cmd.py`, the choice of tests in `metadata.py:260-333` | |
| `InstrGen` | relocation and copying in `run_instr_gen.py` | a path is the sequence of its components |
| `GoldenModel` | `golden_model.py` | sums are integers: none reaches 2^31 |
| `Scripts` | calls of the five modules before it and of `SimulationLog` | one variable, the script called and its input |
| `*_proofs` | inductive invariants and proofs | `MemSubsystem_proofs` is about `DataPort` and `InstrPort`, `DmaMaster_proofs` about `DmaMaster` and `CopiedBlock`, `DmaSystem_proofs` about `DmaSystem`, `Regression_proofs` about `LockedMetadata`, `Regression` and the scripts, `Conductor_proofs` about `ProcessRunner` and `Conductor` |
| `MC*` | values of the constants for TLC | |

The core in `DmaSystem` is what `soc_top` lets it be: Ibex's load/store unit has
one access outstanding. It asks for the SRAM in one cycle, or in two in a row for
a misaligned access, is granted at once, gets its answer in the next cycle, and
only then asks again. A start pulse follows a store of the core to a peripheral
and comes with that store's response, so the core has no request at the memory in
that cycle, and it starts one engine at a time (`CanStart`). The result stream of
the array is arbitrary, but it marks a last result before the results run out of
the system SRAM (`Results`), which the firmware's layout guarantees.

`PeripheralBus` closes the other side of the same core: it may access anything in
any order, with the second half of a misaligned access requested while the first is
being answered. Left out is a misaligned access that starts in the last word of the
peripheral page and ends behind it: its second half would be granted and answered by
the memory while the bridge still holds the first, and `soc_top.v:285` would drop or
mistake the answer. The page has no register there.

What software writes to the copy engine is followed by `lastStart`. A start that is
written while `busy_o` is up is `overrun`: the engine does not see it, but
`dma_regs.v:63` clears the done flag, and the next done is that of the old job. The
properties speak of the others, the clean ones, and say that for these the flag can be
trusted.

In `Conductor` a batch is one coroutine per block, in an order that comes from a set
(`conductor.py:586`) or from the time proofs took (484) and is that of any of `Ranks`. The
coroutines of `race` with more than one engine are the first, which
queues its command, and the second, whose exception ends the main coroutine: every
wrapper reads the loop variable `task` when it runs (`conductor.py:76-81`). When the
conductor ends (`Leave`), what runs becomes an orphan: it uses memory, nobody polls it, and
an `aig-manip` writes its file when it ends, `build/aiger-<n>.aig`, whose numbers every
start counts from zero (`OrphanEnds`). An engine that is running then has read the file
before or after; `read` keeps what it has read, and its answer is about that. `proven` has
the blocks that were answered UNSAT, `rewritten` those whose file an orphan wrote while
it was in use. Killing a command, with `Popen.kill`, is taken to end it: it is started
through a shell (`shell=True`) that is taken to be replaced by the command.

In `Regression` the time of a file is abstracted to `old`; a recipe that fails stops make
from starting others and the running ones end. `trr[t]` is the record of a test: absent,
torn, or whole with its verdict and failure mode. A script of a test is a step for its
beginning and one for its end; nobody else reads its files in between. A kill cuts every
running script off in one of the states it goes through (`LeftOf`): `export` has emptied the
record and not written it (`scripts_lib.py:304-305`), the simulator has opened the log or not,
`run_rtl` has written a `trr.yaml` after it (`run_rtl.py:116`), make has removed the target it
was making or had no time to. A simulator that does not start is not noticed
(`run_rtl.py:105-110`): its log and trace are those of before (`NotStarted`), but with VCS,
where the log is the script's own output, which is new.
`MCRegression` puts `Scripts` and
`Regression` into one run: a script is called before make is ever started or make is
started, and the two parts share no variable.

## 4. Runs

| run | cfg | question |
|---|---|---|
| `arbiter` | `MCDmaArbiter` | does every response find its owner, whatever the memory's delay, and is a waiting client passed over at most once? |
| `copy_engine` | `MCDmaMaster` | is each transfer of the copy engine asked for once, held, and waited for exactly while it is on its way? |
| `stream_engine` | `MCAxiStreamDma` | does the stream engine, whose request is up a cycle too long, take the right answers, and repeat a transfer at most once, exactly? |
| `data_port` | `MCDataPort` | is a read answered with its word when nobody else is served in between, do the core and the MAC ports find the word of their own access, and are MAC ports treated fairly? |
| `peripheral_bus` | `MCPeripheralBus` | is every access of the core answered once, in order and from its side, and can software trust the busy and done bits of the copy engine? |
| `instr_port` | `MCInstrPort` | is each fetch answered once, with the word at the accepted address? |
| `copied_block` | `MCCopiedBlock` | does moving the words in order copy the block, for every overlap? |
| `dma_system` | `MCDmaSystem` | do the components meet each other's assumptions, does the owner queue follow the real pipeline, and do both engines make progress? |
| `copy_moves_words` | `MCCopyMoves` | do engine, arbiter, memory pipeline and SRAM implement `WordCopy`? |
| `read_data` | `MCReadData` | (violated) does read data belong to the read it answers? |
| `conductor` | `MCConductor` | do commands keep their order, does none run unpolled while its start lasts, is only stored what was proved, and is success honest, beside the commands of an earlier start? Does every start end, and if not, what holds it up, and for how long? |
| `regression` | `MCRegression` | does the metadata lose nothing, are verdicts those of their logs, is success earned, and does every regression end? And do the scripts without state compute what they are for? |

What the six script properties say: a set of tools is accepted if and only if each is
recent, or, of VCS, counts as such (`ToolVerdictIsExact`, section 6); every field of a
configuration reaches the simulator in exactly one stage (`FieldsReachSimulator`); the
tests that are asked for and supported are run (`SupportedTestsRun`); a log passes if
and only if it reports a pass and no failure, and no error before (`LogVerdict`); what
is generated is found where it is looked for (`CopiesWhatWasWritten`); the golden model
computes a banded sum, not a matrix product (`GoldenIsBanded`).

**Bounds, and why they are enough.** The bounds are the constants; no counter of
the hardware is cut off by a guard. In the Python flow `MaxLaunches`, `MaxMakes` and
`MaxEdits` bound how often something is started or edited, and `JobId` and `MaxFiles` the
blocks of a batch and the files of a start, beyond which a batch is not begun.

- `arbiter`: all requests `req`/`we`. The queue holds two owners, so all its
  fillings, pushes, pops and the two together occur, and the fifth grant is like
  the first.
- `copy_engine`: addresses modulo 32, lengths 0, 3, 4, 5, 8, 12 and 9 across the
  end of the address space, both misalignments. The engine compares the length
  with four only, so three words contain first, middle and last word.
- `stream_engine`: a configuration with two weights and one activation, and one
  whose activation length, six bytes, is no multiple of four, so that the counter
  wraps (modulo 16) and reading never ends; its addresses wrap too. The abort
  input, which `soc_top` ties low, is free.
- `data_port`: two words of SRAM, an address that repeats, one outside the page;
  CPU stores, DMA reads, and all four MAC ports in every combination. The pointer
  has four values and the response pipeline two stages, so all their states
  occur.
- `instr_port`: two words, byte addresses that alias, a request that changes or
  disappears in any cycle.
- `peripheral_bus`: stores to every register of the engine with and without the
  bits that matter, a length wider than its register, polls, accesses to memory and
  to another peripheral, misaligned ones of all these. Two jobs, one aligned and one
  not, suffice: the registers do not look at the addresses, and the engine's bus is
  free.
- `copied_block`: a memory of three words and jobs of up to four, longer than the
  memory; all sources, destinations and contents.
- `dma_system`: one configuration of each engine (two words to copy, one weight,
  one activation), loads and stores of the core, misaligned ones included, plus a
  copy to the local window; data does not matter for these properties and has one
  value. Results are written until the array marks the last one.
- `copy_moves_words`: six jobs, among them empty, partial, overlapping in both
  directions and misaligned; two data values; the core stores to the SRAM between
  the jobs.

- `conductor`: three properties of one step, one of them proved before; explore with
  and without `--hard`, prove with and without `--check-complete`, and by step; two
  starts (`MaxLaunches`), so that what one stores, leaves torn, or leaves running
  meets the next. The blocks of a batch come in one order, that of their names
  (`Ranks`), in both starts; a second start that takes the same blocks in another
  order is left to the theorems. Three files (`MaxFiles`) are those of the largest
  batch. Two commands run at a time, on a machine of five units of memory of which two
  are the buffer, engines that are expected to use one and come to use three: two
  engines do not fit, so they are started together, and the later one is evicted and
  queued again. One that had grown before is expected to need three then, which with
  the buffer is no less than an idle machine has: both ways of `ConductorEnds` are
  met, the end and the hold-up. Without the exception for files an orphan wrote,
  `StoredIsProven` and `HonestExit` fail in this run.
- `regression`: one generated and one directed test, with coverage and without; make
  is started twice (`MaxMakes`) and the RTL edited once in between (`MaxEdits`), which
  is the least that lets a record be used again; kills at any point of the first
  (`MCEdit`: an edit does not follow a kill, which has the second make start from what
  it left). Two scripts hold the lock at the same time at most when the generator and
  the testbench are built; the theorems have any number. Scripts: some five thousand
  inputs: versions on both sides of every boundary, for VCS, Vivado, ninja and tools
  without a format of their own, every field of a configuration with every wrong type,
  tests with up to two parameters, all logs of up to four lines, all results of the
  generator, and the vectors of `golden_model.py` with extreme ones.

**Fairness.** Liveness is checked under `FairSpec`, weak fairness of `ClockEdge`: the
clock does not stop. Nothing is assumed of any component, grant or answer: the core's
load/store unit leaves the port free in the cycle of its last answer because it cannot
ask again earlier, and that, with the arbiter's turn, is enough for both engines. A
reset may come at any time and also ends a job. `EnginesProgress` excepts a copy engine
that asks for the window of the local buffers (`StuckAtLocal`), see below. In
`PeripheralBus` the same fairness lets every access be answered: the bridge takes three
cycles whatever the peripheral does. In `Conductor` the event loop goes on, which is its
scheduling, and the first of the running commands comes to its end, as the runner never
evicts it; so does what earlier starts have left; nothing is assumed of the others. In
`Regression` make and its scripts go on together (weak fairness of all their steps, of
which no single one can be repeated for ever), since each script either acts or has its
alarm of five seconds.

**`CoreYields` in `copy_moves_words`.** The refinement holds when nobody else uses
the SRAM while the job runs, and the run has no stream engine and a core that
stays off the SRAM while the engine is busy. This is not a convenience: with
competition the words read are wrong (run `read_data`).

Deadlock is checked in every run of the hardware. The two runs of the Python flow
stop: after the last start and the last call there is nothing more to do.

## 5. What is proved

TLAPS proves the following for all values of the constants, from the named assumptions
on them (`MapAssumption`, `ClientAssumption`, `JobAssumption`, `ConfigAssumption`,
`RequestAssumption`, `RomAssumption`, `CopyAssumption`, `AccessAssumption`,
`SystemAssumption`, `LockAssumption`, `RegressionAssumption`, `RunnerAssumption`,
`ConductorAssumption`, `CallsAssumption`), which say no more than that sizes and limits
are positive or natural numbers, the address space is a multiple of a word, requests,
jobs and images have their types, sets that something is chosen from are not empty, and
names used as marks (no command, no result, the words for states) are none of the things
they stand beside, and a strategy that is there from the beginning names blocks of its
own step. The number of processors to run commands on may be any integer, as two less
than there are may be none. `CallsAssumption` says that the calls of scripts name known
simulators and versions in the formats of their tools; that weights and activations are
bytes, a log is made of the lines `SimulationLog` distinguishes, and the entries of the
two test lists have names that tell them apart, as they have in
`riscv_dv_extension/testlist.yaml` and `directed_tests/directed_testlist.yaml`.
`SystemAssumption` repeats what the components assume of the same constants. TLC
evaluates each of them in a run.

| module | theorem | inductive invariant: why it is needed |
|---|---|---|
| `DmaArbiter_proofs` | `TypeCorrect`, `ResponsesRouted`, `BoundedBypass` | `TurnIsOwed`: a client that has been passed over once holds the turn, so it cannot be passed over again. The owner queue is compared entry by entry with the reads in flight, one case per arm of the `case` |
| `DmaMaster_proofs` | `TypeCorrect`, `NoLostResponse`, `CurrentWordOnly`, `StableRequest` | `BusyOutsideIdle`, besides the properties themselves: without it a withdrawn request could not be told from a reset |
| `AxiStreamDma_proofs` | `TypeCorrect`, `RightAnswer`, `OneRepetition` | `FirstOrRepeated`: a request on the bus is either new, with nothing granted before it, or the repetition of the one granted just now. `AnswerIsOnItsWay`: when the request is gone, the answer is due |
| `MemSubsystem_proofs`, data side | `TypeCorrect`, `UndisturbedRead`, `RoundRobinFair`, `AnsweredOwnWord` | `PromiseKept`: the promise one stage earlier; `OwedGrants`: grants seen plus distance to the pointer is at most three; `RankInjective`: no two masters are at the same distance, so one is granted, and the word `SramTick` puts into the output register is that of the one answered next (`GrantedIsArbitrated`) |
| `PeripheralBus_proofs` | `TypeCorrect`, `AnswersOrdered`, `StartNotLost`, `DoneBelongs`, `JobShown` | `BusInOrder`: the bus is quiet, or the memory answers, or the bridge works, or it answers, with one access waiting and, in the last two, no request for the memory. `PulseAfterWrite`: a start pulse finds the bridge idle, so two starts are never adjacent; `NoLateDone`: the done pulse of an earlier job cannot follow a clean start, which the engine's `busy_o` in its last state ensures |
| `MemSubsystem_proofs`, fetch side | `FetchTypeCorrect`, `FetchCorrect`, `SingleSlot` | `CapturedWord`: the data register is the word of the outstanding fetch from its acceptance on |
| `Regression_proofs`, the lock | `OneAtATime`, `FieldsKept`, `LockInvariantHolds` | `Held` and `CopyIsCurrent`: only the script with the lock is between loading and writing, so what it holds in memory is what the file held, and `NotBefore`: nothing is recorded before the file is there |
| `Regression_proofs`, the flow | `UsesTheLock`, `NothingLostHolds`, `TypesHold`, `InvariantHolds`, `MetadataIsWhole`, `VerdictHolds`, `PassHolds`, `MadeFromTheNew` | `RegInv`, below |
| `Regression_proofs`, the scripts | `ToolsJudged`, `FieldsArrive`, `WrittenIsCopied`, `SupportedRun`, `LogsJudged`, `GoldenComputes` | `InputIsACall`: the state is the input of a call, the rest is about operators. What a loop has computed after k rounds is an invariant of its own: `ScanKnows` of the lines of a log, `InBand` of the cycles of the array |
| `DmaSystem_proofs`, the system | `AnswersReachTheirOwner`, `ComponentsKeepContracts`, `PromisesHold` | `PipelineIsHistory`, `GrantsAreOwned`, `Copy!WaitsForItsRead`, `Arb!OwnersMatchFlight`: the pipeline of the memory, the queue of the arbiter and the wait of the copy engine are three records of the same grants |
| `DmaSystem_proofs`, the mover | `CopyEngineMovesWords` | `MoveInv`, under `MemoryIsItsOwn`: `WordIsThere`, the word a read saw stays in the output register of the SRAM until its answer; `WordsInRam`, what is left of the job lies in the SRAM |
| `DmaMaster_proofs`, the block | `BlockTypes`, `BlockIsCopied` | `Position`: where source and destination stand after `Moved` words; `HoldsSourceWord`: the word in the buffer is the one the source held at the beginning |
| `DmaSystem_proofs`, end to end | `CopyEngineCopiesBlocks` | none of its own: `MoveInv` of the system and `BlockIsCopied` of the mover |
| `Conductor_proofs`, the hold-up | `HeldUpForGood` | none of its own: with nothing running, `poll` computes what an idle machine has, less what orphans use (`SumIsNat`), starts nothing and evicts nothing |
| `Conductor_proofs`, the commands | `LineHolds`, `LeftBehindHolds`, `NothingStrays`, `TypesHold`, `OrderKept` | `LineInv`: `LineOK` (every command that is waited for is in the line once, what runs is alive or has a code not yet seen), `Idle`, and `WaitsForItsStage`, which keeps a coroutine from queueing its command twice. `LeftBehind`: orphans are of earlier starts, or of this one once an exception or a kill has ended it |
| `Conductor_proofs`, the verdicts | `InvariantHolds`, `StoredProofs`, `HonestSuccess`, `FilesApart` | `IInv` follows a block from its batch to the verdict: `PreparedFile`, `EngineOnItsFile` and `ResultIsProven`, each unless an orphan has written the file of the block (`Undisturbed`); `BuildOfStep`, `ProveBatch`, `FirstStep` |

Every invariant is initial (`InitInvariant`), kept by every step
(`NextInvariant`, one lemma per kind of step) and implies its property.
`BlockIsCopied` has the least obvious argument: a word of the source is still
what it was at the beginning because the words written before it is read are, by
`ReadsComeFirst`, elsewhere; `NthIsInjective` carries this to the indices modulo
the memory's size.

The DMA system is proved as a composition. None of the properties of the engines and
the arbiter is assumed of the others: `ClockEdgeKeeps` shows all of them of the next
state from all of them of this one, with a lemma for each part (`CopyInStep`,
`OwnersFollow`, `MemoryTyped`). `ComponentsKeepContracts` then has one simulation for
each component: its specification in its own module lets its surroundings do anything
within a contract, and under the invariant every edge of the system is such a step. What
is proved of a component alone therefore holds in the system, which `PromisesHold` does
for the engines and the arbiter: it takes the theorems of their modules through INSTANCE, and
concludes that in the system the copy engine holds its requests, the waits of the stream engine
end with the right word, a grant is repeated once at most, and no engine is passed over
twice. What the memory promises, `UndisturbedRead`, is used below in a form of its own
(`WordIsThere`); its fairness is about the MAC ports, which are tied off in this system.

`CopyEngineMovesWords` adds that the words are right, which needs `MemoryIsItsOwn`:
the core yields, the stream engine is not started, jobs lie in the SRAM. Section 6 says
why the first two are needed; a job elsewhere reads what the SRAM does not hold. An edge is
one of six things to the copy engine (`CopyCases`), and each is a step of `WordCopy` or
none: the grant of a fetch is the reading of a word, its answer is nothing, since the
refinement mapping already holds the word that is on its way, the grant of a store is the
writing. Lengths are rounded up to words (`JobShrinks`), and addresses that wrap at the
end of the address space map to indices that wrap at the end of the SRAM
(`NextRemainder`, `RamEndsBelow`).

`CopyEngineCopiesBlocks` puts the last two together. `SpecWithHistory` adds to the
system the two things that `CopiedBlock` remembers, the memory and the job of the
last acceptance (`before`, `request`); `HistoryStep` only looks on, it can be met in
every step, and reads nothing it has written. With it every step of the system is a step of
`CopiedBlock` (`HistorySteps`), so the theorem about blocks of any size applies to what the
engine, its arbiter and its memory do with a job: when `done` is raised the
destination holds what the source held when the job was accepted, and the rest of the
memory is as it was.

The conductor is proved in two parts, too. The line of commands needs of a poll only
what it does to one command at a time (`PollCommands`): however many it evicts, starts
and reaps, a command moves one stage, and the line as a sequence is kept by
`PollKeepsLine` from the lemmas on `Without`, on reversed sequences and on the movement
of the front of the line. `OrderKept` is the refinement to `JobLine`. The verdicts need
nothing of the order, but that nobody gets the result of another's command: each
coroutine waits for the command of the stage it is in, so a command is queued once, and
a result found in the process was made for its block, on its file, of its step, as long
as no orphan has written that file: from then on the block is in `rewritten`, and
nothing more is said of it. A strategy file that an earlier start has left, whole or
torn, is in `IInv` as well, which is why `StoredProofs` holds over any number of starts
and kills.

The hold-up is a third argument. `HeldUp` fixes what the next poll sees: no command
runs, so the sums over them are zero, orphans can only take memory away, and line 259 is
false of the command at the front; nothing is started, so there is nothing to evict, to
reap or to answer, and no coroutine goes on. That the memory of orphans is a natural number is
an induction over a finite set (`SumExists`), as the library's sum is a `CHOOSE`.

The regression is proved in two layers. `UsesTheLock` is the refinement: every step
of `Regression`, the kill of everything included, is a step of `LockedMetadata` or
leaves its variables alone, so `FieldsKept` carries over (`NothingLostHolds`). Over it
`RegInv` ties what make believes to what is on the disk:

- `MadeInOrder` and `FinishedIsUpToDate`: a target is touched only when all it is made
  from is finished, and what is finished is not out of date, except an assembly whose
  generator failed quietly (`run_instr_gen.py:246`) and a log whose simulator did not start.
  `MadeFromTheNew` is what a reader
  wants of them.
- `ReportIsDue` and `ReportIsCurrent`: a report that make keeps says of all tests that
  they passed. Without the first, make could skip the report of a test it has just
  simulated again, and `PassHolds` would fail.
- `MetadataImpliesTests`, `RunsLoaded` and `Behind`: a torn record stays torn, so the
  script that needs it fails, and what is made from it stays out of date; a make that ends
  well has therefore loaded every record, which `PassHolds` needs.
- `NotSimulated` and `SimulatedOnce`: before its first simulation a test's log is out
  of date and its record empty; after it, a record that says something says it of the
  log that is there, and nobody is writing that log. `VerdictHolds` is a part of this.

The other part of the argument is what a step may touch at all: `StMoves`,
`OldMoves`, `TestMoves` and `ReportMoves` sum up the effects of all scripts on
targets, on what is out of date, on one test's records and on the report (`KilledTests` those
of a kill, from `LeftIs`), and each
conjunct of `RegInv` is then kept for one of these reasons, not once per script. The
lemmas on the verdict (`Verdicts`, `Traces`) evaluate the folds of `SimulationLog` on the
logs that a test can have.

The scripts have no steps worth an invariant, so their theorems are about operators, for
inputs of any size. `CheckIsExact` goes by the format of the tool: the numbers of a
version may be padded with zeros (`OlderByParts`, `PaddedOrder`), and the one number that
is made of month, service pack and patch says what `CountsAsRecent` says of it
(`VcsOrderIs`): of one month it keeps the order as long as a patch stays below a hundred
(`ServicePacksWeigh`); of different months of a year it has five digits with a service pack
and at most three without (`OneYearOrder`), if packs and patches have one digit (`Short`).
`StagesShareFields` splits the fields of a configuration between the stages of each
simulator. `WrittenIsCopied` writes out the one line of each test, moves its words
(`RelocPathIs`: each path is the origin of one relocation or of none), finds none that
still holds the placeholder (`NoneRefused`), and with the files that the moved words name
(`WrittenAre`) and the rules (`RulesCopy`) the copies.

The last three of the table are about loops over data of any length, and need induction.
The theorem the library has for it takes a formula as its parameter, which the provers
do not instantiate; but a formula can be given as the set of numbers it holds of.
`LeastElement` (from `NatLessThanWellFounded` and `WFMin`, which are about sets) and
from it `Induction` say that a set of naturals with zero and, with a number, the next,
is all of them. A recursive function is a `CHOOSE`, so a value is known only once some
function is shown to satisfy the equation: `DefinedBySets` shows it for the folds, which
take the greatest index out of a set of indices, and `FlatIs` for `FlattenSeq`. What
follows is an ordinary proof of a loop:

- `LogsJudged`: `ScanSteps` gives the states of the scan, `ScanKnows` says what each knows
  of the lines so far (which result has been seen, and which line that marks an error came
  before any), `ScanKnowsMore` keeps it for one more line. `LogIsJudged` compares the end
  with what a log means; the lines after the first failure, which the script does not read,
  cannot change it.
- `GoldenComputes`: after k cycles the activation of a row is in column c if `InBand(k, c)`
  holds, and elsewhere there is zero. A product is one cycle behind, a sum moves a row per
  cycle, so what leaves the last row after eight cycles is made of the products of cycles
  four to seven, one of each row.
- `SupportedRun`: `FlatHas` says what a sequence that is put together has in it, hence what
  is left of a list (`KeepHas`) and what the filter appends (`FilterHas`). The number of
  parameters that agree before the first that does not says whether a test is supported
  only if there is at most one (`AgreeingTells`), as the property says. That an entry which
  is run is the one of that name in its own list needs the names to differ.

The type invariants of the hardware modules are theorems and no longer part of the
runs.

Only model-checked:

- liveness (`EnginesProgress`, `AccessFinishes`, `ConductorEnds`, `RegressionEnds`): the
  prover has neither fairness nor `ENABLED`;
- `ReadDataIsTheWordRead`, which does not hold.

## 6. What the checks found

- **A read can return another access's word** (`read_data`). The memory answers a
  DMA read in the second cycle after its grant with the live output register of
  the SRAM (`mem_subsystem.v:207`), and any access in between replaces it. With
  both engines running and no traffic of the core, a copy stores a word of the
  stream engine's buffer. The bench checks this case against a memory model that
  keeps the data (`dv/xcelium/soc_top_tb.sv:338,400`). What holds instead is
  proved: `UndisturbedReadIsExact`.
- **A copy to a local buffer never ends.** `soc_top.v:92-94` decodes the local buffers
  for the DMA, `soc_top.v:183` keeps such a request away from the memory, and nobody
  else grants. The arbiter keeps its selection until a grant, so the stream engine can
  wait for ever too. `EnginesProgress` holds because it excepts this case
  (`StuckAtLocal`); without the exception it fails.
- **Two reads of one source in flight**, against `dma_arbiter.v:38`, "Each source has at
  most one read in flight.": the stream engine asks for a cycle too long. It does no
  harm: `AnswersCurrentWord` and `RepeatsAtMostOnce` hold, and are proved, and the queue
  has the two entries that it needs.

A stream length that is no multiple of four makes the stream engine read for ever
(`axi_stream_dma.v:136`). A fetch is answered two edges after its acceptance
(`mem_subsystem.v:67`), where the comments say the following cycle (`boot_rom.v:35-36`);
order and data are right. `RepeatsAtMostOnce` also covers the result store that is
repeated after `busy_o` has fallen.

In the Python flow, the models had to follow the code into the following; where a
property is restricted because of one, it is named.

- **`race` never has a winner** (`conductor.py:76-81`): with two tasks every wrapper
  awaits the last, the second gets a `RuntimeError`, and `explore` without `--hard`
  ends with an exception unless nothing is missing.
- **A cancelled process is restarted** (`conductor.py:170-171, 187-193`): an eviction
  replaces the flag that a cancel has set. It costs time only: it is polled again, and
  `NoStray` holds.
- **Commands outlive the conductor.** When an exception or a kill ends it, nothing
  kills its children (`conductor.py:790`; a cancel only sets a flag for a poll that
  may not come, 107-109). They go on using memory, and an `aig-manip` among them
  writes `build/aiger-<n>.aig` when it ends. The next start counts its files from zero
  again (295), so this can be the file of another block, between the preparation and
  the engine: UNSAT is then stored, or success reported, for a block that no engine
  has seen. `StoredIsProven`, `HonestExit` and their theorems except exactly the
  blocks whose file was written so (`rewritten`), and `NoStray` says which commands
  outlive their start.
- **A start can hang** (`conductor.py:259`): a command is started only if more memory
  is free than it is expected to need and the buffer of 5 GB, also when nothing else
  runs. An expectation of 10 GB never fits `--max-mem 15`, nor does one that has grown
  at an eviction fit a machine of that size, and two processors leave none to run
  commands on (225). Those behind it in the queue wait as well. `ConductorEnds` says
  that this is the only way not to end, `StaysHeldUp` that it is for good.
- **The comment at `conductor.py:223`**, "Never allocate more than (total ram -
  buffer)GB memory", is an expectation: commands that outgrow theirs use the buffer
  until the next poll.
- **`--by-step` always succeeds** (`conductor.py:639-643`), as does prove mode with
  nothing stored and no `--check-complete`, and completeness compares names whatever
  their steps (`645-650`). `HonestExit` says what success means.
- **A failing log leaves `passed` as it was** (`check_logs.py:61-77`), and a timeout
  is never cleared (`36`): a test that passed, is simulated again after an edit of the
  RTL and fails is reported as passed; one that once timed out fails ever after.
  `VerdictIsOfItsLog` and `PassIsEarned` are therefore about tests simulated once.
- **A log that fails without a line that marks an error** ends `check_logs` with a
  `TypeError` (`ibex_log_to_trace_csv.py:245`), and the test has no verdict.
- **A kill while the metadata is written** leaves it empty for good
  (`scripts_lib.py:304`, `metadata.py:362-364`), and readers take no lock
  (`metadata.py:252-258`), so a script of a test that starts while another writes
  fails. A kill while a script of a test exports its record (`run_instr_gen.py:244`,
  `compile_test.py:194`, `run_rtl.py:98,116`, `check_logs.py:97`) leaves that empty
  for good: the scripts of the test fail, as does `collect_results`, until the output
  directory is deleted. `MetadataImpliesTests` says that there is no other way to lose
  a record.
- **A kill between the simulation and its check** can make the check be skipped
  (`run_rtl.py:116`); the test is then reported as failed, not passed.
- **A simulator that does not start** leaves the log and the trace of an earlier
  simulation, and `check_logs` judges these (`run_rtl.py:105-110`).
- **Tests with two parameters** are kept, or run twice, although the second does not
  agree, and one with an empty list is dropped (`ibex_cmd.py:159-187`), against "all
  tests incompatible with the specified ibex config have been removed" (144-147). The
  test lists have one parameter each; `SupportedTestsRun` says less of tests with two.
- **VCS releases of different months of a year** are compared wrongly when one has a
  service pack (`check_tool_requirements.py:281-282`): 2020.12 becomes 2020.120 and
  2020.03-SP2 becomes 2020.03200, so the newer release is refused where the older is
  required, as it is in `tool_requirements.py:11`. The comment says that the weighing
  "should work as long as the patch version isn't greater than 99" (263-265).
  `ToolVerdictIsExact` takes "recent" as the number tells it (`CountsAsRecent`) and
  says where that differs from the order of releases; of releases of different months
  with ten service packs or patches, or more, it says nothing.
- `run_instr_gen.py:246` succeeds although the generator failed; the compilation then
  fails. `compile_test.py:54` returns a number where a list is iterated, and
  `merge_cov.py:36` a number where a set is: both end in an exception, which here is a
  failure as good as another.

## 7. Not modelled, and the plan

Not modelled on purpose: Ibex (vendored; it appears as the environment), the
physical flow (no behaviour), the benches (read for their claims), the RTL that is
instantiated nowhere, and the loading of memory images by the simulator. Of the Python
flow: the reports, the generator and the schema of the directed test list, the assembly
of command lines for riscv-dv, and the filters on the output of tools, which format
text and keep no state; of the conductor, the modes `bmc`, which searches for ever and
stores nothing, and `info`, which prints, the selection of properties, and the rewriting
of an engine's `--start` (`conductor.py:487-491`), an option of an external program.

Hazards that no property covers are those of hardware that is not modelled, and are
marked so in `PROJECT.json`. The order of the modules that would follow puts what the
software depends on first:

1. `MacAccelerator`: `mac_cfg_regs`, `mac_multicore` and the control of
   `mac_core_axi` with `AxiStreamDma`. To check: `tlast` is high for one cycle
   (`mac_core_axi.v:226-237`) and looked at in the cycle of a grant
   (`axi_stream_dma.v:186-194`), so the drain may not end; the done of several
   cores is not sticky (`mac_multicore.v:137`); the pointers of the input buffers
   in a second operation; dimensions zero and above the array's size.
2. `SystolicArray`: the array's data path against `GoldenModel`.
3. `MemSubsystem`: both sides of the memory together, with the multiplexer of the
   core's read data (`mem_subsystem.v:205`), under the core of `PeripheralBus`.
4. `Telemetry`, `BankedSram` (against the flat SRAM), and `Firmware`, the control
   flow of the generated image against its source.

Theorems to come: every safety property that a run checks and that holds is a theorem, and
so are the refinements; what follows are those of the modules above, first a collective
done for one core.
