----------------------------- MODULE Conductor -----------------------------
(***************************************************************************)
(* dv/formal/conductor.py in its modes explore and prove, over the process *)
(* runner: for each block of properties a coroutine prepares an AIGER file *)
(* and runs an engine on it; what is proved is stored, step by step, in    *)
(* strategies/, and proved again from there.                               *)
(*                                                                         *)
(* A batch is one asyncio.gather of such coroutines; the main coroutine    *)
(* waits for it.  The engines and aig-manip are programs of their own: an  *)
(* engine's answer is about the file it was given.                         *)
(***************************************************************************)
EXTENDS ProcessRunner

CONSTANTS
  JobId,       \* numbers of the coroutines of a batch, from 1: a bound
  Steps,       \* number of proof steps of the design
  Props,       \* the properties of each step that are selected, by name
  Answers,     \* the exit codes of the engines that are told apart
  Launches,    \* the command lines the conductor is started with
  Ranks,       \* rankings of the blocks: the orders that are told apart
  Stored,      \* what may be stored already, per step, proved earlier
  MaxFiles,    \* bound on the files of a start
  MaxLaunches  \* bound on the times it is started

Step == 1..Steps
Name == UNION {Props[s] : s \in Step}
Block == [step : Step, props : SUBSET Name]
Kinds == {"prep", "explore", "prove"}
File == 0..MaxFiles - 1

Unsat == "20"
Sat == "10"

\* The options that matter here.
CommandLine == [mode : {"explore", "prove"}, hard : BOOLEAN, fresh : BOOLEAN,
                noRun : BOOLEAN, noStore : BOOLEAN, byStep : BOOLEAN, check : BOOLEAN]

ASSUME ConductorAssumption ==
  /\ Steps \in Nat \ {0} /\ \A s \in Step : IsFiniteSet(Props[s])
  /\ JobId \subseteq Nat \ {0} /\ MaxFiles \in Nat
  /\ Proc = JobId \X Kinds /\ Timed = JobId \X {"explore"}
  /\ {"0", "1", Unsat} \cup Answers \subseteq Codes
  /\ Launches # {} /\ Launches \subseteq CommandLine
  /\ Ranks \subseteq [Block -> Nat]
  /\ \A stored \in Stored, s \in Step : stored[s] \subseteq {b \in Block : b.step = s}

VARIABLES
  main,     \* the main coroutine and its command line
  job,      \* the coroutines of the batch
  files,    \* build/aiger-<n>.aig: the block that the file was prepared for
  disk,     \* strategies/step<n>.json
  launched, \* times started
  proven,   \* history: the blocks that an engine has answered UNSAT for, ever
            \* and since the conductor was started
  rewritten \* history: the blocks whose file an orphan has written while their
            \* coroutine used it, ever and since the conductor was started

histories == <<proven, rewritten>>
vars == <<runnerVars, main, job, files, disk, launched, histories>>

NoBlock == [step |-> 0, props |-> {}]
NoJob == [stage |-> "none", block |-> NoBlock, file |-> -1, result |-> "none"]
\* aigerIdx is the number of the next file.
Off == [phase |-> "off", step |-> 0, old |-> {}, exit |-> "none", engines |-> 0,
        aigerIdx |-> 0, opt |-> CHOOSE o \in Launches : TRUE]

\* strategies/step<n>.json: missing, cut off while it was written, or whole.
Absent == [state |-> "absent", blocks |-> {}]
Torn == [state |-> "torn", blocks |-> {}]
Written(blocks) == [state |-> "written", blocks |-> blocks]

Jobs == {j \in JobId : job[j].stage # "none"}
EngineKind == IF main.phase = "build" THEN "explore" ELSE "prove"

Init ==
  /\ RunnerInit
  /\ main = Off /\ job = [j \in JobId |-> NoJob]
  /\ files = [n \in File |-> NoBlock]
  /\ \E stored \in Stored :
       /\ disk = [s \in Step |-> IF stored[s] = {} THEN Absent ELSE Written(stored[s])]
       /\ proven = [ever |-> UNION {stored[s] : s \in Step}, now |-> {}]
  /\ rewritten = [ever |-> {}, now |-> {}]
  /\ launched = 0

\* load_strategy: a missing file and one that does not parse are no strategy.
Load(s) == IF main.opt.fresh \/ disk[s].state # "written" THEN {} ELSE disk[s].blocks

Covered(blocks) == UNION {b.props : b \in blocks}

-----------------------------------------------------------------------------
(* Batches                                                                 *)

\* Mutant of FileOf: the file is named for the step.
FileOfStep(n) == main.step - 1

\* aiger_idx: a file of its own for each coroutine of a start, numbered when it
\* begins; the next start counts from zero again.
FileOf(n) == main.aigerIdx + n - 1

\* The order of the blocks comes from a set (line 586) or from the time they took
\* (484): that of any ranking.
Orders(blocks) ==
  {f \in [1..Cardinality(blocks) -> blocks] :
     /\ Range(f) = blocks
     /\ \E rank \in Ranks : \A m, n \in DOMAIN f : m < n => rank[f[m]] <= rank[f[n]]}

\* gather: the coroutines run up to their first shell call, in order.  JobId and
\* MaxFiles bound them.
Batch(blocks) ==
  \E order \in Orders(blocks) :
    /\ DOMAIN order \subseteq JobId /\ \A j \in DOMAIN order : FileOf(j) \in File
    /\ job' = [j \in JobId |->
         IF j \in DOMAIN order
           THEN [stage |-> "prep", block |-> order[j], file |-> FileOf(j), result |-> "none"]
           ELSE NoJob]
    /\ Shell([j \in DOMAIN order |-> <<j, "prep">>])

\* What becomes of the main coroutine when it waits for a batch.
Waits(phase, engines, old, blocks) ==
  [main EXCEPT !.phase = phase, !.engines = engines, !.old = old,
               !.aigerIdx = @ + Cardinality(blocks)]

Done(p) == future[p] \notin {"unborn", "waiting", "cancelled"}

Prepared(j) == future[<<j, "prep">>] = "0"

\* prepare_aiger returns, and the engine is queued.
RunEngine(j) ==
  /\ main.phase \in {"build", "run"}
  /\ job[j].stage = "prep" /\ Prepared(j)
  /\ main.engines = 1
  /\ job' = [job EXCEPT ![j].stage = "engine"]
  /\ Shell(<< <<j, EngineKind>> >>)
  /\ UNCHANGED <<main, files, disk, launched, histories>>

\* race over more than one coroutine: every wrapper reads the loop variable
\* when it runs and awaits the last of them.  The first queues its engine; the
\* second gets a RuntimeError, which nobody handles.
RaceRaises(j) ==
  /\ main.phase = "build"
  /\ job[j].stage = "prep" /\ Prepared(j)
  /\ main.engines > 1
  /\ job' = [job EXCEPT ![j].stage = "engine"]
  /\ Shell(<< <<j, EngineKind>> >>)
  /\ main' = [main EXCEPT !.phase = "raised"]
  /\ UNCHANGED <<files, disk, launched, histories>>

\* The assertion of prepare_aiger.
AssertRaises(j) ==
  /\ main.phase \in {"build", "run"}
  /\ job[j].stage = "prep" /\ Done(<<j, "prep">>) /\ ~Prepared(j)
  /\ main' = [main EXCEPT !.phase = "raised"]
  /\ UNCHANGED <<runnerVars, job, files, disk, launched, histories>>

\* The engine has ended: the coroutine returns its result.
EngineDone(j) ==
  /\ main.phase \in {"build", "run"}
  /\ job[j].stage = "engine" /\ Done(<<j, EngineKind>>)
  /\ job' = [job EXCEPT ![j].stage = "over", ![j].result = future[<<j, EngineKind>>]]
  /\ UNCHANGED <<runnerVars, main, files, disk, launched, histories>>

AllOver == \A j \in Jobs : job[j].stage = "over"
Answered(code) == {job[j].block : j \in {i \in Jobs : job[i].result = code}}

-----------------------------------------------------------------------------
(* The main coroutine                                                      *)

Launch(o) ==
  /\ main.phase = "off" /\ launched < MaxLaunches
  /\ main' = [Off EXCEPT !.phase = "steps", !.step = 1, !.opt = o]
  /\ launched' = launched + 1
  /\ proven' = [proven EXCEPT !.now = {}]
  /\ rewritten' = [rewritten EXCEPT !.now = {}]
  /\ UNCHANGED <<runnerVars, job, files, disk>>

\* What is left of a command when the conductor ends.
Orphan(p) == [start |-> launched, cmd |-> p, rss |-> process[p].rss,
              file |-> job[p[1]].file, block |-> job[p[1]].block]

\* asyncio.run returns: the poll callback is not called again, and what runs is
\* left to itself.
Leave(exit) ==
  /\ main' = IF exit = "ok" THEN [main EXCEPT !.phase = "off", !.exit = "ok"]
                            ELSE [Off EXCEPT !.exit = exit]
  /\ job' = [j \in JobId |-> NoJob]
  /\ pending' = <<>> /\ running' = <<>>
  /\ process' = [p \in Proc |-> Fresh(p)]
  /\ future' = [p \in Proc |-> "unborn"]
  /\ orphans' = orphans \cup {Orphan(p) : p \in Alive}

NextStep == [main EXCEPT !.phase = "steps", !.step = @ + 1]
NoBatch == UNCHANGED <<runnerVars, job>>

\* run_strategy; without --no-run explore mode proves a strategy again unless
\* it was just found and has one block.
RunOrSkip(strategy, new) ==
  IF main.opt.noRun \/ (new /\ Cardinality(strategy) = 1)
    THEN main' = NextStep /\ job' = [j \in JobId |-> NoJob] /\ UNCHANGED runnerVars
    ELSE main' = Waits("run", 1, strategy, strategy) /\ Batch(strategy)

\* build_strategy_rec for one property: its engines are tried.
TryEngines(old, blocks) ==
  main' = Waits("build", IF main.opt.hard THEN 1 ELSE 2, old, blocks) /\ Batch(blocks)

\* For more it races the whole block against its parts, which wait before
\* they start: the wrappers raise before any command is queued.
RaceBlock == main' = [main EXCEPT !.phase = "raised"] /\ NoBatch

\* construct_strategy: --hard takes each property that has no proof alone.
ExploreStep ==
  /\ main.phase = "steps" /\ main.opt.mode = "explore" /\ main.step \in Step
  /\ LET s == main.step
         old == Load(s)
         missing == Props[s] \ Covered(old)
         single == {[step |-> s, props |-> {n}] : n \in missing}
     IN  \/ missing = {} /\ RunOrSkip(old, FALSE)
         \/ /\ missing # {} /\ (main.opt.hard \/ Cardinality(missing) = 1)
            /\ TryEngines(old, single)
         \/ ~main.opt.hard /\ Cardinality(missing) > 1 /\ RaceBlock
  /\ UNCHANGED <<files, disk, launched, histories>>

Found == Answered(Unsat)

\* store_strategy, and on to run_strategy.  A file that cannot be opened or not
\* be written whole is only logged.
StoreStep ==
  /\ main.phase = "build" /\ AllOver
  /\ \/ UNCHANGED disk
     \/ /\ ~main.opt.noStore
        /\ \E new \in {Written(main.old \cup Found), Torn} :
             disk' = [disk EXCEPT ![main.step] = new]
  /\ RunOrSkip(main.old \cup Found, TRUE)
  /\ UNCHANGED <<files, launched, histories>>

\* explore mode ignores what the second run finds.
ExploreRunDone ==
  /\ main.phase = "run" /\ AllOver /\ main.opt.mode = "explore"
  /\ main' = NextStep /\ job' = [j \in JobId |-> NoJob]
  /\ UNCHANGED <<runnerVars, files, disk, launched, histories>>

AllStored == UNION {Load(s) : s \in Step}

\* --check-complete compares names, whatever their steps.
Complete == main.opt.check => Name \subseteq Covered(AllStored)

\* prove_mode without --by-step: everything that is stored, in one batch.
ProveAll ==
  /\ main.phase = "steps" /\ main.opt.mode = "prove" /\ ~main.opt.byStep
  /\ \/ ~Complete /\ Leave("failed")
     \/ /\ Complete
        /\ main' = Waits("run", 1, AllStored, AllStored)
        /\ Batch(AllStored)
  /\ UNCHANGED <<files, disk, launched, histories>>

\* Mutant of ProveVerdict: an engine that ended without an answer will do.
ProveVerdictLax == IF \A j \in Jobs : job[j].result # Sat THEN "ok" ELSE "failed"

ProveVerdict == IF \A j \in Jobs : job[j].result = Unsat THEN "ok" ELSE "failed"

ProveDone ==
  /\ main.phase = "run" /\ AllOver /\ main.opt.mode = "prove" /\ ~main.opt.byStep
  /\ Leave(ProveVerdict)
  /\ UNCHANGED <<files, disk, launched, histories>>

\* With --by-step the results are only logged.
ProveStep ==
  /\ main.phase = "steps" /\ main.opt.mode = "prove" /\ main.opt.byStep
  /\ main.step \in Step
  /\ \/ Load(main.step) = {} /\ main' = NextStep /\ NoBatch
     \/ /\ Load(main.step) # {}
        /\ main' = Waits("run", 1, Load(main.step), Load(main.step))
        /\ Batch(Load(main.step))
  /\ UNCHANGED <<files, disk, launched, histories>>

ProveStepDone ==
  /\ main.phase = "run" /\ AllOver /\ main.opt.mode = "prove" /\ main.opt.byStep
  /\ main' = NextStep /\ job' = [j \in JobId |-> NoJob]
  /\ UNCHANGED <<runnerVars, files, disk, launched, histories>>

Finish ==
  /\ main.phase = "steps" /\ main.step \notin Step
  /\ Leave(IF main.opt.mode = "prove" /\ ~Complete THEN "failed" ELSE "ok")
  /\ UNCHANGED <<files, disk, launched, histories>>

-----------------------------------------------------------------------------
(* An exception ends the main coroutine: asyncio.run cancels the others    *)
(* and returns when they have ended, with a poll or two in between or none.*)

CancelAll ==
  /\ main.phase = "raised"
  /\ main' = [main EXCEPT !.phase = "cancelled"]
  /\ Cancel({p \in Proc : future[p] = "waiting"})
  /\ UNCHANGED <<job, files, disk, launched, histories>>

Crash ==
  /\ main.phase = "cancelled"
  /\ Leave("crashed")
  /\ UNCHANGED <<files, disk, launched, histories>>

\* The conductor is killed; in store_strategy this leaves half a file.
Killed9 ==
  /\ main.phase # "off"
  /\ Leave("crashed")
  /\ disk' \in {disk} \cup
       IF main.phase = "build" /\ AllOver /\ ~main.opt.noStore
         THEN {[disk EXCEPT ![main.step] = Torn]} ELSE {}
  /\ UNCHANGED <<files, launched, histories>>

\* What an engine answers for: the file it was given, as it was when the engine
\* read it.
Input(p) == IF process[p].read = {} THEN {files[job[p[1]].file]} ELSE process[p].read

With(history, blocks) == [h \in {"ever", "now"} |-> history[h] \cup blocks]

\* aig-manip writes its file, an engine answers.
CommandExits(p) ==
  LET j == p[1] IN
  \/ /\ p[2] = "prep"
     /\ \/ Exit(p, "0") /\ files' = [files EXCEPT ![job[j].file] = job[j].block]
        \/ Exit(p, "1") /\ UNCHANGED files
     /\ UNCHANGED proven
  \/ /\ p[2] # "prep"
     /\ \/ Exit(p, Unsat) /\ proven' = With(proven, Input(p))
        \/ \E c \in Answers \ {Unsat} : Exit(p, c) /\ UNCHANGED proven
     /\ UNCHANGED files

PollCallback ==
  main.phase # "off" /\ Poll /\ UNCHANGED <<main, job, files, disk, launched, histories>>

Ends(p) == CommandExits(p) /\ UNCHANGED <<main, job, disk, launched, rewritten>>

Works(p) == (Grow(p) \/ Expire(p)) /\ UNCHANGED <<main, job, files, disk, launched, histories>>

-----------------------------------------------------------------------------
(* The commands of earlier starts                                          *)

OrphanGrows(o) ==
  /\ \E m \in Sizes \cap (o.rss + 1 .. Peak[o.cmd]) :
       orphans' = (orphans \ {o}) \cup {[o EXCEPT !.rss = m]}
  /\ UNCHANGED <<pending, running, process, future, main, job, files, disk, launched, histories>>

Users(file) == {j \in Jobs : job[j].file = file /\ job[j].stage # "over"}
Engines(j) == {p \in Alive : p[1] = j /\ p[2] # "prep" /\ process[p].read = {}}

\* aig-manip writes the file it was started for, whoever uses a file of that
\* number now; an engine that runs has read the file before, or not yet.
OrphanWrites(o) ==
  /\ o.cmd[2] = "prep"
  /\ files' = [files EXCEPT ![o.file] = o.block]
  /\ \E done \in SUBSET UNION {Engines(j) : j \in Users(o.file)} :
       process' = [p \in Proc |->
         IF p \in done THEN [process[p] EXCEPT !.read = {files[o.file]}] ELSE process[p]]
  /\ rewritten' = With(rewritten, {job[j].block : j \in Users(o.file)})

\* Nobody hears of the end of an orphan.
OrphanEnds(o) ==
  /\ orphans' = orphans \ {o}
  /\ OrphanWrites(o) \/ UNCHANGED <<files, process, rewritten>>
  /\ UNCHANGED <<pending, running, future, main, job, disk, launched, proven>>

Coroutine(j) == RunEngine(j) \/ RaceRaises(j) \/ AssertRaises(j) \/ EngineDone(j)

Main ==
  \/ ExploreStep \/ StoreStep \/ ExploreRunDone
  \/ ProveAll \/ ProveDone \/ ProveStep \/ ProveStepDone \/ Finish
  \/ CancelAll \/ Crash

Next ==
  \/ \E o \in Launches : Launch(o)
  \/ Main \/ Killed9 \/ PollCallback
  \/ \E j \in JobId : Coroutine(j)
  \/ \E p \in Proc : Ends(p) \/ Works(p)
  \/ \E o \in orphans : OrphanGrows(o) \/ OrphanEnds(o)

Spec == Init /\ [][Next]_vars

\* The first of the commands that run is left alone, and comes to its end; so
\* does what earlier starts have left.
FirstEnds == running # <<>> /\ Ends(running[1])
SomeOrphanEnds == \E o \in orphans : OrphanEnds(o)

EventLoop == Main \/ \E j \in JobId : Coroutine(j)

\* The event loop serves the coroutines that are ready and the poll timer.
FairSpec ==
  /\ Spec
  /\ WF_vars(EventLoop) /\ WF_vars(PollCallback)
  /\ WF_vars(FirstEnds) /\ WF_vars(SomeOrphanEnds)

-----------------------------------------------------------------------------
TypeOK ==
  /\ pending \in Seq(Proc) /\ running \in Seq(Proc)
  /\ process \in [Proc -> [flag : {"none", "kill"}, hint : Nat, used : Nat, rss : Nat,
                           os : {"unborn", "alive", "killed"} \cup Codes, late : BOOLEAN,
                           read : SUBSET (Block \cup {NoBlock})]]
  /\ future \in [Proc -> {"unborn", "waiting", "cancelled"} \cup Killed \cup Codes]
  /\ main.phase \in {"off", "steps", "build", "run", "raised", "cancelled"}
  /\ main.exit \in {"none", "ok", "failed", "crashed"}
  /\ \A j \in Jobs : job[j].block \in Block /\ job[j].file \in File
  /\ disk \in [Step -> [state : {"absent", "torn", "written"}, blocks : SUBSET Block]]

\* No two coroutines of a start share a file in the build directory
\* (conductor.py:290-304).
OwnFile == \A i, j \in Jobs : i # j => job[i].file # job[j].file

\* The blocks that count as proved, ever or since the conductor was started.
Vouched(h) == proven[h] \cup rewritten[h]

\* Whatever strategies/ holds was proved by an engine, for that step and those
\* properties, although the coroutines of a batch share the build directory
\* and may be evicted, restarted and killed; unless an aig-manip that an earlier
\* start has left behind wrote the file of that very block while it was used
\* (conductor.py:293-304, 555-580, 790).
StoredIsProven ==
  \A s \in Step :
    /\ disk[s].blocks \subseteq Vouched("ever")
    /\ \A b \in disk[s].blocks : b.step = s

\* When prove mode exits with success, it has found UNSAT in this very run for
\* each block it loaded, but for those whose file an orphan wrote while it was
\* used, and, with --check-complete, every selected name is in such a block; not
\* with --by-step, where the results are only logged (conductor.py:646-674).
HonestExit ==
  main.exit = "ok" /\ main.opt.mode = "prove" /\ ~main.opt.byStep =>
    /\ main.old \subseteq Vouched("now")
    /\ main.opt.check => Name \subseteq Covered(main.old)

\* Through evictions, restarts and timeouts no command of this start runs that
\* the runner does not poll, nothing polled was never started, and a start that
\* comes to its end by itself leaves no command behind: only one that an
\* exception or a kill has ended does (conductor.py:173-216, 249-280, 790).
NoStray ==
  /\ Alive \subseteq ToSet(running)
  /\ \A p \in ToSet(running) : process[p].os \in {"alive"} \cup Codes
  /\ \A o \in orphans : o.start = launched => main.phase = "off" /\ main.exit = "crashed"

\* Every start of the conductor comes to an end or is held up: memory that is
\* short delays commands, but the first of the line is left to finish, and then
\* only a command that does not fit an idle machine, or a machine with no
\* processor to spare, stops the others (conductor.py:223-225, 249-280).
ConductorEnds == main.phase # "off" ~> main.phase = "off" \/ HeldUp

\* A start that is held up stays so until it is killed or an exception ends it:
\* nothing lowers what the command is expected to need, and no command of
\* another coroutine is started in its place (conductor.py:235-236, 259).
StaysHeldUp == [][HeldUp => HeldUp' \/ main'.phase = "off"]_vars
=============================================================================
