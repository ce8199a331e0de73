-------------------------- MODULE Conductor_proofs --------------------------
(***************************************************************************)
(* The conductor for every design, machine, strategy and command line: up  *)
(* to blocks whose file a command of an earlier start has written while it *)
(* was used, what it stores has been proved, and when it reports success   *)
(* everything has been proved in that run; the process runner under it     *)
(* keeps one line of commands in order of arrival and loses none of them.  *)
(*                                                                         *)
(* The first argument follows one block from its batch to its verdict.  It *)
(* needs of the runner only what a call of poll can do to one command, and *)
(* so nothing about the queue, memory, evictions and time; of the orphans  *)
(* it needs which file each can still write.  The second is about the      *)
(* queue and its front, whatever moves it, and needs of the first that no  *)
(* command is queued twice.  The third is about a line that does not move  *)
(* any more, and needs that what orphans use is never less than nothing.   *)
(***************************************************************************)
EXTENDS Conductor, FiniteSetTheorems, WellFoundedInduction, TLAPS

-----------------------------------------------------------------------------
(* Types                                                                   *)

Status == {"unborn", "alive", "killed"} \cup Codes
Fate == {"unborn", "waiting", "cancelled"} \cup Killed \cup Codes

ProcessRecord ==
  [flag : {"none", "kill"}, hint : Nat, used : Nat, rss : Nat, os : Status, late : BOOLEAN,
   read : SUBSET (Block \cup {NoBlock})]

OrphanOK(o) ==
  /\ o = [start |-> o.start, cmd |-> o.cmd, rss |-> o.rss, file |-> o.file, block |-> o.block]
  /\ o.rss \in Nat /\ o.block \in Block \cup {NoBlock}

RunnerOK ==
  /\ process \in [Proc -> ProcessRecord] /\ future \in [Proc -> Fate]
  /\ \A o \in orphans : OrphanOK(o)

MainOK ==
  main \in [phase : {"off", "steps", "build", "run", "raised", "cancelled"}, step : Nat,
            old : SUBSET Block, exit : {"none", "ok", "failed", "crashed"},
            engines : Nat, aigerIdx : Nat, opt : Launches]

JobRecord ==
  [stage : {"none", "prep", "engine", "over"}, block : Block \cup {NoBlock},
   file : Int, result : Fate \cup {"none"}]

JobsOK ==
  /\ job \in [JobId -> JobRecord]
  /\ \A j \in JobId : \/ job[j] = NoJob
                      \/ job[j].stage # "none" /\ job[j].file \in File /\ job[j].block \in Block
  /\ \A i, j \in JobId :
       job[i].stage # "none" /\ job[j].stage # "none" /\ i # j => job[i].file # job[j].file

HistoryOK(history) ==
  /\ history = [h \in {"ever", "now"} |-> history[h]]
  /\ history["now"] \subseteq history["ever"]

StoreOK ==
  /\ files \in [File -> Block \cup {NoBlock}]
  /\ disk \in [Step -> [state : {"absent", "torn", "written"}, blocks : SUBSET Block]]
  /\ HistoryOK(proven) /\ HistoryOK(rewritten)

-----------------------------------------------------------------------------
(* The inductive invariant                                                 *)

Working == main.phase \in {"build", "run"}

\* No orphan has written the file of the block while its coroutine used it.
Undisturbed(j) == job[j].block \notin rewritten["now"]

\* aig-manip has succeeded: the file holds the block of its coroutine.
PreparedFile(j) ==
  Working /\ Undisturbed(j) /\ job[j].stage = "prep" /\
      (process[<<j, "prep">>].os = "0" \/ future[<<j, "prep">>] = "0")
    => files[job[j].file] = job[j].block

\* An engine runs on such a file, and UNSAT is said of what the file holds.
EngineOnItsFile(j) ==
  Working /\ Undisturbed(j) /\ job[j].stage = "engine" =>
    /\ files[job[j].file] = job[j].block
    /\ process[<<j, EngineKind>>].read \subseteq {job[j].block}
    /\ process[<<j, EngineKind>>].os = Unsat \/ future[<<j, EngineKind>>] = Unsat
         => job[j].block \in proven["now"]

ResultIsProven(j) ==
  Working /\ job[j].result = Unsat => job[j].block \in Vouched("now")

JobInv(j) == PreparedFile(j) /\ EngineOnItsFile(j) /\ ResultIsProven(j)

\* What is about to be stored for a step is of that step, and what was loaded
\* for it has been proved.
BuildOfStep ==
  main.phase = "build" =>
    /\ main.opt.mode = "explore" /\ main.step \in Step
    /\ \A b \in main.old : b \in Vouched("ever") /\ b.step = main.step
    /\ \A j \in JobId : job[j].stage # "none" => job[j].block.step = main.step

WholeProof == main.opt.mode = "prove" /\ main.opt.byStep = FALSE

\* Each stored block has a coroutine.
ProveBatch ==
  main.phase = "run" /\ WholeProof =>
    /\ \A b \in main.old : \E j \in JobId : job[j].stage # "none" /\ job[j].block = b
    /\ main.opt.check = TRUE => Name \subseteq Covered(main.old)

\* Without --by-step prove mode has no second step to come to.
FirstStep == main.phase = "steps" /\ WholeProof => main.step = 1

ExitWhenOff == main.phase # "off" => main.exit = "none"

IInv ==
  /\ RunnerOK /\ MainOK /\ JobsOK /\ StoreOK
  /\ \A j \in JobId : JobInv(j)
  /\ BuildOfStep /\ ProveBatch /\ FirstStep /\ ExitWhenOff
  /\ StoredIsProven /\ HonestExit

-----------------------------------------------------------------------------
(* Blocks, commands and coroutines                                         *)

LEMMA BlocksAreFinite == IsFiniteSet(Block)
<1>1. IsFiniteSet(Step)
  BY ConductorAssumption, FS_Interval DEF Step
<1>2. IsFiniteSet(Name)
  <2> DEFINE P == {Props[s] : s \in Step}
  <2>1. IsFiniteSet(P)
    <3> DEFINE f == [s \in Step |-> Props[s]]
    <3>1. f \in Surjection(Step, P) BY DEF Surjection
    <3> QED BY <1>1, <3>1, FS_Surjection
  <2>2. \A T \in P : IsFiniteSet(T) BY ConductorAssumption
  <2>3. IsFiniteSet(UNION P) BY <2>1, <2>2, FS_UNION, Zenon
  <2> QED BY <2>3 DEF Name
<1>3. IsFiniteSet(SUBSET Name) BY <1>2, FS_SUBSET
<1>4. IsFiniteSet(Step \X SUBSET Name) BY <1>1, <1>3, FS_Product
<1> DEFINE g == [x \in Step \X SUBSET Name |-> [step |-> x[1], props |-> x[2]]]
<1>5. g \in Surjection(Step \X SUBSET Name, Block)
  <2>1. g \in [Step \X SUBSET Name -> Block] BY DEF Block
  <2>2. \A b \in Block : \E x \in Step \X SUBSET Name : g[x] = b
    <3> SUFFICES ASSUME NEW b \in Block
                 PROVE  \E x \in Step \X SUBSET Name : g[x] = b
      OBVIOUS
    <3>1. <<b.step, b.props>> \in Step \X SUBSET Name BY DEF Block
    <3>2. g[<<b.step, b.props>>] = b BY <3>1 DEF Block
    <3> QED BY <3>1, <3>2
  <2> QED BY <2>1, <2>2 DEF Surjection
<1> QED BY <1>4, <1>5, FS_Surjection

\* A batch has the blocks it is given.
LEMMA OrderOfBlocks ==
  ASSUME NEW S \in SUBSET Block, NEW order \in Orders(S)
  PROVE  /\ \A i \in DOMAIN order : order[i] \in S
         /\ \A b \in S : \E i \in DOMAIN order : order[i] = b
         /\ Cardinality(S) \in Nat /\ DOMAIN order = 1..Cardinality(S)
<1>1. IsFiniteSet(S) BY BlocksAreFinite, FS_Subset
<1>2. Cardinality(S) \in Nat BY <1>1, FS_CardinalityType
<1> DEFINE n == Cardinality(S)
<1> HIDE DEF n
<1>3. order \in [1..n -> S] /\ Range(order) = S BY DEF Orders, n
<1>4. \A b \in S : \E i \in DOMAIN order : order[i] = b BY <1>3 DEF Range
<1> QED BY <1>2, <1>3, <1>4 DEF n

LEMMA FreshTyped ==
  \A p \in Proc : Fresh(p) \in ProcessRecord /\ Fresh(p).os = "unborn" /\ Fresh(p).read = {}
BY RunnerAssumption DEF Fresh, ProcessRecord, Status

\* What eviction, start and poll do to one command.
LEMMA RecordEffect ==
  ASSUME NEW r \in ProcessRecord
  PROVE  /\ Evicted(r) \in ProcessRecord /\ Evicted(r).os = "killed"
         /\ Started(r) \in ProcessRecord /\ Started(r).os = "alive"
         /\ Polled(r) \in ProcessRecord /\ Polled(r).os \in {r.os, "killed"}
         /\ Outcome(r) = "none" => Polled(r).os = r.os
         /\ Outcome(r) # "none" /\ r.os \in {"alive"} \cup Codes => Polled(r).os # "alive"
         /\ Outcome(r) # "none" => Outcome(r) \in Killed \cup Codes
         /\ Evicted(r).read = r.read /\ Started(r).read = {} /\ Polled(r).read = r.read
<1>1. \A a, b \in Nat : Larger(a, b) \in Nat BY DEF Larger
<1>2. /\ r.flag \in {"none", "kill"} /\ r.hint \in Nat /\ r.used \in Nat /\ r.rss \in Nat
      /\ r.os \in Status /\ r.late \in BOOLEAN /\ r.read \in SUBSET (Block \cup {NoBlock})
      /\ r = [flag |-> r.flag, hint |-> r.hint, used |-> r.used, rss |-> r.rss,
              os |-> r.os, late |-> r.late, read |-> r.read]
  BY DEF ProcessRecord
<1> HIDE DEF ProcessRecord
<1>3. Evicted(r) \in ProcessRecord /\ Evicted(r).os = "killed" /\ Evicted(r).read = r.read
  BY <1>1, <1>2 DEF ProcessRecord, Evicted, Status
<1>4. Started(r) \in ProcessRecord /\ Started(r).os = "alive" /\ Started(r).read = {}
  BY <1>2 DEF ProcessRecord, Started, Status
<1>5. /\ Polled(r) \in ProcessRecord /\ Polled(r).os \in {r.os, "killed"}
      /\ Polled(r).read = r.read
  BY <1>1, <1>2 DEF ProcessRecord, Polled, Status
<1>6. Outcome(r) \notin Killed => Polled(r).os = r.os
  BY <1>1, <1>2 DEF Polled
<1>7. Outcome(r) \in Killed => Polled(r).os = "killed"
  BY <1>1, <1>2 DEF Polled
<1>8. Outcome(r) \in Killed \cup {"none"} \/ (Outcome(r) = r.os /\ r.os \in Codes)
  BY DEF Outcome, Killed
<1>9. "alive" \notin Codes /\ "none" \notin Codes /\ "none" \notin Killed
  BY RunnerAssumption DEF Killed
<1> QED BY <1>3, <1>4, <1>5, <1>6, <1>7, <1>8, <1>9

\* What one call of poll can do to a command: a code comes to its future only
\* when the command has ended with it, and no command ends there.
LEMMA PollEffect ==
  ASSUME RunnerOK, Poll
  PROVE  /\ RunnerOK'
         /\ \A p \in Proc, c \in {"0", Unsat} :
              /\ process'[p].os = c => process[p].os = c
              /\ future'[p] = c => future[p] = c \/ process[p].os = c
         /\ \A p \in Proc : process'[p].read \subseteq process[p].read
<1>1. PICK k \in 0..Len(running), m \in 0..Len(running) + Len(pending) :
        LET runs == RunsWith(k, m)
            evicted == {LastRunning(i) : i \in 1..k}
            started == {NextUp(k, i) : i \in 1..m}
            now(p) == LET r == IF p \in evicted THEN Evicted(process[p]) ELSE process[p]
                      IN  IF p \in started THEN Started(r) ELSE r
            ended(p) == p \in ToSet(runs) /\ Outcome(now(p)) # "none"
        IN  /\ process' = [p \in Proc |->
                 IF ended(p) THEN [Fresh(p) EXCEPT !.os = Polled(now(p)).os]
                 ELSE IF p \in ToSet(runs) THEN Polled(now(p)) ELSE now(p)]
            /\ future' = [p \in Proc |->
                 IF ended(p) /\ future[p] = "waiting" THEN Outcome(now(p)) ELSE future[p]]
  BY Zenon DEF Poll
<1> DEFINE evicted == {LastRunning(i) : i \in 1..k}
           started == {NextUp(k, i) : i \in 1..m}
           evictedNow(p) == IF p \in evicted THEN Evicted(process[p]) ELSE process[p]
           now(p) == IF p \in started THEN Started(evictedNow(p)) ELSE evictedNow(p)
           runs == ToSet(RunsWith(k, m))
           ended(p) == p \in runs /\ Outcome(now(p)) # "none"
<1>2. /\ process' = [p \in Proc |->
           IF ended(p) THEN [Fresh(p) EXCEPT !.os = Polled(now(p)).os]
           ELSE IF p \in runs THEN Polled(now(p)) ELSE now(p)]
      /\ future' = [p \in Proc |->
           IF ended(p) /\ future[p] = "waiting" THEN Outcome(now(p)) ELSE future[p]]
  BY <1>1
<1> HIDE DEF evicted, started, runs
<1>3. \A r \in ProcessRecord :
        /\ Evicted(r) \in ProcessRecord /\ Evicted(r).os = "killed"
        /\ Started(r) \in ProcessRecord /\ Started(r).os = "alive"
        /\ Polled(r) \in ProcessRecord /\ Polled(r).os \in {r.os, "killed"}
        /\ Evicted(r).read = r.read /\ Started(r).read = {} /\ Polled(r).read = r.read
  BY RecordEffect
<1>4. \A r \in ProcessRecord, c \in {"0", Unsat} :
        /\ Outcome(r) \in Killed \cup Codes \cup {"none"}
        /\ Outcome(r) = c => r.os = c
  BY DEF Outcome, Killed, Unsat
<1>5. \A p \in Proc, c \in {"0", Unsat} :
        /\ now(p) \in ProcessRecord /\ (now(p).os = c => process[p].os = c)
        /\ now(p).read \subseteq process[p].read
  BY <1>3 DEF RunnerOK, Unsat
<1> HIDE DEF now
<1>6. RunnerOK'
  <2>1. \A p \in Proc : process'[p] \in ProcessRecord
    <3> SUFFICES ASSUME NEW p \in Proc PROVE process'[p] \in ProcessRecord
      OBVIOUS
    <3>1. Polled(now(p)) \in ProcessRecord BY <1>3, <1>5
    <3>2. Polled(now(p)).os \in Status BY <3>1 DEF ProcessRecord
    <3>3. [Fresh(p) EXCEPT !.os = Polled(now(p)).os] \in ProcessRecord
      BY <3>2, FreshTyped DEF ProcessRecord
    <3>4. process'[p] = IF ended(p) THEN [Fresh(p) EXCEPT !.os = Polled(now(p)).os]
                        ELSE IF p \in runs THEN Polled(now(p)) ELSE now(p)
      BY <1>2
    <3> QED BY <1>5, <3>1, <3>3, <3>4
  <2>2. \A p \in Proc : future'[p] \in Fate
    BY <1>2, <1>4, <1>5 DEF RunnerOK, Fate
  <2>3. orphans' = orphans BY DEF Poll
  <2> QED BY <1>2, <2>1, <2>2, <2>3 DEF RunnerOK
<1>7. ASSUME NEW p \in Proc, NEW c \in {"0", Unsat}
      PROVE  /\ process'[p].os = c => process[p].os = c
             /\ future'[p] = c => future[p] = c \/ process[p].os = c
  <2>1. Polled(now(p)).os \in {now(p).os, "killed"} BY <1>3, <1>5
  <2>2. [Fresh(p) EXCEPT !.os = Polled(now(p)).os].os = Polled(now(p)).os
    BY FreshTyped DEF ProcessRecord
  <2>3. process'[p].os \in {now(p).os, "killed"}
    BY <1>2, <2>1, <2>2
  <2>4. future'[p] = future[p] \/ future'[p] = Outcome(now(p))
    BY <1>2
  <2> QED BY <1>4, <1>5, <2>3, <2>4 DEF Unsat
<1>8. ASSUME NEW p \in Proc PROVE process'[p].read \subseteq process[p].read
  <2>1. Polled(now(p)).read = now(p).read /\ now(p).read \subseteq process[p].read
    BY <1>3, <1>5
  <2>2. \A c : [Fresh(p) EXCEPT !.os = c].read = {}
    BY FreshTyped DEF ProcessRecord
  <2> QED BY <1>2, <2>1, <2>2
<1> QED BY <1>6, <1>7, <1>8

LEMMA ShellEffect ==
  ASSUME RunnerOK, NEW ps, Shell(ps)
  PROVE  /\ RunnerOK'
         /\ \A p \in ToSet(ps) \cap Proc :
              process'[p].os = "unborn" /\ future'[p] = "waiting" /\ process'[p].read = {}
         /\ \A p \in Proc \ ToSet(ps) : process'[p] = process[p] /\ future'[p] = future[p]
BY FreshTyped DEF Shell, RunnerOK, Fate

LEMMA CancelEffect ==
  ASSUME RunnerOK, NEW ps, Cancel(ps)
  PROVE  RunnerOK'
<1>1. \A p \in Proc : [process[p] EXCEPT !.flag = "kill"] \in ProcessRecord
  BY DEF RunnerOK, ProcessRecord
<1> QED BY <1>1 DEF Cancel, RunnerOK, Fate

\* A command that works or comes to its end.
LEMMA CommandEffect ==
  ASSUME RunnerOK, NEW p \in Proc
  PROVE  /\ Grow(p) \/ Expire(p) =>
              /\ RunnerOK' /\ future' = future
              /\ \A q \in Proc : process'[q].os = process[q].os /\ process'[q].read = process[q].read
         /\ \A c \in Codes : Exit(p, c) =>
              /\ RunnerOK' /\ future' = future
              /\ process'[p].os = c /\ process'[p].read = process[p].read
              /\ \A q \in Proc \ {p} : process'[q] = process[q]
<1>1. process[p] \in ProcessRecord /\ process \in [Proc -> ProcessRecord] BY DEF RunnerOK
<1>2. ASSUME NEW m \in Nat
      PROVE  [process[p] EXCEPT !.rss = m] \in ProcessRecord
             /\ [process[p] EXCEPT !.rss = m].os = process[p].os
             /\ [process[p] EXCEPT !.rss = m].read = process[p].read
  BY <1>1 DEF ProcessRecord
<1>3. [process[p] EXCEPT !.late = TRUE] \in ProcessRecord
      /\ [process[p] EXCEPT !.late = TRUE].os = process[p].os
      /\ [process[p] EXCEPT !.late = TRUE].read = process[p].read
  BY <1>1 DEF ProcessRecord
<1>4. ASSUME NEW c \in Codes
      PROVE  [process[p] EXCEPT !.os = c, !.rss = 0] \in ProcessRecord
             /\ [process[p] EXCEPT !.os = c, !.rss = 0].os = c
             /\ [process[p] EXCEPT !.os = c, !.rss = 0].read = process[p].read
  BY <1>1 DEF ProcessRecord, Status
<1>5. ASSUME NEW c \in Codes, Exit(p, c)
      PROVE  /\ RunnerOK' /\ future' = future
             /\ process'[p].os = c /\ process'[p].read = process[p].read
             /\ \A q \in Proc \ {p} : process'[q] = process[q]
  <2>1. process' = [process EXCEPT ![p] = [process[p] EXCEPT !.os = c, !.rss = 0]]
    BY <1>1, <1>5 DEF Exit, ProcessRecord
  <2> QED BY <1>1, <1>4, <1>5, <2>1 DEF Exit, RunnerOK
<1>6. Grow(p) \/ Expire(p) =>
        /\ RunnerOK' /\ future' = future
        /\ \A q \in Proc : process'[q].os = process[q].os /\ process'[q].read = process[q].read
  <2>1. CASE Grow(p)
    <3>1. PICK m \in Nat : process' = [process EXCEPT ![p] = [process[p] EXCEPT !.rss = m]]
      BY <2>1, RunnerAssumption DEF Grow
    <3> QED BY <1>1, <1>2, <2>1, <3>1 DEF Grow, RunnerOK
  <2>2. CASE Expire(p)
    <3>1. process' = [process EXCEPT ![p] = [process[p] EXCEPT !.late = TRUE]]
      BY <2>2 DEF Expire
    <3> QED BY <1>1, <1>3, <2>2, <3>1 DEF Expire, RunnerOK
  <2> QED BY <2>1, <2>2
<1> QED BY <1>5, <1>6

LEMMA FieldsOfMain ==
  ASSUME MainOK
  PROVE  /\ main.phase \in {"off", "steps", "build", "run", "raised", "cancelled"}
         /\ main.step \in Nat /\ main.old \in SUBSET Block /\ main.engines \in Nat
         /\ main.exit \in {"none", "ok", "failed", "crashed"}
         /\ main.opt \in Launches /\ main.opt \in CommandLine
         /\ main = [phase |-> main.phase, step |-> main.step, old |-> main.old,
                    exit |-> main.exit, engines |-> main.engines,
                    aigerIdx |-> main.aigerIdx, opt |-> main.opt]
         /\ main.aigerIdx \in Nat
BY ConductorAssumption DEF MainOK

LEMMA OffTyped ==
  /\ Off.opt \in Launches
  /\ Off = [phase |-> "off", step |-> 0, old |-> {}, exit |-> "none", engines |-> 0,
            aigerIdx |-> 0, opt |-> Off.opt]
BY ConductorAssumption DEF Off

LEMMA NoJobTyped ==
  NoJob \in JobRecord /\ NoJob.stage = "none" /\ NoJob.result = "none" /\ NoJob.file \notin File
BY ConductorAssumption DEF NoJob, JobRecord, File

LEMMA NoJobs ==
  /\ job = [j \in JobId |-> NoJob] => JobsOK
  /\ job' = [j \in JobId |-> NoJob] => JobsOK' /\ \A j \in JobId : job'[j] = NoJob
<1> DEFINE none == [j \in JobId |-> NoJob]
<1>1. /\ none \in [JobId -> JobRecord]
      /\ \A j \in JobId : none[j] = NoJob /\ none[j].stage = "none"
  BY NoJobTyped DEF NoJob
<1> HIDE DEF none
<1>2. ASSUME job = none PROVE JobsOK
  BY <1>1, <1>2 DEF JobsOK
<1>3. ASSUME job' = none PROVE JobsOK' /\ \A j \in JobId : job'[j] = NoJob
  BY <1>1, <1>3 DEF JobsOK
<1> QED BY <1>2, <1>3 DEF none

\* asyncio.run has returned: nothing is left of the batch.
LEMMA LeaveEffect ==
  ASSUME MainOK, RunnerOK, JobsOK, NEW exit \in {"ok", "failed", "crashed"}, Leave(exit)
  PROVE  /\ RunnerOK' /\ MainOK' /\ JobsOK'
         /\ \A j \in JobId : job'[j] = NoJob
         /\ main'.phase = "off" /\ main'.exit = exit
         /\ exit = "ok" => main'.old = main.old /\ main'.opt = main.opt
<1>1. RunnerOK'
  <2>1. \A o \in orphans' : OrphanOK(o)
    <3> SUFFICES ASSUME NEW p \in Alive PROVE OrphanOK(Orphan(p))
      BY DEF Leave, RunnerOK
    <3>1. p \in Proc /\ p[1] \in JobId BY ConductorAssumption DEF Alive
    <3>2. process[p].rss \in Nat /\ job[p[1]].block \in Block \cup {NoBlock}
      BY <3>1 DEF RunnerOK, ProcessRecord, JobsOK, JobRecord
    <3> QED BY <3>2 DEF OrphanOK, Orphan
  <2> QED BY <2>1, FreshTyped DEF Leave, RunnerOK, Fate
<1>2. JobsOK' /\ \A j \in JobId : job'[j] = NoJob
  <2>1. job' = [j \in JobId |-> NoJob] BY DEF Leave
  <2> QED BY <2>1, NoJobs
<1>3. CASE exit = "ok"
  <2>1. main' = [phase |-> "off", step |-> main.step, old |-> main.old,
                 exit |-> "ok", engines |-> main.engines, aigerIdx |-> main.aigerIdx,
                 opt |-> main.opt]
    BY <1>3, FieldsOfMain, Zenon DEF Leave
  <2> QED BY <1>1, <1>2, <1>3, <2>1, FieldsOfMain DEF MainOK
<1>4. CASE exit # "ok"
  <2>1. main' = [phase |-> "off", step |-> 0, old |-> {}, exit |-> exit, engines |-> 0,
                 aigerIdx |-> 0, opt |-> Off.opt]
    <3>1. main' = [Off EXCEPT !.exit = exit] BY <1>4 DEF Leave
    <3> DEFINE o == Off.opt
    <3>2. Off = [phase |-> "off", step |-> 0, old |-> {}, exit |-> "none", engines |-> 0,
                 aigerIdx |-> 0, opt |-> o]
      BY OffTyped
    <3> HIDE DEF o
    <3>3. main' = [phase |-> "off", step |-> 0, old |-> {}, exit |-> exit, engines |-> 0,
                   aigerIdx |-> 0, opt |-> o]
      BY <3>1, <3>2
    <3> QED BY <3>3 DEF o
  <2> QED BY <1>1, <1>2, <1>4, <2>1, OffTyped DEF MainOK
<1> QED BY <1>3, <1>4

\* A batch begins: each block has a coroutine with a file of its own, and
\* nothing has been said of it yet.
LEMMA BatchEffect ==
  ASSUME RunnerOK, MainOK, NEW S \in SUBSET Block, Batch(S), main'.phase \in {"build", "run"}
  PROVE  /\ RunnerOK' /\ JobsOK'
         /\ \A j \in JobId : JobInv(j)'
         /\ \A j \in JobId : job'[j].stage # "none" => job'[j].block \in S
         /\ \A b \in S : \E j \in JobId : job'[j].stage # "none" /\ job'[j].block = b
<1>1. PICK order \in Orders(S) :
        /\ DOMAIN order \subseteq JobId /\ \A j \in DOMAIN order : FileOf(j) \in File
        /\ job' = [j \in JobId |->
             IF j \in DOMAIN order
               THEN [stage |-> "prep", block |-> order[j], file |-> FileOf(j), result |-> "none"]
               ELSE NoJob]
        /\ Shell([j \in DOMAIN order |-> <<j, "prep">>])
  BY Zenon DEF Batch
<1> DEFINE ps == [j \in DOMAIN order |-> <<j, "prep">>]
<1>2. /\ \A i \in DOMAIN order : order[i] \in S
      /\ \A b \in S : \E i \in DOMAIN order : order[i] = b
  BY OrderOfBlocks
<1>3. RunnerOK'
  BY <1>1, ShellEffect
<1>4. \A j \in DOMAIN order : <<j, "prep">> \in ToSet(ps) \cap Proc
  <2> SUFFICES ASSUME NEW j \in DOMAIN order PROVE <<j, "prep">> \in ToSet(ps) \cap Proc
    OBVIOUS
  <2>1. ps[j] = <<j, "prep">> /\ j \in DOMAIN ps OBVIOUS
  <2>2. <<j, "prep">> \in ToSet(ps) BY <2>1 DEF ToSet
  <2> QED BY <1>1, <2>2, ConductorAssumption DEF Kinds
<1>5. \A j \in DOMAIN order :
        process'[<<j, "prep">>].os = "unborn" /\ future'[<<j, "prep">>] = "waiting"
  BY <1>1, <1>4, ShellEffect
<1> DEFINE new(j) == [stage |-> "prep", block |-> order[j], file |-> FileOf(j), result |-> "none"]
<1>7. \A j \in JobId : j \in DOMAIN order => job'[j] = new(j)
  BY <1>1, Zenon
<1>8. \A j \in JobId : j \notin DOMAIN order => job'[j] = NoJob
  BY <1>1, Zenon
<1>9. \A j : /\ new(j).stage = "prep" /\ new(j).result = "none"
              /\ new(j).file = FileOf(j) /\ new(j).block = order[j]
  OBVIOUS
<1>10. \A j : order[j] \in Block /\ FileOf(j) \in Int => new(j) \in JobRecord
  BY DEF JobRecord
<1> HIDE DEF new
<1>11. JobsOK'
  <2>1. /\ \A i, j \in JobId : i # j => FileOf(i) # FileOf(j)
        /\ \A n \in File : n \in Int
    BY ConductorAssumption DEF FileOf, MainOK, File
  <2>2. \A j \in JobId : job'[j] \in JobRecord
    <3> SUFFICES ASSUME NEW j \in JobId PROVE job'[j] \in JobRecord
      OBVIOUS
    <3>1. CASE j \in DOMAIN order
      <4>1. order[j] \in Block /\ FileOf(j) \in Int BY <1>1, <1>2, <2>1, <3>1
      <4> QED BY <1>7, <1>10, <3>1, <4>1
    <3>2. CASE j \notin DOMAIN order
      BY <1>8, <3>2, NoJobTyped
    <3> QED BY <3>1, <3>2
  <2>3. ASSUME NEW j \in JobId, job'[j] # NoJob
        PROVE  job'[j].stage # "none" /\ job'[j].file \in File /\ job'[j].block \in Block
    <3>1. j \in DOMAIN order BY <1>8, <2>3
    <3>2. job'[j].stage = "prep" /\ job'[j].file = FileOf(j) /\ job'[j].block = order[j]
      BY <1>7, <1>9, <3>1
    <3> QED BY <1>1, <1>2, <3>1, <3>2
  <2>4. job' = [j \in JobId |-> job'[j]] BY <1>1
  <2>5. job' \in [JobId -> JobRecord] BY <2>2, <2>4
  <2>6. \A j \in JobId : \/ job'[j] = NoJob
                         \/ job'[j].stage # "none" /\ job'[j].file \in File /\ job'[j].block \in Block
    BY <2>3, Zenon
  <2>7. ASSUME NEW i \in JobId, NEW j \in JobId, job'[i].stage # "none",
               job'[j].stage # "none", i # j
        PROVE  job'[i].file # job'[j].file
    <3>1. i \in DOMAIN order /\ j \in DOMAIN order BY <1>8, <2>7, NoJobTyped
    <3>2. job'[i].file = FileOf(i) /\ job'[j].file = FileOf(j) BY <1>7, <1>9, <3>1
    <3> QED BY <2>1, <2>7, <3>2
  <2> QED BY <2>5, <2>6, <2>7, Zenon DEF JobsOK
<1>12. ASSUME NEW j \in JobId PROVE JobInv(j)'
  <2>1. CASE j \in DOMAIN order
    <3>1. job'[j].stage = "prep" /\ job'[j].result = "none" BY <1>7, <1>9, <2>1
    <3>2. process'[<<j, "prep">>].os = "unborn" /\ future'[<<j, "prep">>] = "waiting"
      BY <1>5, <2>1
    <3> QED BY <3>1, <3>2 DEF JobInv, PreparedFile, EngineOnItsFile, ResultIsProven, Unsat
  <2>2. CASE j \notin DOMAIN order
    <3>1. job'[j].stage = "none" /\ job'[j].result = "none" BY <1>8, <2>2, NoJobTyped
    <3> QED BY <3>1 DEF JobInv, PreparedFile, EngineOnItsFile, ResultIsProven, Unsat
  <2> QED BY <2>1, <2>2
<1>13. ASSUME NEW j \in JobId, job'[j].stage # "none" PROVE job'[j].block \in S
  <2>1. j \in DOMAIN order BY <1>13, <1>8, NoJobTyped
  <2>2. job'[j].block = order[j] BY <1>7, <1>9, <2>1
  <2> QED BY <1>2, <2>1, <2>2
<1>14. ASSUME NEW b \in S PROVE \E j \in JobId : job'[j].stage # "none" /\ job'[j].block = b
  <2>1. PICK i \in DOMAIN order : order[i] = b BY <1>2
  <2>2. i \in JobId /\ job'[i].stage # "none" /\ job'[i].block = b
    BY <1>1, <1>7, <1>9, <2>1
  <2> QED BY <2>2
<1> QED BY <1>3, <1>11, <1>12, <1>13, <1>14

-----------------------------------------------------------------------------
(* The invariant is initial                                                *)

LEMMA Initially == Init => IInv
<1> SUFFICES ASSUME Init PROVE IInv
  OBVIOUS
<1>1. RunnerOK BY FreshTyped DEF Init, RunnerInit, RunnerOK, Fate
<1>2. MainOK BY OffTyped DEF Init, MainOK
<1>3. main.phase = "off" /\ main.exit = "none" /\ \A j \in JobId : job[j] = NoJob
  BY OffTyped DEF Init
<1>4. JobsOK BY NoJobs DEF Init
<1>5. StoreOK /\ StoredIsProven
  <2>1. PICK stored \in Stored :
          /\ disk = [s \in Step |-> IF stored[s] = {} THEN Absent ELSE Written(stored[s])]
          /\ proven = [ever |-> UNION {stored[s] : s \in Step}, now |-> {}]
    BY DEF Init
  <2>2. \A s \in Step : stored[s] \subseteq {b \in Block : b.step = s}
    BY ConductorAssumption
  <2>3. proven["ever"] = UNION {stored[s] : s \in Step} /\ proven["now"] = {}
    BY <2>1
  <2>4. proven = [h \in {"ever", "now"} |-> proven[h]]
    BY <2>1
  <2>5. \A s \in Step : /\ disk[s] \in [state : {"absent", "torn", "written"}, blocks : SUBSET Block]
                        /\ disk[s].blocks = stored[s]
    BY <2>1, <2>2 DEF Absent, Written
  <2>6. files \in [File -> Block \cup {NoBlock}] BY DEF Init
  <2>7. HistoryOK(rewritten)
    <3>1. rewritten = [ever |-> {}, now |-> {}] BY DEF Init
    <3> QED BY <3>1 DEF HistoryOK
  <2>8. StoreOK BY <2>1, <2>3, <2>4, <2>5, <2>6, <2>7 DEF StoreOK, HistoryOK
  <2>9. \A s \in Step : \A b \in stored[s] : b \in proven["ever"] BY <2>3
  <2>10. StoredIsProven BY <2>2, <2>5, <2>9 DEF StoredIsProven, Vouched
  <2> QED BY <2>8, <2>10
<1>6. \A j \in JobId : JobInv(j)
  BY <1>3 DEF JobInv, PreparedFile, EngineOnItsFile, ResultIsProven, Working
<1>7. BuildOfStep /\ ProveBatch /\ FirstStep /\ ExitWhenOff /\ HonestExit
  BY <1>3 DEF BuildOfStep, ProveBatch, FirstStep, ExitWhenOff, HonestExit
<1> QED BY <1>1, <1>2, <1>4, <1>5, <1>6, <1>7 DEF IInv

-----------------------------------------------------------------------------
(* The invariant is kept: the runner and the commands                      *)

\* What leaves the conductor alone, and says nothing of a command that its
\* end has not said.
LEMMA RunnerKeepsInvariant ==
  ASSUME IInv, RunnerOK', UNCHANGED <<main, job, files, disk, proven, rewritten>>,
         \A p \in Proc, c \in {"0", Unsat} :
           /\ process'[p].os = c => process[p].os = c
           /\ future'[p] = c => future[p] = c \/ process[p].os = c,
         \A p \in Proc : process'[p].read \subseteq process[p].read
  PROVE  IInv'
<1>1. MainOK' /\ JobsOK' /\ StoreOK' BY DEF IInv, MainOK, JobsOK, StoreOK, HistoryOK
<1>2. ASSUME NEW j \in JobId PROVE JobInv(j)'
  <2>1. <<j, "prep">> \in Proc /\ <<j, EngineKind>> \in Proc
    BY ConductorAssumption DEF Kinds, EngineKind
  <2>2. JobInv(j) BY DEF IInv
  <2>3. PreparedFile(j)' BY <2>1, <2>2 DEF JobInv, PreparedFile, Working, Undisturbed
  <2>4. EngineKind' = EngineKind BY DEF EngineKind
  <2>5. EngineOnItsFile(j)'
    BY <2>1, <2>2, <2>4 DEF JobInv, EngineOnItsFile, Working, Undisturbed
  <2>6. ResultIsProven(j)' BY <2>2 DEF JobInv, ResultIsProven, Working, Vouched
  <2> QED BY <2>3, <2>5, <2>6 DEF JobInv
<1>3. BuildOfStep' /\ ProveBatch' /\ FirstStep' /\ ExitWhenOff'
  BY DEF IInv, BuildOfStep, ProveBatch, FirstStep, ExitWhenOff, WholeProof, Covered, Vouched
<1>4. StoredIsProven' /\ HonestExit'
  BY DEF IInv, StoredIsProven, HonestExit, Covered, Vouched
<1> QED BY <1>1, <1>2, <1>3, <1>4 DEF IInv

LEMMA PollKeepsInvariant ==
  ASSUME IInv, PollCallback PROVE IInv'
BY PollEffect, RunnerKeepsInvariant DEF PollCallback, IInv, histories

LEMMA WorksKeepsInvariant ==
  ASSUME IInv, NEW p \in Proc, Works(p) PROVE IInv'
BY CommandEffect, RunnerKeepsInvariant DEF Works, IInv, histories

\* A command has come to its end: aig-manip has written its file, or an engine
\* has answered for what its file holds.
LEMMA EndsKeepsInvariant ==
  ASSUME IInv, NEW p \in Proc, Ends(p) PROVE IInv'
<1> DEFINE i == p[1]
<1>1. p = <<i, p[2]>> /\ i \in JobId /\ p[2] \in Kinds BY ConductorAssumption
<1>2. UNCHANGED <<main, job, disk, rewritten>> BY DEF Ends
<1>3. PICK c \in Codes : Exit(p, c)
  BY ConductorAssumption DEF Ends, CommandExits, Unsat
<1>4. /\ RunnerOK' /\ future' = future /\ process'[p].os = c
      /\ process'[p].read = process[p].read
      /\ \A q \in Proc \ {p} : process'[q] = process[q]
  BY <1>3, CommandEffect DEF IInv
<1>5. \/ /\ p[2] = "prep" /\ proven' = proven
         /\ \/ files' = [files EXCEPT ![job[i].file] = job[i].block]
            \/ process'[p].os = "1" /\ files' = files
      \/ /\ p[2] # "prep" /\ files' = files
         /\ \/ proven' = With(proven, Input(p))
            \/ process'[p].os # Unsat /\ proven' = proven
  <2>1. \A d \in Codes : Exit(p, d) => process'[p].os = d
    BY CommandEffect DEF IInv
  <2> QED BY <2>1, ConductorAssumption DEF Ends, CommandExits, Unsat
<1> HIDE DEF i
<1>6. /\ \A h \in {"ever", "now"} : proven[h] \subseteq proven'[h]
      /\ HistoryOK(proven)'
  <2>1. HistoryOK(proven) BY DEF IInv, StoreOK
  <2>2. CASE proven' = proven BY <2>1, <2>2 DEF HistoryOK
  <2>3. CASE proven' = With(proven, Input(p)) BY <2>1, <2>3 DEF HistoryOK, With
  <2> QED BY <1>5, <2>2, <2>3
<1>7. StoreOK'
  <2>1. files' \in [File -> Block \cup {NoBlock}]
    <3>1. job[i].block \in Block \cup {NoBlock}
      BY <1>1 DEF IInv, JobsOK, JobRecord
    <3> QED BY <1>5, <3>1 DEF IInv, StoreOK
  <2> QED BY <1>2, <1>6, <2>1 DEF IInv, StoreOK, HistoryOK
<1>8. MainOK' /\ JobsOK' BY <1>2 DEF IInv, MainOK, JobsOK
<1>9. ASSUME NEW j \in JobId PROVE JobInv(j)'
  <2>1. JobInv(j) BY DEF IInv
  <2>2. /\ EngineKind' = EngineKind /\ Working' = Working /\ Undisturbed(j)' = Undisturbed(j)
        /\ job'[j] = job[j]
    BY <1>2 DEF EngineKind, Working, Undisturbed
  <2>3. /\ job[j].stage # "none" => job[j].file \in File
        /\ job[j].stage # "none" /\ j # i /\ job[i].stage # "none" => job[i].file # job[j].file
        /\ job[i].stage = "none" => job[i].file \notin File
    BY <1>1, NoJobTyped DEF IInv, JobsOK
  <2>4. ResultIsProven(j)' BY <1>2, <1>6, <2>1, <2>2 DEF JobInv, ResultIsProven, Vouched
  <2>5. CASE job[j].stage \notin {"prep", "engine"}
    BY <2>2, <2>4, <2>5 DEF JobInv, PreparedFile, EngineOnItsFile
  <2>6. CASE job[j].stage \in {"prep", "engine"}
    <3>1. <<j, "prep">> \in Proc /\ <<j, EngineKind>> \in Proc /\ EngineKind # "prep"
      BY ConductorAssumption DEF Kinds, EngineKind
    <3>2. job[j].file \in File BY <2>3, <2>6
    <3>3. \/ files'[job[j].file] = files[job[j].file]
          \/ files'[job[j].file] = job[j].block
      BY <1>5, <2>3, <2>6, <3>2 DEF IInv, StoreOK
    <3>4. PreparedFile(j)'
      <4>1. CASE p = <<j, "prep">> /\ process'[p].os # "1"
        <5>1. i = j /\ p[2] = "prep" BY <1>1, <4>1
        <5>2. files' = [files EXCEPT ![job[i].file] = job[i].block] BY <1>5, <4>1, <5>1
        <5>3. files'[job[j].file] = job[j].block BY <3>2, <5>1, <5>2 DEF IInv, StoreOK
        <5> QED BY <2>2, <5>3 DEF PreparedFile
      <4>2. CASE p # <<j, "prep">> \/ process'[p].os = "1"
        <5>1. process'[<<j, "prep">>].os = "0" => process[<<j, "prep">>].os = "0"
          BY <1>4, <3>1, <4>2
        <5> QED BY <1>4, <2>1, <2>2, <3>3, <5>1 DEF JobInv, PreparedFile
      <4> QED BY <4>1, <4>2
    <3>5. EngineOnItsFile(j)'
      <4>1. CASE p = <<j, EngineKind>>
        <5>1. p[2] # "prep" /\ i = j /\ files' = files BY <1>1, <1>5, <3>1, <4>1
        <5>2. CASE proven' = With(proven, Input(p))
          <6>1. ASSUME Working, Undisturbed(j), job[j].stage = "engine"
                PROVE  job[j].block \in Input(p)
            <7>1. files[job[j].file] = job[j].block /\ process[p].read \subseteq {job[j].block}
              BY <2>1, <4>1, <6>1 DEF JobInv, EngineOnItsFile
            <7> QED BY <1>1, <4>1, <5>1, <7>1 DEF Input
          <6>2. Input(p) \subseteq proven'["now"] BY <5>2 DEF With
          <6> QED BY <1>4, <2>1, <2>2, <4>1, <5>1, <6>1, <6>2 DEF JobInv, EngineOnItsFile
        <5>3. CASE process'[p].os # Unsat /\ proven' = proven
          BY <1>4, <2>1, <2>2, <4>1, <5>1, <5>3 DEF JobInv, EngineOnItsFile
        <5> QED BY <1>5, <5>1, <5>2, <5>3
      <4>2. CASE p # <<j, EngineKind>>
        <5>1. <<j, EngineKind>> \in Proc \ {p} BY <3>1, <4>2
        <5> QED BY <1>4, <1>6, <2>1, <2>2, <3>3, <5>1 DEF JobInv, EngineOnItsFile
      <4> QED BY <4>1, <4>2
    <3> QED BY <2>4, <3>4, <3>5 DEF JobInv
  <2> QED BY <2>5, <2>6
<1>11. BuildOfStep' BY <1>2, <1>6 DEF IInv, BuildOfStep, Vouched
<1>12. ProveBatch' /\ FirstStep' /\ ExitWhenOff'
  BY <1>2 DEF IInv, ProveBatch, FirstStep, ExitWhenOff, WholeProof, Covered
<1>13. StoredIsProven' BY <1>2, <1>6 DEF IInv, StoredIsProven, Vouched
<1>14. HonestExit' BY <1>2, <1>6 DEF IInv, HonestExit, Covered, Vouched
<1> QED BY <1>4, <1>7, <1>8, <1>9, <1>11, <1>12, <1>13, <1>14 DEF IInv

-----------------------------------------------------------------------------
(* The invariant is kept: the coroutines of a batch                        *)

\* A step that leaves the store alone, and the main coroutine but for its phase.
LEMMA StoreStays ==
  ASSUME IInv, UNCHANGED <<files, disk, proven, rewritten>>
  PROVE  /\ StoreOK' /\ StoredIsProven'
         /\ main'.exit # "ok" => HonestExit'
         /\ main'.phase # "build" => BuildOfStep'
         /\ main'.phase # "run" => ProveBatch'
         /\ main'.phase # "steps" => FirstStep'
         /\ main'.phase \notin {"build", "run"} => \A j \in JobId : JobInv(j)'
<1>1. StoreOK' /\ StoredIsProven' BY DEF IInv, StoreOK, HistoryOK, StoredIsProven, Vouched
<1>2. main'.exit # "ok" => HonestExit' BY DEF HonestExit
<1>3. /\ main'.phase # "build" => BuildOfStep'
      /\ main'.phase # "run" => ProveBatch'
      /\ main'.phase # "steps" => FirstStep'
  BY DEF BuildOfStep, ProveBatch, FirstStep
<1>4. main'.phase \notin {"build", "run"} => \A j \in JobId : JobInv(j)'
  BY DEF JobInv, PreparedFile, EngineOnItsFile, ResultIsProven, Working
<1> QED BY <1>1, <1>2, <1>3, <1>4

LEMMA StageMoves ==
  ASSUME JobsOK, NEW i \in JobId, job[i].stage # "none",
         NEW stage \in {"engine", "over"}, NEW result \in Fate \cup {"none"},
         job' = [job EXCEPT ![i].stage = stage, ![i].result = result]
  PROVE  /\ JobsOK'
         /\ \A j \in JobId \ {i} : job'[j] = job[j]
         /\ job'[i].stage = stage /\ job'[i].result = result
         /\ job'[i].block = job[i].block /\ job'[i].file = job[i].file
<1> DEFINE new == [job[i] EXCEPT !.stage = stage, !.result = result]
<1>1. job[i] \in JobRecord BY DEF JobsOK
<1>2. job[i].file \in File /\ job[i].block \in Block BY NoJobTyped DEF JobsOK
<1>3. /\ new \in JobRecord /\ new.stage = stage /\ new.result = result
      /\ new.block = job[i].block /\ new.file = job[i].file
  BY <1>1 DEF JobRecord
<1>4. job' = [job EXCEPT ![i] = new]
  BY DEF JobsOK
<1> HIDE DEF new
<1>6. job' \in [JobId -> JobRecord] /\ job'[i] = new /\ \A j \in JobId \ {i} : job'[j] = job[j]
  BY <1>3, <1>4 DEF JobsOK
<1>7. JobsOK'
  <2>1. ASSUME NEW j \in JobId, job'[j] # NoJob
        PROVE  job'[j].stage # "none" /\ job'[j].file \in File /\ job'[j].block \in Block
    <3>1. CASE j = i BY <1>2, <1>3, <1>6, <3>1
    <3>2. CASE j # i BY <1>6, <2>1, <3>2 DEF JobsOK
    <3> QED BY <3>1, <3>2
  <2>2. \A j \in JobId : \/ job'[j] = NoJob
                         \/ job'[j].stage # "none" /\ job'[j].file \in File /\ job'[j].block \in Block
    BY <2>1, Zenon
  <2>3. \A j \in JobId : job'[j].file = job[j].file
                         /\ (job'[j].stage # "none" => job[j].stage # "none")
    BY <1>3, <1>6
  <2>4. \A h, j \in JobId :
          job'[h].stage # "none" /\ job'[j].stage # "none" /\ h # j => job'[h].file # job'[j].file
    BY <2>3 DEF JobsOK
  <2> QED BY <1>6, <2>2, <2>4, Zenon DEF JobsOK
<1> QED BY <1>3, <1>6, <1>7

\* The file is prepared, and its engine is queued.
LEMMA RunEngineKeepsInvariant ==
  ASSUME IInv, NEW i \in JobId, RunEngine(i) PROVE IInv'
<1> DEFINE e == <<i, EngineKind>>
           ps == << e >>
<1>1. /\ Working /\ job[i].stage = "prep" /\ future[<<i, "prep">>] = "0"
      /\ job' = [job EXCEPT ![i].stage = "engine"] /\ Shell(ps)
      /\ UNCHANGED <<main, files, disk, proven, rewritten>>
  BY DEF RunEngine, Working, Prepared, histories
<1>2. e \in Proc /\ ToSet(ps) = {e} /\ EngineKind # "prep"
  BY ConductorAssumption DEF Kinds, EngineKind, ToSet
<1> HIDE DEF ps
<1>3. /\ RunnerOK' /\ process'[e].os = "unborn" /\ future'[e] = "waiting"
      /\ process'[e].read = {}
      /\ \A p \in Proc \ {e} : process'[p] = process[p] /\ future'[p] = future[p]
  BY <1>1, <1>2, ShellEffect DEF IInv
<1>4. /\ JobsOK' /\ job'[i].stage = "engine" /\ job'[i].block = job[i].block
      /\ job'[i].file = job[i].file /\ job'[i].result = job[i].result
      /\ \A j \in JobId \ {i} : job'[j] = job[j]
  <2>1. job[i].result \in Fate \cup {"none"} /\ job[i] \in JobRecord /\ job \in [JobId -> JobRecord]
    BY DEF IInv, JobsOK, JobRecord
  <2>2. job' = [job EXCEPT ![i].stage = "engine", ![i].result = job[i].result]
    <3>1. [job[i] EXCEPT !.stage = "engine"]
            = [job[i] EXCEPT !.stage = "engine", !.result = job[i].result]
      BY <2>1 DEF JobRecord
    <3> QED BY <1>1, <2>1, <3>1
  <2> QED BY <1>1, <2>1, <2>2, StageMoves DEF IInv
<1> HIDE DEF e
<1>5. MainOK' BY <1>1 DEF IInv, MainOK
<1>6. ASSUME NEW j \in JobId PROVE JobInv(j)'
  <2>1. JobInv(j) /\ JobInv(i) BY DEF IInv
  <2>2. EngineKind' = EngineKind /\ Working' = Working /\ Undisturbed(j)' = Undisturbed(j)
    BY <1>1, <1>4 DEF EngineKind, Working, Undisturbed
  <2>3. <<j, "prep">> \in Proc \ {e} BY <1>2, ConductorAssumption DEF Kinds, e
  <2>4. PreparedFile(j)'
    BY <1>1, <1>3, <1>4, <2>1, <2>2, <2>3 DEF JobInv, PreparedFile
  <2>5. EngineOnItsFile(j)'
    <3>1. CASE j = i
      <4>1. Undisturbed(i) => files[job[i].file] = job[i].block
        BY <1>1, <2>1 DEF JobInv, PreparedFile
      <4> QED BY <1>1, <1>3, <1>4, <2>2, <3>1, <4>1 DEF EngineOnItsFile, e, Unsat
    <3>2. CASE j # i
      <4>1. <<j, EngineKind>> \in Proc \ {e}
        BY <3>2, ConductorAssumption DEF Kinds, EngineKind, e
      <4> QED BY <1>1, <1>3, <1>4, <2>1, <2>2, <3>2, <4>1 DEF JobInv, EngineOnItsFile
    <3> QED BY <3>1, <3>2
  <2>6. ResultIsProven(j)' BY <1>1, <1>4, <2>1, <2>2 DEF JobInv, ResultIsProven, Vouched
  <2> QED BY <2>4, <2>5, <2>6 DEF JobInv
<1>7. BuildOfStep'
  <2>1. \A j \in JobId : job'[j].stage # "none" => job[j].stage # "none" /\ job'[j].block = job[j].block
    BY <1>1, <1>4
  <2> QED BY <1>1, <2>1 DEF IInv, BuildOfStep, Vouched
<1>8. ProveBatch'
  <2>1. \A j \in JobId : job[j].stage # "none" => job'[j].stage # "none" /\ job'[j].block = job[j].block
    BY <1>1, <1>4
  <2> QED BY <1>1, <2>1 DEF IInv, ProveBatch, WholeProof, Covered
<1>9. FirstStep' /\ ExitWhenOff' BY <1>1 DEF IInv, FirstStep, ExitWhenOff, WholeProof
<1>10. StoreOK' /\ StoredIsProven' /\ HonestExit'
  BY <1>1 DEF IInv, StoreOK, HistoryOK, StoredIsProven, HonestExit, Covered, Vouched
<1> QED BY <1>3, <1>4, <1>5, <1>6, <1>7, <1>8, <1>9, <1>10 DEF IInv

\* race raises after the first engine is queued; the batch is then given up.
LEMMA RaceRaisesKeepsInvariant ==
  ASSUME IInv, NEW i \in JobId, RaceRaises(i) PROVE IInv'
<1> DEFINE ps == << <<i, EngineKind>> >>
<1>1. /\ job[i].stage = "prep" /\ main.phase = "build"
      /\ job' = [job EXCEPT ![i].stage = "engine"] /\ Shell(ps)
      /\ main' = [main EXCEPT !.phase = "raised"]
      /\ UNCHANGED <<files, disk, proven, rewritten>>
  BY DEF RaceRaises, histories
<1> HIDE DEF ps
<1>2. RunnerOK' BY <1>1, ShellEffect DEF IInv
<1>3. JobsOK'
  <2>1. job[i].result \in Fate \cup {"none"} /\ job[i] \in JobRecord /\ job \in [JobId -> JobRecord]
    BY DEF IInv, JobsOK, JobRecord
  <2>2. job' = [job EXCEPT ![i].stage = "engine", ![i].result = job[i].result]
    <3>1. [job[i] EXCEPT !.stage = "engine"]
            = [job[i] EXCEPT !.stage = "engine", !.result = job[i].result]
      BY <2>1 DEF JobRecord
    <3> QED BY <1>1, <2>1, <3>1
  <2> QED BY <1>1, <2>1, <2>2, StageMoves DEF IInv
<1>4. MainOK' /\ main'.phase = "raised" /\ main'.exit = main.exit
  BY <1>1 DEF IInv, MainOK
<1>5. ExitWhenOff' /\ main'.exit # "ok"
  BY <1>1, <1>4 DEF IInv, ExitWhenOff
<1> QED BY <1>1, <1>2, <1>3, <1>4, <1>5, StoreStays DEF IInv

LEMMA AssertRaisesKeepsInvariant ==
  ASSUME IInv, NEW i \in JobId, AssertRaises(i) PROVE IInv'
<1>1. /\ main.phase \in {"build", "run"} /\ main' = [main EXCEPT !.phase = "raised"]
      /\ UNCHANGED <<pending, running, process, future, orphans, job, files, disk, proven, rewritten>>
  BY DEF AssertRaises, runnerVars, histories
<1>2. RunnerOK' /\ JobsOK' BY <1>1 DEF IInv, RunnerOK, JobsOK
<1>3. MainOK' /\ main'.phase = "raised" /\ main'.exit = main.exit
  BY <1>1 DEF IInv, MainOK
<1>4. ExitWhenOff' /\ main'.exit # "ok"
  BY <1>1, <1>3 DEF IInv, ExitWhenOff
<1> QED BY <1>1, <1>2, <1>3, <1>4, StoreStays DEF IInv

\* A result that says UNSAT says it of the file of the block.
LEMMA EngineDoneKeepsInvariant ==
  ASSUME IInv, NEW i \in JobId, EngineDone(i) PROVE IInv'
<1> DEFINE e == <<i, EngineKind>>
<1>1. /\ Working /\ job[i].stage = "engine"
      /\ job' = [job EXCEPT ![i].stage = "over", ![i].result = future[e]]
      /\ UNCHANGED <<pending, running, process, future, orphans, main, files, disk, proven, rewritten>>
  BY DEF EngineDone, Working, runnerVars, histories
<1>2. e \in Proc /\ future[e] \in Fate
  BY ConductorAssumption DEF Kinds, EngineKind, IInv, RunnerOK
<1>3. /\ JobsOK' /\ job'[i].stage = "over" /\ job'[i].block = job[i].block
      /\ job'[i].file = job[i].file /\ job'[i].result = future[e]
      /\ \A j \in JobId \ {i} : job'[j] = job[j]
  BY <1>1, <1>2, StageMoves DEF IInv
<1>4. MainOK' /\ RunnerOK' BY <1>1 DEF IInv, MainOK, RunnerOK
<1>5. ASSUME NEW j \in JobId PROVE JobInv(j)'
  <2>1. JobInv(j) /\ JobInv(i) BY DEF IInv
  <2>2. EngineKind' = EngineKind /\ Working' = Working /\ Undisturbed(j)' = Undisturbed(j)
    BY <1>1, <1>3 DEF EngineKind, Working, Undisturbed
  <2>3. PreparedFile(j)'
    BY <1>1, <1>3, <2>1, <2>2 DEF JobInv, PreparedFile
  <2>4. EngineOnItsFile(j)'
    BY <1>1, <1>3, <2>1, <2>2 DEF JobInv, EngineOnItsFile
  <2>5. ResultIsProven(j)'
    <3>1. CASE j = i
      BY <1>1, <1>3, <2>1, <2>2, <3>1 DEF JobInv, EngineOnItsFile, ResultIsProven, Undisturbed, Vouched
    <3>2. CASE j # i
      BY <1>1, <1>3, <2>1, <2>2, <3>2 DEF JobInv, ResultIsProven, Vouched
    <3> QED BY <3>1, <3>2
  <2> QED BY <2>3, <2>4, <2>5 DEF JobInv
<1>6. BuildOfStep'
  <2>1. \A j \in JobId : job'[j].stage # "none" => job[j].stage # "none" /\ job'[j].block = job[j].block
    BY <1>1, <1>3
  <2> QED BY <1>1, <2>1 DEF IInv, BuildOfStep, Vouched
<1>7. ProveBatch'
  <2>1. \A j \in JobId : job[j].stage # "none" => job'[j].stage # "none" /\ job'[j].block = job[j].block
    BY <1>1, <1>3
  <2>2. main' = main BY <1>1
  <2> QED BY <2>1, <2>2 DEF IInv, ProveBatch, WholeProof, Covered
<1>8. FirstStep' /\ ExitWhenOff' BY <1>1 DEF IInv, FirstStep, ExitWhenOff, WholeProof
<1>9. StoreOK' /\ StoredIsProven' /\ HonestExit'
  BY <1>1 DEF IInv, StoreOK, HistoryOK, StoredIsProven, HonestExit, Covered, Vouched
<1> QED BY <1>3, <1>4, <1>5, <1>6, <1>7, <1>8, <1>9 DEF IInv

-----------------------------------------------------------------------------
(* The invariant is kept: the main coroutine                               *)

LEMMA StartBatch ==
  ASSUME IInv, NEW S \in SUBSET Block, Batch(S), MainOK',
         main'.phase \in {"build", "run"}, main'.exit = "none"
  PROVE  /\ RunnerOK' /\ JobsOK' /\ \A j \in JobId : JobInv(j)'
         /\ \A j \in JobId : job'[j].stage # "none" => job'[j].block \in S
         /\ \A b \in S : \E j \in JobId : job'[j].stage # "none" /\ job'[j].block = b
         /\ FirstStep' /\ ExitWhenOff' /\ HonestExit'
BY BatchEffect DEF IInv, FirstStep, ExitWhenOff, HonestExit

\* On to the next step, with nothing left of the batch.
LEMMA ToNextStep ==
  ASSUME IInv, main.phase # "off", main' = NextStep,
         main.opt.mode = "explore" \/ main.opt.byStep = TRUE
  PROVE  /\ MainOK' /\ (\A j \in JobId : JobInv(j)') /\ BuildOfStep' /\ ProveBatch'
         /\ FirstStep' /\ ExitWhenOff' /\ HonestExit'
<1>1. /\ MainOK' /\ main'.phase = "steps" /\ main'.exit = main.exit
      /\ main'.opt = main.opt
  <2>1. main.step + 1 \in Nat BY FieldsOfMain DEF IInv
  <2>2. main' = [main EXCEPT !.phase = "steps", !.step = main.step + 1]
    BY DEF IInv, MainOK, NextStep
  <2> DEFINE n == main.step + 1
  <2> HIDE DEF n
  <2>3. n \in Nat /\ main' = [main EXCEPT !.phase = "steps", !.step = n]
    BY <2>1, <2>2 DEF n
  <2> QED BY <2>3 DEF IInv, MainOK
<1>2. main'.exit = "none" BY <1>1 DEF IInv, ExitWhenOff
<1>3. BuildOfStep' /\ ProveBatch' /\ FirstStep' /\ ExitWhenOff' /\ HonestExit'
  BY <1>1, <1>2 DEF BuildOfStep, ProveBatch, FirstStep, ExitWhenOff, HonestExit, WholeProof
<1>4. \A j \in JobId : JobInv(j)'
  BY <1>1 DEF JobInv, PreparedFile, EngineOnItsFile, ResultIsProven, Working
<1> QED BY <1>1, <1>3, <1>4

\* The main coroutine waits for a batch, whose files are counted.
LEMMA WaitsEffect ==
  ASSUME MainOK, NEW phase \in {"build", "run"}, NEW engines \in Nat,
         NEW old \in SUBSET Block, NEW blocks \in SUBSET Block,
         main' = Waits(phase, engines, old, blocks)
  PROVE  /\ MainOK' /\ main'.phase = phase /\ main'.old = old
         /\ main'.exit = main.exit /\ main'.opt = main.opt /\ main'.step = main.step
<1>1. Cardinality(blocks) \in Nat BY BlocksAreFinite, FS_Subset, FS_CardinalityType
<1> DEFINE n == main.aigerIdx + Cardinality(blocks)
<1>2. n \in Nat BY <1>1, FieldsOfMain
<1>3. main' = [main EXCEPT !.phase = phase, !.engines = engines, !.old = old, !.aigerIdx = n]
  BY DEF Waits, MainOK
<1> HIDE DEF n
<1> QED BY <1>2, <1>3 DEF MainOK

LEMMA RunOrSkipEffect ==
  ASSUME IInv, NEW S \in SUBSET Block, NEW new, RunOrSkip(S, new),
         main.phase # "off", main.opt.mode = "explore"
  PROVE  /\ RunnerOK' /\ MainOK' /\ JobsOK' /\ (\A j \in JobId : JobInv(j)')
         /\ BuildOfStep' /\ ProveBatch' /\ FirstStep' /\ ExitWhenOff' /\ HonestExit'
<1>1. CASE /\ main' = NextStep /\ job' = [j \in JobId |-> NoJob]
           /\ UNCHANGED <<pending, running, process, future, orphans>>
  <2>1. RunnerOK' /\ JobsOK' BY <1>1, NoJobs DEF IInv, RunnerOK
  <2> QED BY <1>1, <2>1, ToNextStep
<1>2. CASE main' = Waits("run", 1, S, S) /\ Batch(S)
  <2>1. /\ MainOK' /\ main'.phase = "run" /\ main'.exit = main.exit
        /\ main'.opt = main.opt
    BY <1>2, WaitsEffect DEF IInv
  <2>2. main'.exit = "none" BY <2>1 DEF IInv, ExitWhenOff
  <2>3. BuildOfStep' /\ ProveBatch'
    BY <2>1 DEF BuildOfStep, ProveBatch, WholeProof
  <2> QED BY <1>2, <2>1, <2>2, <2>3, StartBatch
<1> QED BY <1>1, <1>2 DEF RunOrSkip, runnerVars

LEMMA LoadedBlocks ==
  ASSUME IInv, NEW s \in Step
  PROVE  Load(s) \in SUBSET Block /\ \A b \in Load(s) : b \in Vouched("ever") /\ b.step = s
<1>1. disk[s].blocks \in SUBSET Block BY DEF IInv, StoreOK
<1>3. \A b \in disk[s].blocks : b \in Vouched("ever") /\ b.step = s
  BY DEF IInv, StoredIsProven
<1>4. Load(s) \subseteq disk[s].blocks BY DEF Load
<1> QED BY <1>1, <1>3, <1>4

LEMMA ExploreStepKeepsInvariant ==
  ASSUME IInv, ExploreStep PROVE IInv'
<1> DEFINE s == main.step
           old == Load(s)
           missing == Props[s] \ Covered(old)
           single == {[step |-> s, props |-> {n}] : n \in missing}
<1>1. /\ main.phase = "steps" /\ main.opt.mode = "explore" /\ s \in Step
      /\ UNCHANGED <<files, disk, proven, rewritten>>
      /\ \/ RunOrSkip(old, FALSE)
         \/ TryEngines(old, single)
         \/ RaceBlock
  BY DEF ExploreStep, histories
<1>2. old \in SUBSET Block /\ \A b \in old : b \in Vouched("ever") /\ b.step = s
  BY <1>1, LoadedBlocks
<1>3. single \in SUBSET Block /\ \A b \in single : b.step = s
  BY <1>1 DEF Block, Name
<1>4. main.exit = "none" BY <1>1 DEF IInv, ExitWhenOff
<1> HIDE DEF old, single
<1>5. CASE RunOrSkip(old, FALSE)
  BY <1>1, <1>2, <1>5, RunOrSkipEffect, StoreStays DEF IInv
<1>6. CASE TryEngines(old, single)
  <2>1. Batch(single) BY <1>6 DEF TryEngines
  <2>2. /\ MainOK' /\ main'.phase = "build" /\ main'.exit = main.exit /\ main'.old = old
        /\ main'.opt = main.opt /\ main'.step = main.step
    BY <1>2, <1>3, <1>6, WaitsEffect DEF TryEngines, IInv
  <2>3. /\ RunnerOK' /\ JobsOK' /\ \A j \in JobId : JobInv(j)'
        /\ \A j \in JobId : job'[j].stage # "none" => job'[j].block \in single
        /\ FirstStep' /\ ExitWhenOff' /\ HonestExit'
    BY <1>3, <1>4, <2>1, <2>2, StartBatch
  <2>4. BuildOfStep' BY <1>1, <1>2, <1>3, <2>2, <2>3 DEF BuildOfStep, Vouched
  <2> QED BY <1>1, <2>2, <2>3, <2>4, StoreStays DEF IInv
<1>7. CASE RaceBlock
  <2>1. /\ MainOK' /\ main'.phase = "raised" /\ main'.exit = main.exit
        /\ UNCHANGED <<pending, running, process, future, orphans, job>>
    BY <1>7 DEF RaceBlock, NoBatch, runnerVars, IInv, MainOK
  <2>2. RunnerOK' /\ JobsOK' BY <2>1 DEF IInv, RunnerOK, JobsOK
  <2>3. ExitWhenOff' BY <1>4, <2>1 DEF ExitWhenOff
  <2> QED BY <1>1, <1>4, <2>1, <2>2, <2>3, StoreStays DEF IInv
<1> QED BY <1>1, <1>5, <1>6, <1>7

\* What is stored for a step: what was loaded, and what an engine has proved.
LEMMA StoreStepKeepsInvariant ==
  ASSUME IInv, StoreStep PROVE IInv'
<1> DEFINE new == main.old \cup Found
<1>1. /\ main.phase = "build" /\ UNCHANGED <<files, proven, rewritten>> /\ RunOrSkip(new, TRUE)
      /\ \/ disk' = disk
         \/ \E file \in {Written(new), Torn} : disk' = [disk EXCEPT ![main.step] = file]
  BY DEF StoreStep, histories
<1>2. main.opt.mode = "explore" /\ main.step \in Step
  BY <1>1 DEF IInv, BuildOfStep
<1>3. \A b \in Found : b \in Block /\ b \in Vouched("ever") /\ b.step = main.step
  <2> SUFFICES ASSUME NEW j \in JobId, job[j].stage # "none", job[j].result = Unsat
               PROVE  /\ job[j].block \in Block /\ job[j].block \in Vouched("ever")
                      /\ job[j].block.step = main.step
    BY DEF Found, Answered, Jobs
  <2>1. job[j].block \in Block BY NoJobTyped DEF IInv, JobsOK
  <2>2. job[j].block \in Vouched("now") BY <1>1 DEF IInv, JobInv, ResultIsProven, Working
  <2>3. Vouched("now") \subseteq Vouched("ever") BY DEF IInv, StoreOK, HistoryOK, Vouched
  <2>4. job[j].block.step = main.step BY <1>1 DEF IInv, BuildOfStep
  <2> QED BY <2>1, <2>2, <2>3, <2>4
<1>4. \A b \in main.old : b \in Block /\ b \in Vouched("ever") /\ b.step = main.step
  <2>1. main.old \in SUBSET Block BY FieldsOfMain DEF IInv
  <2> QED BY <1>1, <2>1 DEF IInv, BuildOfStep, Vouched
<1>5. new \in SUBSET Block /\ \A b \in new : b \in Vouched("ever") /\ b.step = main.step
  BY <1>3, <1>4
<1> HIDE DEF new
<1>6. /\ RunnerOK' /\ MainOK' /\ JobsOK' /\ (\A j \in JobId : JobInv(j)')
      /\ BuildOfStep' /\ ProveBatch' /\ FirstStep' /\ ExitWhenOff' /\ HonestExit'
  BY <1>1, <1>2, <1>5, RunOrSkipEffect
<1>7. /\ Written(new) \in [state : {"absent", "torn", "written"}, blocks : SUBSET Block]
      /\ Written(new).blocks = new
      /\ Torn \in [state : {"absent", "torn", "written"}, blocks : SUBSET Block]
      /\ Torn.blocks = {}
  BY <1>5 DEF Written, Torn
<1>8. StoreOK' BY <1>1, <1>7 DEF IInv, StoreOK, HistoryOK
<1>9. StoredIsProven'
  <2>1. Vouched("ever")' = Vouched("ever") BY <1>1 DEF Vouched
  <2>2. \A s \in Step : \/ disk'[s] = disk[s] \/ disk'[s] = Torn
                        \/ s = main.step /\ disk'[s] = Written(new)
    BY <1>1 DEF IInv, StoreOK
  <2> QED BY <1>1, <1>5, <1>7, <2>2 DEF IInv, StoredIsProven, Vouched
<1> QED BY <1>6, <1>8, <1>9 DEF IInv

LEMMA ExploreRunDoneKeepsInvariant ==
  ASSUME IInv, ExploreRunDone PROVE IInv'
<1>1. /\ main.phase = "run" /\ main.opt.mode = "explore" /\ main' = NextStep
      /\ job' = [j \in JobId |-> NoJob]
      /\ UNCHANGED <<pending, running, process, future, orphans, files, disk, proven, rewritten>>
  BY DEF ExploreRunDone, runnerVars, histories
<1>2. RunnerOK' /\ JobsOK' BY <1>1, NoJobs DEF IInv, RunnerOK
<1> QED BY <1>1, <1>2, ToNextStep, StoreStays DEF IInv

\* The conductor has ended, but for a success of prove mode without --by-step.
LEMMA EndKeepsInvariant ==
  ASSUME IInv, NEW exit \in {"ok", "failed", "crashed"}, Leave(exit),
         UNCHANGED <<files, disk, proven, rewritten>>, exit = "ok" => HonestExit'
  PROVE  IInv'
<1>1. /\ RunnerOK' /\ MainOK' /\ JobsOK' /\ main'.phase = "off" /\ main'.exit = exit
  BY LeaveEffect DEF IInv
<1>2. ExitWhenOff' BY <1>1 DEF ExitWhenOff
<1> QED BY <1>1, <1>2, StoreStays DEF IInv

LEMMA StoredBlocks ==
  ASSUME IInv PROVE AllStored \in SUBSET Block
BY LoadedBlocks DEF AllStored

LEMMA ProveAllKeepsInvariant ==
  ASSUME IInv, ProveAll PROVE IInv'
<1> DEFINE S == AllStored
<1>1. /\ main.phase = "steps" /\ WholeProof /\ UNCHANGED <<files, disk, proven, rewritten>>
      /\ \/ Leave("failed")
         \/ Complete /\ Batch(S) /\ main' = Waits("run", 1, S, S)
  <2>1. main.opt.byStep \in BOOLEAN
    BY FieldsOfMain DEF IInv, CommandLine
  <2> QED BY <2>1, Zenon DEF ProveAll, WholeProof, histories
<1>2. S \in SUBSET Block /\ main.exit = "none"
  BY <1>1, StoredBlocks DEF IInv, ExitWhenOff
<1>3. main.opt.check = TRUE /\ Complete => Name \subseteq Covered(S)
  BY Zenon DEF Complete
<1> HIDE DEF S
<1>4. CASE Leave("failed")
  BY <1>1, <1>4, EndKeepsInvariant
<1>5. CASE Complete /\ Batch(S) /\ main' = Waits("run", 1, S, S)
  <2>1. /\ MainOK' /\ main'.phase = "run" /\ main'.exit = main.exit /\ main'.old = S
        /\ main'.opt = main.opt
    BY <1>2, <1>5, WaitsEffect DEF IInv
  <2>2. /\ RunnerOK' /\ JobsOK' /\ \A j \in JobId : JobInv(j)'
        /\ \A b \in S : \E j \in JobId : job'[j].stage # "none" /\ job'[j].block = b
        /\ FirstStep' /\ ExitWhenOff' /\ HonestExit'
    BY <1>2, <1>5, <2>1, StartBatch
  <2>3. ProveBatch'
    BY <1>3, <1>5, <2>1, <2>2 DEF ProveBatch, Covered
  <2> QED BY <1>1, <2>1, <2>2, <2>3, StoreStays DEF IInv
<1> QED BY <1>1, <1>4, <1>5

\* Success: every block that was loaded had a coroutine, and each of these was
\* told UNSAT.
LEMMA ProveDoneKeepsInvariant ==
  ASSUME IInv, ProveDone PROVE IInv'
<1>1. /\ main.phase = "run" /\ WholeProof /\ Leave(ProveVerdict)
      /\ UNCHANGED <<files, disk, proven, rewritten>>
  <2>1. main.opt.byStep \in BOOLEAN
    BY FieldsOfMain DEF IInv, CommandLine
  <2> QED BY <2>1, Zenon DEF ProveDone, WholeProof, histories
<1>2. ProveVerdict \in {"ok", "failed", "crashed"} BY DEF ProveVerdict
<1>3. ASSUME ProveVerdict = "ok" PROVE HonestExit'
  <2>1. \A j \in JobId : job[j].stage # "none" => job[j].result = Unsat
    BY <1>3 DEF ProveVerdict, Jobs
  <2>2. \A j \in JobId : job[j].result = Unsat => job[j].block \in Vouched("now")
    BY <1>1 DEF IInv, JobInv, ResultIsProven, Working
  <2>3. /\ \A b \in main.old : b \in Vouched("now")
        /\ main.opt.check = TRUE => Name \subseteq Covered(main.old)
    BY <1>1, <2>1, <2>2 DEF IInv, ProveBatch
  <2>4. main'.old = main.old /\ main'.opt = main.opt
    BY <1>1, <1>2, <1>3, LeaveEffect DEF IInv
  <2>5. Vouched("now")' = Vouched("now") BY <1>1 DEF Vouched
  <2>6. main.old \subseteq Vouched("now") BY <2>3
  <2>7. main'.opt.check => Name \subseteq Covered(main.old)
    BY <2>3, <2>4, Zenon
  <2> QED BY <2>4, <2>5, <2>6, <2>7, Zenon DEF HonestExit, Covered
<1> QED BY <1>1, <1>2, <1>3, EndKeepsInvariant

LEMMA ProveStepKeepsInvariant ==
  ASSUME IInv, ProveStep PROVE IInv'
<1> DEFINE S == Load(main.step)
<1>1. /\ main.phase = "steps" /\ main.step \in Step /\ UNCHANGED <<files, disk, proven, rewritten>>
      /\ main.opt.byStep
      /\ \/ main' = NextStep /\ NoBatch
         \/ Batch(S) /\ main' = Waits("run", 1, S, S)
  BY Zenon DEF ProveStep, histories
<1>2. main.opt.byStep = TRUE
  <2>1. main.opt.byStep \in BOOLEAN
    BY FieldsOfMain DEF IInv, CommandLine
  <2> QED BY <1>1, <2>1, Zenon
<1>3. S \in SUBSET Block /\ main.exit = "none"
  BY <1>1, LoadedBlocks DEF IInv, ExitWhenOff
<1> HIDE DEF S
<1>4. CASE main' = NextStep /\ NoBatch
  <2>1. RunnerOK' /\ JobsOK' BY <1>4 DEF NoBatch, runnerVars, IInv, RunnerOK, JobsOK
  <2> QED BY <1>1, <1>2, <1>4, <2>1, ToNextStep, StoreStays DEF IInv
<1>5. CASE Batch(S) /\ main' = Waits("run", 1, S, S)
  <2>1. /\ MainOK' /\ main'.phase = "run" /\ main'.exit = main.exit
        /\ main'.opt = main.opt
    BY <1>3, <1>5, WaitsEffect DEF IInv
  <2>2. ProveBatch' BY <1>2, <2>1 DEF ProveBatch, WholeProof
  <2> QED BY <1>1, <1>3, <1>5, <2>1, <2>2, StartBatch, StoreStays DEF IInv
<1> QED BY <1>1, <1>4, <1>5, Zenon

LEMMA ProveStepDoneKeepsInvariant ==
  ASSUME IInv, ProveStepDone PROVE IInv'
<1>1. /\ main.phase = "run" /\ main.opt.byStep /\ main' = NextStep
      /\ job' = [j \in JobId |-> NoJob]
      /\ UNCHANGED <<runnerVars, files, disk, proven, rewritten>>
  BY Zenon DEF ProveStepDone, histories
<1>2. main.opt.byStep = TRUE
  <2>1. main.opt.byStep \in BOOLEAN
    BY FieldsOfMain DEF IInv, CommandLine
  <2> QED BY <1>1, <2>1, Zenon
<1>3. /\ main.phase = "run" /\ main' = NextStep /\ job' = [j \in JobId |-> NoJob]
      /\ UNCHANGED <<pending, running, process, future, orphans, files, disk, proven, rewritten>>
  BY <1>1 DEF runnerVars
<1>4. RunnerOK' /\ JobsOK' BY <1>3, NoJobs DEF IInv, RunnerOK
<1> QED BY <1>2, <1>3, <1>4, ToNextStep, StoreStays DEF IInv

LEMMA FinishKeepsInvariant ==
  ASSUME IInv, Finish PROVE IInv'
<1>1. /\ main.phase = "steps" /\ main.step \notin Step /\ UNCHANGED <<files, disk, proven, rewritten>>
      /\ Leave("ok") \/ Leave("failed")
  BY DEF Finish, histories
<1>2. ~WholeProof
  <2>1. 1 \in Step BY ConductorAssumption DEF Step
  <2> QED BY <1>1, <2>1 DEF IInv, FirstStep
<1>3. CASE Leave("ok")
  <2>1. main'.opt = main.opt BY <1>3, LeaveEffect DEF IInv
  <2>2. main.opt.byStep \in BOOLEAN BY FieldsOfMain DEF IInv, CommandLine
  <2>3. ~(main.opt.mode = "prove" /\ ~main.opt.byStep)
    BY <1>2, <2>2, Zenon DEF WholeProof
  <2>4. HonestExit' BY <2>1, <2>3, Zenon DEF HonestExit
  <2> QED BY <1>1, <1>3, <2>4, EndKeepsInvariant
<1>4. CASE Leave("failed")
  BY <1>1, <1>4, EndKeepsInvariant
<1> QED BY <1>1, <1>3, <1>4

LEMMA CancelAllKeepsInvariant ==
  ASSUME IInv, CancelAll PROVE IInv'
<1>1. /\ main.phase = "raised" /\ main' = [main EXCEPT !.phase = "cancelled"]
      /\ UNCHANGED <<job, files, disk, proven, rewritten>>
      /\ Cancel({p \in Proc : future[p] = "waiting"})
  BY DEF CancelAll, histories
<1>2. RunnerOK' /\ JobsOK' BY <1>1, CancelEffect DEF IInv, JobsOK
<1>3. MainOK' /\ main'.phase = "cancelled" /\ main'.exit = main.exit
  BY <1>1 DEF IInv, MainOK
<1>4. ExitWhenOff' /\ main'.exit # "ok"
  BY <1>1, <1>3 DEF IInv, ExitWhenOff
<1> QED BY <1>1, <1>2, <1>3, <1>4, StoreStays DEF IInv

LEMMA CrashKeepsInvariant ==
  ASSUME IInv, Crash PROVE IInv'
BY EndKeepsInvariant DEF Crash, histories

\* A kill in store_strategy leaves a file that holds no strategy.
LEMMA Killed9KeepsInvariant ==
  ASSUME IInv, Killed9 PROVE IInv'
<1>1. /\ Leave("crashed") /\ UNCHANGED <<files, proven, rewritten>>
      /\ \/ disk' = disk
         \/ main.phase = "build" /\ disk' = [disk EXCEPT ![main.step] = Torn]
  BY DEF Killed9, histories
<1>2. CASE disk' = disk
  BY <1>1, <1>2, EndKeepsInvariant
<1>3. CASE main.phase = "build" /\ disk' = [disk EXCEPT ![main.step] = Torn]
  <2>1. /\ RunnerOK' /\ MainOK' /\ JobsOK' /\ main'.phase = "off" /\ main'.exit = "crashed"
    BY <1>1, LeaveEffect DEF IInv
  <2>2. /\ Torn \in [state : {"absent", "torn", "written"}, blocks : SUBSET Block]
        /\ Torn.blocks = {}
    BY DEF Torn
  <2>3. StoreOK' BY <1>1, <1>3, <2>2 DEF IInv, StoreOK, HistoryOK
  <2>4. \A s \in Step : disk'[s] = disk[s] \/ disk'[s] = Torn
    BY <1>3 DEF IInv, StoreOK
  <2>5. StoredIsProven' BY <1>1, <2>2, <2>4 DEF IInv, StoredIsProven, Vouched
  <2>6. ExitWhenOff' /\ HonestExit' /\ BuildOfStep' /\ ProveBatch' /\ FirstStep'
    BY <2>1 DEF ExitWhenOff, HonestExit, BuildOfStep, ProveBatch, FirstStep
  <2>7. \A j \in JobId : JobInv(j)'
    BY <2>1 DEF JobInv, PreparedFile, EngineOnItsFile, ResultIsProven, Working
  <2> QED BY <2>1, <2>3, <2>5, <2>6, <2>7 DEF IInv
<1> QED BY <1>1, <1>2, <1>3

\* A new start: what was proved before counts no more for its exit.
LEMMA LaunchKeepsInvariant ==
  ASSUME IInv, NEW o \in Launches, Launch(o) PROVE IInv'
<1>1. /\ main.phase = "off" /\ main' = [Off EXCEPT !.phase = "steps", !.step = 1, !.opt = o]
      /\ proven' = [proven EXCEPT !.now = {}] /\ rewritten' = [rewritten EXCEPT !.now = {}]
      /\ UNCHANGED <<pending, running, process, future, orphans, job, files, disk>>
  BY DEF Launch, runnerVars
<1>2. RunnerOK' /\ JobsOK' BY <1>1 DEF IInv, RunnerOK, JobsOK
<1>3. MainOK' /\ main'.phase = "steps" /\ main'.exit = "none" /\ main'.step = 1
  <2> DEFINE opt == Off.opt
  <2>1. Off = [phase |-> "off", step |-> 0, old |-> {}, exit |-> "none", engines |-> 0,
               aigerIdx |-> 0, opt |-> opt]
    BY OffTyped
  <2> HIDE DEF opt
  <2> QED BY <1>1, <2>1 DEF MainOK
<1>4. /\ proven' = [h \in {"ever", "now"} |-> proven'[h]]
      /\ proven'["now"] = {} /\ proven'["ever"] = proven["ever"]
      /\ rewritten' = [h \in {"ever", "now"} |-> rewritten'[h]]
      /\ rewritten'["now"] = {} /\ rewritten'["ever"] = rewritten["ever"]
  BY <1>1 DEF IInv, StoreOK, HistoryOK
<1>5. StoreOK' BY <1>1, <1>4 DEF IInv, StoreOK, HistoryOK
<1>6. StoredIsProven' BY <1>1, <1>4 DEF IInv, StoredIsProven, Vouched
<1>7. ExitWhenOff' /\ HonestExit' /\ BuildOfStep' /\ ProveBatch' /\ FirstStep'
  BY <1>3 DEF ExitWhenOff, HonestExit, BuildOfStep, ProveBatch, FirstStep
<1>8. \A j \in JobId : JobInv(j)'
  BY <1>3 DEF JobInv, PreparedFile, EngineOnItsFile, ResultIsProven, Working
<1> QED BY <1>2, <1>3, <1>5, <1>6, <1>7, <1>8 DEF IInv

-----------------------------------------------------------------------------
(* The invariant is kept: the commands of earlier starts                   *)

LEMMA OrphanGrowsKeepsInvariant ==
  ASSUME IInv, NEW o \in orphans, OrphanGrows(o) PROVE IInv'
<1>1. PICK m \in Nat : orphans' = (orphans \ {o}) \cup {[o EXCEPT !.rss = m]}
  BY RunnerAssumption DEF OrphanGrows
<1>2. UNCHANGED <<process, future, main, job, files, disk, proven, rewritten>>
  BY DEF OrphanGrows, histories
<1>3. OrphanOK([o EXCEPT !.rss = m]) BY DEF IInv, RunnerOK, OrphanOK
<1>4. RunnerOK' BY <1>1, <1>2, <1>3 DEF IInv, RunnerOK
<1> QED BY <1>2, <1>4, RunnerKeepsInvariant

\* An aig-manip of an earlier start writes its file: only the coroutine that
\* uses a file of that number is concerned, and its block is no longer
\* undisturbed.
LEMMA OrphanWritesKeepsInvariant ==
  ASSUME IInv, NEW o \in orphans, OrphanWrites(o), orphans' \subseteq orphans,
         UNCHANGED <<future, main, job, disk, proven>>
  PROVE  IInv'
<1>1. PICK done \in SUBSET UNION {Engines(j) : j \in Users(o.file)} :
        process' = [p \in Proc |->
          IF p \in done THEN [process[p] EXCEPT !.read = {files[o.file]}] ELSE process[p]]
  BY DEF OrphanWrites
<1>2. /\ files' = [files EXCEPT ![o.file] = o.block]
      /\ rewritten' = With(rewritten, {job[j].block : j \in Users(o.file)})
  BY DEF OrphanWrites
<1>3. \A p \in done : \E j \in Users(o.file) : p \in Engines(j) BY <1>1
<1>4. \A j \in Users(o.file) :
        /\ j \in JobId /\ job[j].stage \notin {"none", "over"}
        /\ job[j].file = o.file /\ o.file \in File
  BY NoJobTyped DEF Users, Jobs, IInv, JobsOK
<1>5. o.block \in Block \cup {NoBlock} /\ files \in [File -> Block \cup {NoBlock}]
  BY DEF IInv, RunnerOK, OrphanOK, StoreOK
<1>6. RunnerOK'
  <2>1. ASSUME NEW p \in Proc PROVE process'[p] \in ProcessRecord
    <3>1. process[p] \in ProcessRecord BY DEF IInv, RunnerOK
    <3>2. CASE p \in done
      <4>1. o.file \in File BY <1>3, <1>4, <3>2
      <4>2. files[o.file] \in Block \cup {NoBlock} BY <1>5, <4>1
      <4>3. [process[p] EXCEPT !.read = {files[o.file]}] \in ProcessRecord
        BY <3>1, <4>2 DEF ProcessRecord
      <4> QED BY <1>1, <3>2, <4>3
    <3>3. CASE p \notin done BY <1>1, <3>1, <3>3
    <3> QED BY <3>2, <3>3
  <2> QED BY <1>1, <2>1 DEF IInv, RunnerOK
<1>7. \A p \in Proc : process'[p].os = process[p].os
  <2> SUFFICES ASSUME NEW p \in Proc PROVE process'[p].os = process[p].os
    OBVIOUS
  <2>1. process[p] \in ProcessRecord BY DEF IInv, RunnerOK
  <2>2. \A r : [process[p] EXCEPT !.read = r].os = process[p].os
    BY <2>1 DEF ProcessRecord
  <2> QED BY <1>1, <2>2
<1>8. /\ \A h \in {"ever", "now"} : rewritten[h] \subseteq rewritten'[h]
      /\ HistoryOK(rewritten)'
      /\ \A j \in Users(o.file) : job[j].block \in rewritten'["now"]
  <2>1. HistoryOK(rewritten) BY DEF IInv, StoreOK
  <2> QED BY <1>2, <2>1 DEF HistoryOK, With
<1>9. StoreOK' BY <1>2, <1>5, <1>8 DEF IInv, StoreOK, HistoryOK
<1>10. MainOK' /\ JobsOK' BY DEF IInv, MainOK, JobsOK
<1>11. ASSUME NEW j \in JobId PROVE JobInv(j)'
  <2>1. JobInv(j) BY DEF IInv
  <2>2. ResultIsProven(j)' BY <1>8, <2>1 DEF JobInv, ResultIsProven, Working, Vouched
  <2>3. CASE j \in Users(o.file)
    BY <1>8, <2>2, <2>3 DEF JobInv, PreparedFile, EngineOnItsFile, Undisturbed
  <2>4. CASE job[j].stage \notin {"prep", "engine"}
    BY <2>2, <2>4 DEF JobInv, PreparedFile, EngineOnItsFile
  <2>5. CASE j \notin Users(o.file) /\ job[j].stage \in {"prep", "engine"}
    <3>1. job[j].file # o.file BY <2>5 DEF Users, Jobs
    <3>2. files'[job[j].file] = files[job[j].file]
      <4>1. job[j].file \in File BY <2>5, NoJobTyped DEF IInv, JobsOK
      <4> QED BY <1>2, <1>5, <3>1, <4>1
    <3>3. EngineKind' = EngineKind /\ <<j, "prep">> \in Proc /\ <<j, EngineKind>> \in Proc
      BY ConductorAssumption DEF EngineKind, Kinds
    <3>4. Undisturbed(j)' => Undisturbed(j) BY <1>8 DEF Undisturbed
    <3>5. process'[<<j, EngineKind>>] = process[<<j, EngineKind>>]
      <4>1. <<j, EngineKind>> \notin done
        <5>1. \A i \in Users(o.file) : <<j, EngineKind>> \notin Engines(i)
          BY <2>5 DEF Engines
        <5> QED BY <1>3, <5>1
      <4> QED BY <1>1, <3>3, <4>1
    <3>6. PreparedFile(j)'
      BY <1>7, <2>1, <3>2, <3>3, <3>4 DEF JobInv, PreparedFile, Working
    <3>7. EngineOnItsFile(j)'
      BY <2>1, <3>2, <3>3, <3>4, <3>5 DEF JobInv, EngineOnItsFile, Working
    <3> QED BY <2>2, <3>6, <3>7 DEF JobInv
  <2> QED BY <2>3, <2>4, <2>5
<1>12. BuildOfStep' BY <1>8 DEF IInv, BuildOfStep, Vouched
<1>13. ProveBatch' /\ FirstStep' /\ ExitWhenOff'
  BY DEF IInv, ProveBatch, FirstStep, ExitWhenOff, WholeProof, Covered
<1>14. StoredIsProven' BY <1>8 DEF IInv, StoredIsProven, Vouched
<1>15. HonestExit' BY <1>8 DEF IInv, HonestExit, Covered, Vouched
<1> QED BY <1>6, <1>9, <1>10, <1>11, <1>12, <1>13, <1>14, <1>15 DEF IInv

LEMMA OrphanEndsKeepsInvariant ==
  ASSUME IInv, NEW o \in orphans, OrphanEnds(o) PROVE IInv'
<1>1. orphans' \subseteq orphans /\ UNCHANGED <<future, main, job, disk, proven>>
  BY DEF OrphanEnds
<1>2. CASE OrphanWrites(o) BY <1>1, <1>2, OrphanWritesKeepsInvariant
<1>3. CASE UNCHANGED <<files, process, rewritten>>
  <2>1. RunnerOK' BY <1>1, <1>3 DEF IInv, RunnerOK
  <2> QED BY <1>1, <1>3, <2>1, RunnerKeepsInvariant
<1> QED BY <1>2, <1>3 DEF OrphanEnds

-----------------------------------------------------------------------------
LEMMA StepKeepsInvariant == IInv /\ [Next]_vars => IInv'
<1> SUFFICES ASSUME IInv, [Next]_vars PROVE IInv'
  OBVIOUS
<1>1. ASSUME NEW o \in Launches, Launch(o) PROVE IInv'
  BY <1>1, LaunchKeepsInvariant
<1>2. CASE Main
  BY <1>2, ExploreStepKeepsInvariant, StoreStepKeepsInvariant, ExploreRunDoneKeepsInvariant,
     ProveAllKeepsInvariant, ProveDoneKeepsInvariant, ProveStepKeepsInvariant,
     ProveStepDoneKeepsInvariant, FinishKeepsInvariant, CancelAllKeepsInvariant,
     CrashKeepsInvariant DEF Main
<1>3. CASE Killed9 BY <1>3, Killed9KeepsInvariant
<1>4. CASE PollCallback BY <1>4, PollKeepsInvariant
<1>5. ASSUME NEW j \in JobId, Coroutine(j) PROVE IInv'
  BY <1>5, RunEngineKeepsInvariant, RaceRaisesKeepsInvariant, AssertRaisesKeepsInvariant,
     EngineDoneKeepsInvariant DEF Coroutine
<1>6. ASSUME NEW p \in Proc, Ends(p) PROVE IInv'
  BY <1>6, EndsKeepsInvariant
<1>7. ASSUME NEW p \in Proc, Works(p) PROVE IInv'
  BY <1>7, WorksKeepsInvariant
<1>8. CASE UNCHANGED vars
  <2>1. UNCHANGED <<pending, running, process, future, orphans, main, job, files, disk, proven,
                    rewritten>>
    BY <1>8 DEF vars, runnerVars, histories
  <2>2. RunnerOK' BY <2>1 DEF IInv, RunnerOK
  <2> QED BY <2>1, <2>2, RunnerKeepsInvariant
<1>9. ASSUME NEW o \in orphans, OrphanGrows(o) \/ OrphanEnds(o) PROVE IInv'
  BY <1>9, OrphanGrowsKeepsInvariant, OrphanEndsKeepsInvariant
<1> QED BY <1>1, <1>2, <1>3, <1>4, <1>5, <1>6, <1>7, <1>8, <1>9 DEF Next

\* The invariant of the conductor: what files, results and the store say was
\* said by an engine of that block, or an orphan has written the file of the
\* block while it was used (conductor.py:295-330, 555-674, 790).
THEOREM InvariantHolds == Spec => []IInv
BY Initially, StepKeepsInvariant, PTL DEF Spec

\* For every design, every machine and every order of evictions, timeouts,
\* failures and kills, what strategies/ holds was proved for its step, but for
\* blocks whose file an orphan has written while it was used.
THEOREM StoredProofs == Spec => []StoredIsProven
<1>1. IInv => StoredIsProven BY DEF IInv
<1> QED BY <1>1, InvariantHolds, PTL

\* Success of prove mode means that every block it loaded was proved in this run,
\* or an orphan wrote its file in this run while it was used, and, with
\* --check-complete, that no selected property is without such a block.
THEOREM HonestSuccess == Spec => []HonestExit
<1>1. IInv => HonestExit BY DEF IInv
<1> QED BY <1>1, InvariantHolds, PTL

-----------------------------------------------------------------------------
(* Sequences without some of their elements                                *)

LEMMA SameCardinality == \A S : Line!Cardinality(S) = Cardinality(S)
BY Zenon DEF Line!Cardinality, Cardinality

\* The positions that are kept, and where each of them goes.
KeptOf(s, over) == {i \in DOMAIN s : s[i] \notin over}
UpTo(s, over, i) == {h \in KeptOf(s, over) : h <= i}
Place(s, over, i) == Cardinality(UpTo(s, over, i))

LEMMA KeptIsFinite ==
  ASSUME NEW P, NEW s \in Seq(P), NEW over
  PROVE  /\ KeptOf(s, over) \subseteq 1..Len(s)
         /\ IsFiniteSet(KeptOf(s, over))
         /\ Cardinality(KeptOf(s, over)) \in Nat
         /\ \A i : /\ IsFiniteSet(UpTo(s, over, i))
                   /\ Place(s, over, i) \in 0..Cardinality(KeptOf(s, over))
<1>1. KeptOf(s, over) \subseteq 1..Len(s) BY DEF KeptOf
<1>2. IsFiniteSet(1..Len(s)) BY FS_Interval
<1>3. IsFiniteSet(KeptOf(s, over)) BY <1>1, <1>2, FS_Subset
<1>4. Cardinality(KeptOf(s, over)) \in Nat BY <1>3, FS_CardinalityType
<1>5. ASSUME NEW i
      PROVE  /\ IsFiniteSet(UpTo(s, over, i))
             /\ Place(s, over, i) \in 0..Cardinality(KeptOf(s, over))
  <2>1. UpTo(s, over, i) \subseteq KeptOf(s, over) BY DEF UpTo
  <2>2. /\ IsFiniteSet(UpTo(s, over, i))
        /\ Cardinality(UpTo(s, over, i)) <= Cardinality(KeptOf(s, over))
    BY <1>3, <2>1, FS_Subset
  <2>3. Cardinality(UpTo(s, over, i)) \in Nat BY <2>2, FS_CardinalityType
  <2> QED BY <1>4, <2>2, <2>3 DEF Place
<1> QED BY <1>1, <1>3, <1>4, <1>5

\* Later elements go to later places.
LEMMA PlacesIncrease ==
  ASSUME NEW P, NEW s \in Seq(P), NEW over,
         NEW i \in KeptOf(s, over), NEW j \in KeptOf(s, over), i < j
  PROVE  Place(s, over, i) < Place(s, over, j)
<1>1. i \in Int /\ j \in Int BY KeptIsFinite
<1>2. KeptOf(s, over) \subseteq Int BY KeptIsFinite
<1>3. /\ UpTo(s, over, i) \subseteq UpTo(s, over, j)
      /\ j \in UpTo(s, over, j) /\ j \notin UpTo(s, over, i)
  BY <1>1, <1>2 DEF UpTo
<1>4. UpTo(s, over, i) # UpTo(s, over, j) BY <1>3
<1>5. IsFiniteSet(UpTo(s, over, j)) BY KeptIsFinite
<1>6. /\ Cardinality(UpTo(s, over, i)) <= Cardinality(UpTo(s, over, j))
      /\ Cardinality(UpTo(s, over, i)) # Cardinality(UpTo(s, over, j))
  BY <1>3, <1>4, <1>5, FS_Subset
<1>7. Place(s, over, i) \in Int /\ Place(s, over, j) \in Int BY KeptIsFinite
<1> QED BY <1>6, <1>7 DEF Place

\* Every place is taken, by one element.
LEMMA PlacesAreTaken ==
  ASSUME NEW P, NEW s \in Seq(P), NEW over
  PROVE  /\ \A i \in KeptOf(s, over) : Place(s, over, i) \in 1..Cardinality(KeptOf(s, over))
         /\ \A k \in 1..Cardinality(KeptOf(s, over)) :
              \E i \in KeptOf(s, over) : Place(s, over, i) = k
         /\ \A i, j \in KeptOf(s, over) : Place(s, over, i) = Place(s, over, j) => i = j
<1> DEFINE K == KeptOf(s, over)
           n == Cardinality(K)
           place == [i \in K |-> Place(s, over, i)]
<1>1. IsFiniteSet(K) /\ n \in Nat /\ K \subseteq Int BY KeptIsFinite
<1>2. ASSUME NEW i \in K PROVE Place(s, over, i) \in 1..n
  <2>1. i \in UpTo(s, over, i) BY <1>1 DEF UpTo
  <2>2. Cardinality(UpTo(s, over, i)) # 0 BY <2>1, KeptIsFinite, FS_EmptySet
  <2> QED BY <2>2, KeptIsFinite DEF Place
<1>3. ASSUME NEW i \in K, NEW j \in K, Place(s, over, i) = Place(s, over, j) PROVE i = j
  <2>1. CASE i < j
    <3>1. Place(s, over, i) < Place(s, over, j) BY <2>1, PlacesIncrease
    <3> QED BY <1>2, <1>3, <3>1
  <2>2. CASE j < i
    <3>1. Place(s, over, j) < Place(s, over, i) BY <2>2, PlacesIncrease
    <3> QED BY <1>2, <1>3, <3>1
  <2> QED BY <1>1, <2>1, <2>2
<1>4. place \in Injection(K, 1..n) BY <1>2, <1>3 DEF Injection, IsInjective
<1>5. IsFiniteSet(1..n) /\ Cardinality(1..n) = n BY <1>1, FS_Interval
<1>6. place \in Surjection(K, 1..n) BY <1>1, <1>4, <1>5, FS_Injection
<1>7. \A k \in 1..n : \E i \in K : place[i] = k BY <1>6 DEF Surjection
<1> QED BY <1>2, <1>3, <1>7

\* What is left: each kept element at its place, and nothing else.
LEMMA WithoutHas ==
  ASSUME NEW P, NEW s \in Seq(P), NEW over
  PROVE  /\ Line!Without(s, over) \in Seq(P)
         /\ Len(Line!Without(s, over)) = Cardinality(KeptOf(s, over))
         /\ \A i \in KeptOf(s, over) : Line!Without(s, over)[Place(s, over, i)] = s[i]
         /\ ToSet(Line!Without(s, over)) = ToSet(s) \ over
         /\ IsInjective(s) => IsInjective(Line!Without(s, over))
<1> DEFINE K == KeptOf(s, over)
           n == Cardinality(K)
           at(k) == CHOOSE i \in K : Line!Cardinality(UpTo(s, over, i)) = k
           w == Line!Without(s, over)
<1>1. n \in Nat /\ K \subseteq DOMAIN s /\ DOMAIN s = 1..Len(s) /\ K \subseteq Int
  BY KeptIsFinite
<1>2. w = [k \in 1..Line!Cardinality(K) |-> s[at(k)]]
  BY Zenon DEF Line!Without, KeptOf, UpTo
<1>3. \A k \in 1..n : at(k) \in K /\ Place(s, over, at(k)) = k
  <2> TAKE k \in 1..n
  <2>1. PICK i \in K : Place(s, over, i) = k BY PlacesAreTaken
  <2>2. Line!Cardinality(UpTo(s, over, i)) = k BY <2>1, SameCardinality DEF Place
  <2>3. at(k) \in K /\ Line!Cardinality(UpTo(s, over, at(k))) = k
    BY <2>1, <2>2, Zenon
  <2> HIDE DEF at
  <2> QED BY <2>3, SameCardinality DEF Place
<1>4. \A i \in K : at(Place(s, over, i)) = i
  <2> TAKE i \in K
  <2>1. Place(s, over, i) \in 1..n BY PlacesAreTaken
  <2>2. at(Place(s, over, i)) \in K
        /\ Place(s, over, at(Place(s, over, i))) = Place(s, over, i)
    BY <1>3, <2>1
  <2> HIDE DEF at
  <2> QED BY <2>2, PlacesAreTaken
<1>5. Line!Cardinality(K) = n BY SameCardinality
<1> HIDE DEF at, w
<1>6. \A k \in 1..n : s[at(k)] \in P BY <1>1, <1>3
<1>7. w \in Seq(P) /\ Len(w) = n /\ DOMAIN w = 1..n BY <1>1, <1>2, <1>5, <1>6
<1>8. \A i \in K : Place(s, over, i) \in 1..n BY PlacesAreTaken
<1>9. \A i \in K : w[Place(s, over, i)] = s[i] BY <1>2, <1>4, <1>5, <1>8
<1>10. \A k \in 1..n : w[k] \in ToSet(s) \ over
  BY <1>1, <1>2, <1>3, <1>5 DEF KeptOf, ToSet
<1>11. \A p \in ToSet(s) \ over : \E k \in 1..n : w[k] = p
  <2> TAKE p \in ToSet(s) \ over
  <2>1. PICK i \in DOMAIN s : s[i] = p BY DEF ToSet
  <2>2. i \in K BY <2>1 DEF KeptOf
  <2> QED BY <1>8, <1>9, <2>1, <2>2
<1>12. ToSet(w) = ToSet(s) \ over BY <1>7, <1>10, <1>11 DEF ToSet
<1>13. ASSUME IsInjective(s) PROVE IsInjective(w)
  <2> SUFFICES ASSUME NEW k \in 1..n, NEW l \in 1..n, w[k] = w[l] PROVE k = l
    BY <1>7 DEF IsInjective
  <2>1. s[at(k)] = s[at(l)] /\ at(k) \in K /\ at(l) \in K BY <1>2, <1>3, <1>5
  <2>2. at(k) = at(l) BY <1>1, <1>13, <2>1 DEF IsInjective
  <2> QED BY <1>3, <2>2
<1> QED BY <1>7, <1>9, <1>12, <1>13 DEF w

\* As many are left out as there are in over, when nothing is there twice.
LEMMA WithoutIsShorter ==
  ASSUME NEW P, NEW s \in Seq(P), NEW over, over \subseteq ToSet(s), IsInjective(s)
  PROVE  Len(s) - Len(Line!Without(s, over)) = Cardinality(over)
<1> DEFINE K == KeptOf(s, over)
           D == {i \in DOMAIN s : s[i] \in over}
           f == [i \in D |-> s[i]]
<1>1. K \subseteq 1..Len(s) /\ D = (1..Len(s)) \ K BY DEF KeptOf
<1>2. IsFiniteSet(1..Len(s)) /\ Cardinality(1..Len(s)) = Len(s)
  <2>1. Len(s) \in Nat OBVIOUS
  <2> QED BY <2>1, FS_Interval
<1>3. IsFiniteSet(D) /\ Cardinality(D) = Len(s) - Cardinality((1..Len(s)) \cap K)
  BY <1>1, <1>2, FS_Difference
<1>4. (1..Len(s)) \cap K = K BY <1>1
<1>5. f \in Bijection(D, over)
  BY DEF Bijection, Injection, Surjection, IsInjective, ToSet
<1> HIDE DEF f, D
<1>6. Cardinality(over) = Cardinality(D)
  <2>1. ExistsBijection(D, over) BY <1>5 DEF ExistsBijection
  <2> QED BY <1>3, <2>1, FS_Bijection
<1>7. Len(Line!Without(s, over)) = Cardinality(K) BY WithoutHas
<1>8. Cardinality(K) \in Nat BY KeptIsFinite
<1> QED BY <1>3, <1>4, <1>6, <1>7, <1>8

\* What comes behind and stays moves up.
LEMMA WithoutInFront ==
  ASSUME NEW P, NEW s \in Seq(P), NEW t \in Seq(P), NEW over, ToSet(t) \cap over = {}
  PROVE  Line!Without(s \o t, over) = Line!Without(s, over) \o t
<1> DEFINE c == s \o t
           K == KeptOf(s, over)
           M == KeptOf(c, over)
           n == Cardinality(K)
           w == Line!Without(s, over)
           v == Line!Without(c, over)
           more(i) == (Len(s) + 1)..i
<1>1. c \in Seq(P) /\ Len(c) = Len(s) + Len(t) OBVIOUS
<1>2. /\ \A i \in 1..Len(s) : c[i] = s[i]
      /\ \A i \in 1..Len(t) : c[Len(s) + i] = t[i]
  OBVIOUS
<1>3. \A i \in 1..Len(t) : t[i] \notin over BY DEF ToSet
<1>4. /\ DOMAIN s = 1..Len(s) /\ DOMAIN c = 1..Len(c) /\ Len(s) \in Nat /\ Len(t) \in Nat
      /\ Len(c) \in Nat
  BY <1>1
<1> HIDE DEF c
<1>5. K = {i \in 1..Len(s) : s[i] \notin over} BY <1>4 DEF KeptOf
<1>6. M = {i \in 1..Len(c) : c[i] \notin over} BY <1>4 DEF KeptOf
<1>7. \A i \in (Len(s) + 1)..Len(c) : c[i] \notin over
  <2> TAKE i \in (Len(s) + 1)..Len(c)
  <2>1. i - Len(s) \in 1..Len(t) /\ Len(s) + (i - Len(s)) = i BY <1>1, <1>4
  <2> QED BY <1>2, <1>3, <2>1
<1>8. M = K \cup more(Len(c))
  BY <1>1, <1>2, <1>4, <1>5, <1>6, <1>7
<1>9. ASSUME NEW i \in K PROVE Place(c, over, i) = Place(s, over, i)
  <2>1. UpTo(c, over, i) = UpTo(s, over, i) BY <1>4, <1>5, <1>8 DEF UpTo
  <2> QED BY <2>1 DEF Place
<1>10. ASSUME NEW i \in more(Len(c)) PROVE Place(c, over, i) = n + (i - Len(s))
  <2>1. UpTo(c, over, i) = K \cup more(i) BY <1>4, <1>5, <1>8 DEF UpTo
  <2>2. IsFiniteSet(more(i)) /\ Cardinality(more(i)) = i - Len(s)
    BY <1>4, FS_Interval
  <2>3. IsFiniteSet(K) /\ n \in Nat BY KeptIsFinite
  <2>4. K \cap more(i) = {} BY <1>4, <1>5
  <2>5. Cardinality(K \cup more(i)) = n + (i - Len(s)) - Cardinality({})
    <3> HIDE DEF K, more
    <3>1. Cardinality(K \cup more(i))
            = Cardinality(K) + Cardinality(more(i)) - Cardinality(K \cap more(i))
      BY <2>2, <2>3, FS_Union
    <3> QED BY <2>2, <2>4, <3>1
  <2>6. Cardinality({}) = 0 BY FS_EmptySet
  <2> QED BY <1>4, <2>1, <2>3, <2>5, <2>6 DEF Place
<1>11. /\ w \in Seq(P) /\ Len(w) = n /\ n \in Nat
       /\ \A i \in K : w[Place(s, over, i)] = s[i] /\ Place(s, over, i) \in 1..n
  BY WithoutHas, PlacesAreTaken, KeptIsFinite
<1>12. /\ v \in Seq(P) /\ Len(v) = Cardinality(M)
       /\ \A i \in M : v[Place(c, over, i)] = c[i]
       /\ \A k \in 1..Cardinality(M) : \E i \in M : Place(c, over, i) = k
  BY <1>1, WithoutHas, PlacesAreTaken
<1> HIDE DEF w, v
<1>13. Cardinality(M) = n + Len(t)
  <2>1. IsFiniteSet(more(Len(c))) /\ Cardinality(more(Len(c))) = Len(t)
    <3>1. Len(s) + 1 \in Int /\ Len(c) \in Int BY <1>4
    <3>2. /\ IsFiniteSet(more(Len(c)))
          /\ Cardinality(more(Len(c))) =
               IF Len(s) + 1 > Len(c) THEN 0 ELSE Len(c) - (Len(s) + 1) + 1
      BY <3>1, FS_Interval
    <3>3. Len(c) = Len(s) + Len(t) BY <1>1
    <3> HIDE DEF more
    <3> QED BY <1>4, <3>2, <3>3
  <2>2. IsFiniteSet(K) BY KeptIsFinite
  <2>3. K \cap more(Len(c)) = {} BY <1>4, <1>5
  <2>4. Cardinality(K \cup more(Len(c))) = n + Len(t) - Cardinality({})
    <3> HIDE DEF more, K
    <3>1. Cardinality(K \cup more(Len(c))) =
            Cardinality(K) + Cardinality(more(Len(c))) - Cardinality(K \cap more(Len(c)))
      BY <2>1, <2>2, FS_Union
    <3> QED BY <2>1, <2>3, <3>1
  <2>5. Cardinality({}) = 0 BY FS_EmptySet
  <2> QED BY <1>4, <1>8, <1>11, <2>4, <2>5
<1>14. ASSUME NEW k \in 1..(n + Len(t)) PROVE v[k] = (w \o t)[k]
  <2>1. PICK i \in M : Place(c, over, i) = k BY <1>12, <1>13
  <2>2. v[k] = c[i] BY <1>12, <2>1
  <2>3. CASE i \in K
    <3>1. k = Place(s, over, i) BY <1>9, <2>1, <2>3
    <3>2. k \in 1..n /\ w[k] = s[i] BY <1>11, <2>3, <3>1
    <3>3. c[i] = s[i] BY <1>2, <1>5, <2>3
    <3> QED BY <1>11, <2>2, <3>2, <3>3
  <2>4. CASE i \in more(Len(c))
    <3>1. k = n + (i - Len(s)) BY <1>10, <2>1, <2>4
    <3>2. i - Len(s) \in 1..Len(t) /\ Len(s) + (i - Len(s)) = i BY <1>1, <1>4, <2>4
    <3>3. c[i] = t[i - Len(s)] BY <1>2, <3>2
    <3>4. (w \o t)[n + (i - Len(s))] = t[i - Len(s)] BY <1>11, <3>2
    <3> QED BY <2>2, <3>1, <3>3, <3>4
  <2> QED BY <1>8, <2>1, <2>3, <2>4
<1>15. /\ v \in Seq(P) /\ w \o t \in Seq(P)
       /\ Len(v) = n + Len(t) /\ Len(w \o t) = n + Len(t)
  BY <1>11, <1>12, <1>13
<1>16. v = w \o t BY <1>11, <1>14, <1>15, <1>4
<1> QED BY <1>16 DEF v, w, c

-----------------------------------------------------------------------------
(* Poll moves the front of the line and drops what has ended               *)

InLine == running \o Reverse(pending)
RestWith(k, m) == SubSeq(QueueWith(k), 1, Len(QueueWith(k)) - m)

LEMMA Joined ==
  ASSUME NEW P, NEW s \in Seq(P), NEW t \in Seq(P)
  PROVE  /\ s \o t \in Seq(P) /\ Len(s \o t) = Len(s) + Len(t)
         /\ \A i \in 1..Len(s) : (s \o t)[i] = s[i]
         /\ \A i \in 1..Len(t) : (s \o t)[Len(s) + i] = t[i]
         /\ ToSet(s \o t) = ToSet(s) \cup ToSet(t)
<1> DEFINE c == s \o t
<1>1. /\ c \in Seq(P) /\ Len(c) = Len(s) + Len(t)
      /\ \A i \in 1..Len(s) : c[i] = s[i]
      /\ \A i \in 1..Len(t) : c[Len(s) + i] = t[i]
  OBVIOUS
<1>2. /\ DOMAIN s = 1..Len(s) /\ DOMAIN t = 1..Len(t) /\ DOMAIN c = 1..Len(c)
      /\ Len(s) \in Nat /\ Len(t) \in Nat
  BY <1>1
<1> HIDE DEF c
<1>3. \A i \in 1..Len(c) : c[i] \in ToSet(s) \cup ToSet(t)
  <2> TAKE i \in 1..Len(c)
  <2>1. CASE i <= Len(s) BY <1>1, <1>2, <2>1 DEF ToSet
  <2>2. CASE i > Len(s)
    <3>1. i - Len(s) \in 1..Len(t) /\ Len(s) + (i - Len(s)) = i BY <1>1, <1>2, <2>2
    <3>2. c[i] = t[i - Len(s)] BY <1>1, <3>1
    <3> QED BY <1>2, <3>1, <3>2 DEF ToSet
  <2> QED BY <1>2, <2>1, <2>2
<1>4. \A i \in 1..Len(s) : s[i] \in ToSet(c)
  <2> TAKE i \in 1..Len(s)
  <2>1. i \in DOMAIN c /\ c[i] = s[i] BY <1>1, <1>2
  <2> QED BY <2>1 DEF ToSet
<1>5. \A i \in 1..Len(t) : t[i] \in ToSet(c)
  <2> TAKE i \in 1..Len(t)
  <2>1. Len(s) + i \in DOMAIN c /\ c[Len(s) + i] = t[i] BY <1>1, <1>2
  <2> QED BY <2>1 DEF ToSet
<1>6. ToSet(c) = ToSet(s) \cup ToSet(t)
  <2>1. ToSet(c) \subseteq ToSet(s) \cup ToSet(t) BY <1>2, <1>3 DEF ToSet
  <2>2. ToSet(s) \subseteq ToSet(c) /\ ToSet(t) \subseteq ToSet(c)
    BY <1>2, <1>4, <1>5 DEF ToSet
  <2> QED BY <2>1, <2>2
<1> QED BY <1>1, <1>6 DEF c

LEMMA Reversed ==
  ASSUME NEW P, NEW s \in Seq(P)
  PROVE  /\ Reverse(s) \in Seq(P) /\ Len(Reverse(s)) = Len(s)
         /\ \A i \in 1..Len(s) : Reverse(s)[i] = s[Len(s) + 1 - i]
         /\ ToSet(Reverse(s)) = ToSet(s)
<1>1. Reverse(s) = [i \in 1..Len(s) |-> s[(Len(s) - i) + 1]] /\ Len(s) \in Nat
  BY DEF Reverse
<1>2. \A i \in 1..Len(s) : (Len(s) - i) + 1 \in 1..Len(s) /\ Len(s) + 1 - i = (Len(s) - i) + 1
  BY <1>1
<1>3. Reverse(s) \in Seq(P) /\ Len(Reverse(s)) = Len(s) /\ DOMAIN Reverse(s) = 1..Len(s)
  BY <1>1, <1>2
<1>4. \A i \in 1..Len(s) : Reverse(s)[i] = s[Len(s) + 1 - i] BY <1>1, <1>2
<1>5. \A i \in 1..Len(s) : \E h \in 1..Len(s) : Reverse(s)[h] = s[i]
  <2> TAKE i \in 1..Len(s)
  <2>1. Len(s) + 1 - i \in 1..Len(s) /\ Len(s) + 1 - (Len(s) + 1 - i) = i BY <1>1
  <2> QED BY <1>4, <2>1
<1> HIDE DEF Reverse
<1>6. ToSet(Reverse(s)) = ToSet(s)
  <2> DEFINE r == Reverse(s)
  <2>1. DOMAIN s = 1..Len(s) /\ DOMAIN r = 1..Len(s) BY <1>3
  <2>2. \A i \in 1..Len(s) : r[i] \in ToSet(s) BY <1>2, <1>4, <2>1 DEF ToSet
  <2>3. \A i \in 1..Len(s) : s[i] \in ToSet(r)
    <3> TAKE i \in 1..Len(s)
    <3>1. PICK h \in 1..Len(s) : r[h] = s[i] BY <1>5
    <3> HIDE DEF r
    <3> QED BY <2>1, <3>1 DEF ToSet
  <2> HIDE DEF r
  <2>4. ToSet(r) \subseteq ToSet(s) BY <2>1, <2>2 DEF ToSet
  <2>5. ToSet(s) \subseteq ToSet(r) BY <2>1, <2>3 DEF ToSet
  <2> QED BY <2>4, <2>5 DEF r
<1> QED BY <1>3, <1>4, <1>6

LEMMA TakenFromEnds ==
  ASSUME NEW P, NEW s \in Seq(P), NEW k \in 0..Len(s)
  PROVE  /\ SubSeq(s, 1, Len(s) - k) \in Seq(P)
         /\ Len(SubSeq(s, 1, Len(s) - k)) = Len(s) - k
         /\ \A i \in 1..(Len(s) - k) : SubSeq(s, 1, Len(s) - k)[i] = s[i]
         /\ Reverse(SubSeq(s, Len(s) + 1 - k, Len(s))) \in Seq(P)
         /\ Len(Reverse(SubSeq(s, Len(s) + 1 - k, Len(s)))) = k
         /\ \A i \in 1..k : Reverse(SubSeq(s, Len(s) + 1 - k, Len(s)))[i] = s[Len(s) + 1 - i]
<1> DEFINE a == SubSeq(s, 1, Len(s) - k)
           b == SubSeq(s, Len(s) + 1 - k, Len(s))
<1>1. Len(s) \in Nat OBVIOUS
<1>2. a \in Seq(P) /\ Len(a) = Len(s) - k /\ \A i \in 1..(Len(s) - k) : a[i] = s[i]
  BY <1>1
<1>3. b \in Seq(P) /\ Len(b) = k /\ \A i \in 1..k : b[i] = s[Len(s) + 1 - k + i - 1]
  BY <1>1
<1> HIDE DEF a, b
<1>4. /\ Reverse(b) \in Seq(P) /\ Len(Reverse(b)) = k
      /\ \A i \in 1..k : Reverse(b)[i] = b[k + 1 - i]
  BY <1>3, Reversed
<1>5. \A i \in 1..k : Reverse(b)[i] = s[Len(s) + 1 - i]
  <2> TAKE i \in 1..k
  <2>1. k + 1 - i \in 1..k /\ Len(s) + 1 - k + (k + 1 - i) - 1 = Len(s) + 1 - i BY <1>1
  <2> QED BY <1>3, <1>4, <2>1
<1> QED BY <1>2, <1>4, <1>5 DEF a, b

LEMMA FrontMoves ==
  ASSUME running \in Seq(Proc), pending \in Seq(Proc),
         NEW k \in 0..Len(running), NEW m \in 0..(Len(pending) + k)
  PROVE  /\ QueueWith(k) \in Seq(Proc) /\ Len(QueueWith(k)) = Len(pending) + k
         /\ RunsWith(k, m) \in Seq(Proc) /\ Len(RunsWith(k, m)) = Len(running) - k + m
         /\ RestWith(k, m) \in Seq(Proc)
         /\ RunsWith(k, m) \o Reverse(RestWith(k, m)) = InLine
         /\ \A i \in 1..(Len(running) - k) : RunsWith(k, m)[i] = running[i]
         /\ \A i \in 1..m : RunsWith(k, m)[Len(running) - k + i] = NextUp(k, i)
<1> DEFINE n == Len(running)
           l == Len(pending)
           back == Reverse(SubSeq(running, n + 1 - k, n))
           q == QueueWith(k)
           kept == SubSeq(running, 1, n - k)
           new == Reverse(SubSeq(q, Len(q) + 1 - m, Len(q)))
           rest == RestWith(k, m)
           runs == RunsWith(k, m)
<1>1. n \in Nat /\ l \in Nat OBVIOUS
<1>2. back \in Seq(Proc) /\ Len(back) = k /\ \A i \in 1..k : back[i] = running[n + 1 - i]
  BY TakenFromEnds
<1>3. kept \in Seq(Proc) /\ Len(kept) = n - k /\ \A i \in 1..(n - k) : kept[i] = running[i]
  BY TakenFromEnds
<1>4. q = pending \o back BY DEF QueueWith
<1> HIDE DEF back, kept
<1>5. /\ q \in Seq(Proc) /\ Len(q) = l + k
      /\ \A i \in 1..l : q[i] = pending[i]
      /\ \A i \in 1..k : q[l + i] = back[i]
  <2> DEFINE c == pending \o back
  <2>1. /\ c \in Seq(Proc) /\ Len(c) = l + Len(back)
        /\ \A i \in 1..l : c[i] = pending[i]
        /\ \A i \in 1..Len(back) : c[l + i] = back[i]
    BY <1>2
  <2> HIDE DEF c, q
  <2>2. q = c BY <1>4 DEF c
  <2> QED BY <1>2, <2>1, <2>2
<1>6. runs = kept \o new /\ rest = SubSeq(q, 1, Len(q) - m)
  BY DEF RunsWith, RestWith, kept
<1> HIDE DEF q, rest
<1>7. /\ new \in Seq(Proc) /\ Len(new) = m
      /\ \A i \in 1..m : new[i] = q[l + k + 1 - i]
      /\ rest \in Seq(Proc) /\ Len(rest) = l + k - m
      /\ \A i \in 1..(l + k - m) : rest[i] = q[i]
  <2>1. m \in 0..Len(q) BY <1>5
  <2>2. /\ new \in Seq(Proc) /\ Len(new) = m
        /\ \A i \in 1..m : new[i] = q[Len(q) + 1 - i]
        /\ rest \in Seq(Proc) /\ Len(rest) = Len(q) - m
        /\ \A i \in 1..(Len(q) - m) : rest[i] = q[i]
    BY <1>5, <1>6, <2>1, TakenFromEnds, Zenon
  <2> HIDE DEF new, rest
  <2> QED BY <1>5, <2>2
<1>8. /\ Reverse(rest) \in Seq(Proc) /\ Len(Reverse(rest)) = l + k - m
      /\ \A i \in 1..(l + k - m) : Reverse(rest)[i] = rest[l + k - m + 1 - i]
  <2>1. /\ Reverse(rest) \in Seq(Proc) /\ Len(Reverse(rest)) = Len(rest)
        /\ \A i \in 1..Len(rest) : Reverse(rest)[i] = rest[Len(rest) + 1 - i]
    BY <1>7, Reversed, Zenon
  <2> QED BY <1>7, <2>1
<1>9. /\ Reverse(pending) \in Seq(Proc) /\ Len(Reverse(pending)) = l
      /\ \A i \in 1..l : Reverse(pending)[i] = pending[l + 1 - i]
  BY Reversed
<1> HIDE DEF new, rest, runs
<1>10. /\ runs \in Seq(Proc) /\ Len(runs) = n - k + m
       /\ \A i \in 1..(n - k) : runs[i] = running[i]
       /\ \A i \in 1..m : runs[n - k + i] = new[i]
  <2> DEFINE c == kept \o new
  <2>1. /\ c \in Seq(Proc) /\ Len(c) = Len(kept) + Len(new)
        /\ \A i \in 1..Len(kept) : c[i] = kept[i]
        /\ \A i \in 1..Len(new) : c[Len(kept) + i] = new[i]
    <3>1. kept \in Seq(Proc) /\ new \in Seq(Proc) BY <1>3, <1>7
    <3> QED BY <3>1
  <2> HIDE DEF c
  <2>2. runs = c BY <1>6 DEF c
  <2> QED BY <1>3, <1>7, <2>1, <2>2
<1>11. \A i \in 1..m : new[i] = NextUp(k, i)
  BY <1>5, <1>7 DEF NextUp, q
<1> DEFINE a == runs \o Reverse(rest)
<1>12. /\ a \in Seq(Proc) /\ Len(a) = n + l
       /\ \A i \in 1..(n - k) : a[i] = running[i]
       /\ \A i \in 1..(l + k) : a[n - k + i] = q[l + k + 1 - i]
  <2>1. /\ a \in Seq(Proc) /\ Len(a) = n + l
        /\ \A i \in 1..(n - k + m) : a[i] = runs[i]
        /\ \A i \in 1..(l + k - m) : a[n - k + m + i] = Reverse(rest)[i]
    <3>1. /\ a \in Seq(Proc) /\ Len(a) = Len(runs) + Len(Reverse(rest))
          /\ \A i \in 1..Len(runs) : a[i] = runs[i]
          /\ \A i \in 1..Len(Reverse(rest)) : a[Len(runs) + i] = Reverse(rest)[i]
      <4>1. runs \in Seq(Proc) /\ Reverse(rest) \in Seq(Proc) BY <1>8, <1>10
      <4> QED BY <4>1
    <3> HIDE DEF a
    <3>2. n - k + m + (l + k - m) = n + l BY <1>1
    <3> QED BY <1>8, <1>10, <3>1, <3>2
  <2> HIDE DEF a
  <2>2. \A i \in 1..(n - k) : a[i] = running[i] BY <1>1, <1>10, <2>1
  <2>3. ASSUME NEW i \in 1..(l + k) PROVE a[n - k + i] = q[l + k + 1 - i]
    <3>1. CASE i <= m
      <4>1. n - k + i \in 1..(n - k + m) /\ i \in 1..m BY <1>1, <3>1
      <4> QED BY <1>7, <1>10, <2>1, <4>1
    <3>2. CASE i > m
      <4>1. /\ i - m \in 1..(l + k - m) /\ n - k + m + (i - m) = n - k + i
            /\ l + k - m + 1 - (i - m) = l + k + 1 - i
            /\ l + k + 1 - i \in 1..(l + k - m)
        BY <1>1, <3>2
      <4>2. a[n - k + i] = Reverse(rest)[i - m] BY <2>1, <4>1
      <4>3. Reverse(rest)[i - m] = rest[l + k + 1 - i] BY <1>8, <4>1
      <4> QED BY <1>7, <4>1, <4>2, <4>3
    <3> QED BY <1>1, <3>1, <3>2
  <2> QED BY <2>1, <2>2, <2>3
<1>13. /\ InLine \in Seq(Proc) /\ Len(InLine) = n + l
       /\ \A i \in 1..n : InLine[i] = running[i]
       /\ \A i \in 1..l : InLine[n + i] = Reverse(pending)[i]
  <2>1. /\ InLine \in Seq(Proc) /\ Len(InLine) = n + Len(Reverse(pending))
        /\ \A i \in 1..n : InLine[i] = running[i]
        /\ \A i \in 1..Len(Reverse(pending)) : InLine[n + i] = Reverse(pending)[i]
    <3>1. Reverse(pending) \in Seq(Proc) BY <1>9
    <3> QED BY <3>1 DEF InLine
  <2> QED BY <1>9, <2>1
<1> HIDE DEF a
<1>14. ASSUME NEW i \in 1..(n + l) PROVE a[i] = InLine[i]
  <2>1. CASE i <= n - k
    <3>1. i \in 1..(n - k) /\ i \in 1..n BY <1>1, <2>1
    <3> QED BY <1>12, <1>13, <3>1
  <2>2. CASE i > n - k /\ i <= n
    <3>1. /\ i - (n - k) \in 1..(l + k) /\ n - k + (i - (n - k)) = i
          /\ l + k + 1 - (i - (n - k)) = l + (n + 1 - i)
          /\ n + 1 - i \in 1..k /\ n + 1 - (n + 1 - i) = i /\ i \in 1..n
      BY <1>1, <2>2
    <3>2. a[i] = q[l + (n + 1 - i)] BY <1>12, <3>1
    <3>3. q[l + (n + 1 - i)] = running[i] BY <1>2, <1>5, <3>1
    <3> QED BY <1>13, <3>1, <3>2, <3>3
  <2>3. CASE i > n
    <3>1. /\ i - (n - k) \in 1..(l + k) /\ n - k + (i - (n - k)) = i
          /\ l + k + 1 - (i - (n - k)) = l + 1 - (i - n)
          /\ i - n \in 1..l /\ n + (i - n) = i /\ l + 1 - (i - n) \in 1..l
      BY <1>1, <2>3
    <3>2. a[i] = pending[l + 1 - (i - n)] BY <1>5, <1>12, <3>1
    <3>3. InLine[i] = pending[l + 1 - (i - n)] BY <1>9, <1>13, <3>1
    <3> QED BY <3>2, <3>3
  <2> QED BY <1>1, <2>1, <2>2, <2>3
<1>15. a = InLine BY <1>1, <1>12, <1>13, <1>14
<1> QED BY <1>5, <1>6, <1>7, <1>10, <1>11, <1>15 DEF a, runs, rest, q

LEMMA SameSet == \A s : Line!ToSet(s) = ToSet(s)
BY DEF Line!ToSet, ToSet

\* The coroutine that waits for it has not been told of its end.
Open(p) == future[p] \in {"waiting", "cancelled"}

\* No command of this start runs unpolled, and none is polled that does not run.
UnderPoll ==
  /\ Alive \subseteq ToSet(running)
  /\ \A p \in ToSet(running) : process[p].os \in {"alive"} \cup Codes

LineOK ==
  /\ running \in Seq(Proc) /\ pending \in Seq(Proc)
  /\ IsInjective(InLine)
  /\ \A p \in ToSet(InLine) : Open(p)
  /\ UnderPoll

\* A call of poll, command by command: rest goes on waiting, over has ended,
\* and what runs otherwise is alive or has a code that is not known yet.
LEMMA PollCommands ==
  ASSUME RunnerOK, LineOK, Poll
  PROVE  \E runs, rest \in Seq(Proc) : \E over \in SUBSET ToSet(runs) :
           /\ runs \o Reverse(rest) = InLine
           /\ pending' = rest /\ running' = Line!Without(runs, over)
           /\ \A p \in Proc :
                /\ future'[p] # future[p] => future'[p] \in Killed \cup Codes
                /\ p \in over => process'[p].os # "alive" /\ future'[p] # "waiting"
                /\ p \notin over => future'[p] = future[p]
                /\ p \in ToSet(runs) \ over => process'[p].os \in {"alive"} \cup Codes
                /\ p \notin ToSet(runs) => process'[p].os # "alive"
<1>1. PICK k \in 0..Len(running), m \in 0..Len(running) + Len(pending) :
        /\ ~Fits(k, m) /\ \A i \in 0..m - 1 : Fits(k, i)
        /\ LET runs == RunsWith(k, m)
               evicted == {LastRunning(i) : i \in 1..k}
               started == {NextUp(k, i) : i \in 1..m}
               now(p) == LET r == IF p \in evicted THEN Evicted(process[p]) ELSE process[p]
                         IN  IF p \in started THEN Started(r) ELSE r
               ended(p) == p \in ToSet(runs) /\ Outcome(now(p)) # "none"
           IN  /\ pending' = SubSeq(QueueWith(k), 1, Len(QueueWith(k)) - m)
               /\ running' = Line!Without(runs, {p \in Proc : ended(p)})
               /\ process' = [p \in Proc |->
                    IF ended(p) THEN [Fresh(p) EXCEPT !.os = Polled(now(p)).os]
                    ELSE IF p \in ToSet(runs) THEN Polled(now(p)) ELSE now(p)]
               /\ future' = [p \in Proc |->
                    IF ended(p) /\ future[p] = "waiting" THEN Outcome(now(p)) ELSE future[p]]
  BY Zenon DEF Poll
<1> DEFINE evicted == {LastRunning(i) : i \in 1..k}
           started == {NextUp(k, i) : i \in 1..m}
           evictedNow(p) == IF p \in evicted THEN Evicted(process[p]) ELSE process[p]
           now(p) == IF p \in started THEN Started(evictedNow(p)) ELSE evictedNow(p)
           runs == RunsWith(k, m)
           rest == RestWith(k, m)
           ended(p) == p \in ToSet(runs) /\ Outcome(now(p)) # "none"
           over == {p \in Proc : ended(p)}
<1>2. /\ pending' = rest
      /\ running' = Line!Without(runs, over)
      /\ \A p \in Proc :
           /\ process'[p] = IF ended(p) THEN [Fresh(p) EXCEPT !.os = Polled(now(p)).os]
                            ELSE IF p \in ToSet(runs) THEN Polled(now(p)) ELSE now(p)
           /\ future'[p] = IF ended(p) /\ future[p] = "waiting" THEN Outcome(now(p))
                           ELSE future[p]
  BY <1>1 DEF RestWith
<1>3. m \in 0..(Len(pending) + k)
  <2>1. QueueWith(k) \in Seq(Proc) /\ Len(QueueWith(k)) = Len(pending) + k
    BY FrontMoves DEF LineOK
  <2>2. CASE m = 0 BY <2>2 DEF LineOK
  <2>3. CASE m > 0
    <3>1. Fits(k, m - 1) BY <1>1, <2>3
    <3>2. m - 1 < Len(QueueWith(k)) BY <3>1 DEF Fits
    <3> QED BY <2>1, <3>2
  <2> QED BY <2>2, <2>3
<1>4. /\ runs \in Seq(Proc) /\ rest \in Seq(Proc)
      /\ Len(runs) = Len(running) - k + m
      /\ runs \o Reverse(rest) = InLine
      /\ \A i \in 1..(Len(running) - k) : runs[i] = running[i]
      /\ \A i \in 1..m : runs[Len(running) - k + i] = NextUp(k, i)
  BY <1>3, FrontMoves DEF LineOK
<1> HIDE DEF runs, rest
<1>5. started \subseteq ToSet(runs)
  <2> SUFFICES ASSUME NEW i \in 1..m PROVE NextUp(k, i) \in ToSet(runs)
    OBVIOUS
  <2>1. Len(running) - k + i \in DOMAIN runs BY <1>4 DEF LineOK
  <2> QED BY <1>4, <2>1 DEF ToSet
<1>6. \A p \in ToSet(running) : p \in evicted \/ p \in ToSet(runs) \ evicted
  <2> SUFFICES ASSUME NEW i \in 1..Len(running)
               PROVE  running[i] \in evicted \/ running[i] \in ToSet(runs)
    BY DEF LineOK, ToSet
  <2>1. CASE i <= Len(running) - k
    <3>1. i \in DOMAIN runs /\ runs[i] = running[i] BY <1>4, <2>1 DEF LineOK
    <3> QED BY <3>1 DEF ToSet
  <2>2. CASE i > Len(running) - k
    <3>1. Len(running) + 1 - i \in 1..k /\ LastRunning(Len(running) + 1 - i) = running[i]
      BY <2>2 DEF LastRunning, LineOK
    <3> QED BY <3>1
  <2> QED BY <2>1, <2>2 DEF LineOK
<1>7. \A p \in ToSet(runs) : p \in started \/ (p \in ToSet(running) /\ p \notin evicted)
  <2> SUFFICES ASSUME NEW i \in 1..Len(runs)
               PROVE  runs[i] \in started \/ (runs[i] \in ToSet(running) /\ runs[i] \notin evicted)
    <3>1. DOMAIN runs = 1..Len(runs) BY <1>4
    <3>2. ToSet(runs) = {runs[i] : i \in 1..Len(runs)} BY <3>1 DEF ToSet
    <3> HIDE DEF started, evicted
    <3> QED BY <3>2, Zenon
  <2>1. CASE i <= Len(running) - k
    <3>1. runs[i] = running[i] /\ i \in 1..Len(running) BY <1>4, <2>1 DEF LineOK
    <3>2. running[i] \in ToSet(running) BY <3>1 DEF ToSet, LineOK
    <3>3. ASSUME NEW h \in 1..k PROVE LastRunning(h) # running[i]
      <4>1. Len(running) + 1 - h \in 1..Len(running) /\ Len(running) + 1 - h # i
        BY <2>1, <3>1 DEF LineOK
      <4>2. \A g \in 1..Len(running) : InLine[g] = running[g] /\ g \in DOMAIN InLine
        <5>1. Reverse(pending) \in Seq(Proc) BY Reversed DEF LineOK
        <5> QED BY <5>1 DEF InLine, LineOK
      <4> QED BY <3>1, <4>1, <4>2 DEF LastRunning, IsInjective, LineOK
    <3> QED BY <3>1, <3>2, <3>3
  <2>2. CASE i > Len(running) - k
    <3>1. i - (Len(running) - k) \in 1..m
          /\ Len(running) - k + (i - (Len(running) - k)) = i
      BY <1>4, <2>2 DEF LineOK
    <3> QED BY <1>4, <3>1
  <2> QED BY <1>4, <2>1, <2>2 DEF LineOK
<1> HIDE DEF evicted, started
<1>8. \A p \in Proc : p \in ToSet(running) => process[p].os \in {"alive"} \cup Codes
  BY DEF LineOK, UnderPoll
<1>9. \A p \in Proc : p \notin ToSet(running) => process[p].os # "alive"
  BY DEF LineOK, UnderPoll, Alive
<1>10. \A r \in ProcessRecord :
         /\ Evicted(r) \in ProcessRecord /\ Evicted(r).os = "killed"
         /\ Started(r) \in ProcessRecord /\ Started(r).os = "alive"
  BY RecordEffect
<1>11. \A p \in Proc : process[p] \in ProcessRecord BY DEF RunnerOK
<1>12. \A p \in Proc :
         /\ now(p) \in ProcessRecord
         /\ p \in ToSet(runs) => now(p).os \in {"alive"} \cup Codes
         /\ p \notin ToSet(runs) => now(p).os # "alive"
  BY <1>5, <1>6, <1>7, <1>8, <1>9, <1>10, <1>11
<1> HIDE DEF now
<1>13. \A r \in ProcessRecord :
         /\ Polled(r) \in ProcessRecord
         /\ Outcome(r) = "none" => Polled(r).os = r.os
         /\ Outcome(r) # "none" /\ r.os \in {"alive"} \cup Codes => Polled(r).os # "alive"
         /\ Outcome(r) # "none" => Outcome(r) \in Killed \cup Codes
  BY RecordEffect
<1>14. ASSUME NEW p \in Proc
       PROVE  /\ future'[p] # future[p] => future'[p] \in Killed \cup Codes
              /\ p \in over => process'[p].os # "alive" /\ future'[p] # "waiting"
              /\ p \notin over => future'[p] = future[p]
              /\ p \in ToSet(runs) \ over => process'[p].os \in {"alive"} \cup Codes
              /\ p \notin ToSet(runs) => process'[p].os # "alive"
  <2>1. \A c \in Status : [Fresh(p) EXCEPT !.os = c].os = c
    BY FreshTyped DEF ProcessRecord
  <2>2. Polled(now(p)).os \in Status BY <1>12, <1>13 DEF ProcessRecord
  <2>3. CASE ended(p)
    <3>1. process'[p].os = Polled(now(p)).os BY <1>2, <2>1, <2>2, <2>3
    <3>2. process'[p].os # "alive" BY <1>12, <1>13, <2>3, <3>1
    <3>3. Outcome(now(p)) \in Killed \cup Codes BY <1>12, <1>13, <2>3
    <3>4. Outcome(now(p)) # "waiting" BY <3>3, RunnerAssumption DEF Killed
    <3> QED BY <1>2, <2>3, <3>2, <3>3, <3>4
  <2>4. CASE ~ended(p)
    <3>1. p \notin over /\ future'[p] = future[p] BY <1>2, <2>4
    <3>2. p \in ToSet(runs) => process'[p].os = now(p).os
      BY <1>2, <1>12, <1>13, <2>4
    <3>3. p \notin ToSet(runs) => process'[p] = now(p) BY <1>2, <2>4
    <3> QED BY <1>12, <3>1, <3>2, <3>3
  <2> QED BY <2>3, <2>4
<1>15. over \subseteq ToSet(runs) OBVIOUS
<1> HIDE DEF over
<1> QED BY <1>2, <1>4, <1>14, <1>15

LEMMA LineTyped ==
  ASSUME running \in Seq(Proc), pending \in Seq(Proc)
  PROVE  /\ InLine \in Seq(Proc) /\ Reverse(pending) \in Seq(Proc)
         /\ ToSet(InLine) = ToSet(running) \cup ToSet(pending)
         /\ ToSet(InLine) \subseteq Proc
<1>1. Reverse(pending) \in Seq(Proc) /\ ToSet(Reverse(pending)) = ToSet(pending)
  BY Reversed
<1>2. InLine \in Seq(Proc) /\ ToSet(InLine) = ToSet(running) \cup ToSet(pending)
  <2>1. \A t \in Seq(Proc) : ToSet(running \o t) = ToSet(running) \cup ToSet(t)
    <3> SUFFICES ASSUME NEW t \in Seq(Proc)
                 PROVE  ToSet(running \o t) = ToSet(running) \cup ToSet(t)
      OBVIOUS
    <3> HIDE DEF ToSet
    <3> QED BY Joined
  <2> QED BY <1>1, <2>1 DEF InLine
<1>3. ToSet(InLine) \subseteq Proc BY <1>2 DEF ToSet
<1> QED BY <1>1, <1>2, <1>3

LEMMA PollKeepsLine ==
  ASSUME RunnerOK, LineOK, Poll
  PROVE  /\ LineOK' /\ Line!Turn
         /\ \A p \in Proc : Open(p)' => Open(p)
<1>1. PICK runs, rest \in Seq(Proc) : \E over \in SUBSET ToSet(runs) :
           /\ runs \o Reverse(rest) = InLine
           /\ pending' = rest /\ running' = Line!Without(runs, over)
           /\ \A p \in Proc :
                /\ future'[p] # future[p] => future'[p] \in Killed \cup Codes
                /\ p \in over => process'[p].os # "alive" /\ future'[p] # "waiting"
                /\ p \notin over => future'[p] = future[p]
                /\ p \in ToSet(runs) \ over => process'[p].os \in {"alive"} \cup Codes
                /\ p \notin ToSet(runs) => process'[p].os # "alive"
  BY PollCommands, Zenon
<1>2. PICK over \in SUBSET ToSet(runs) :
           /\ runs \o Reverse(rest) = InLine
           /\ pending' = rest /\ running' = Line!Without(runs, over)
           /\ \A p \in Proc :
                /\ future'[p] # future[p] => future'[p] \in Killed \cup Codes
                /\ p \in over => process'[p].os # "alive" /\ future'[p] # "waiting"
                /\ p \notin over => future'[p] = future[p]
                /\ p \in ToSet(runs) \ over => process'[p].os \in {"alive"} \cup Codes
                /\ p \notin ToSet(runs) => process'[p].os # "alive"
  BY <1>1, Zenon
<1> DEFINE back == Reverse(rest)
<1>3. back \in Seq(Proc) /\ IsInjective(InLine) /\ InLine \in Seq(Proc)
  BY Reversed, LineTyped DEF LineOK
<1> HIDE DEF back
<1>4. runs \o back = InLine BY <1>2 DEF back
<1>5. /\ Len(InLine) = Len(runs) + Len(back)
      /\ \A i \in 1..Len(runs) : InLine[i] = runs[i]
      /\ \A i \in 1..Len(back) : InLine[Len(runs) + i] = back[i]
  <2> DEFINE c == runs \o back
  <2>1. /\ Len(c) = Len(runs) + Len(back)
        /\ \A i \in 1..Len(runs) : c[i] = runs[i]
        /\ \A i \in 1..Len(back) : c[Len(runs) + i] = back[i]
    <3>1. runs \in Seq(Proc) /\ back \in Seq(Proc) BY <1>3
    <3> QED BY <3>1
  <2> HIDE DEF c
  <2>2. c = InLine BY <1>4 DEF c
  <2> QED BY <2>1, <2>2
<1>6. IsInjective(runs)
  <2> SUFFICES ASSUME NEW i \in 1..Len(runs), NEW j \in 1..Len(runs), runs[i] = runs[j]
               PROVE  i = j
    BY DEF IsInjective
  <2>1. i \in DOMAIN InLine /\ j \in DOMAIN InLine BY <1>3, <1>5
  <2>2. InLine[i] = InLine[j] BY <1>5
  <2> QED BY <1>3, <2>1, <2>2 DEF IsInjective
<1>7. ToSet(back) \cap over = {}
  <2> SUFFICES ASSUME NEW i \in 1..Len(back), NEW j \in 1..Len(runs), back[i] = runs[j]
               PROVE  FALSE
    <3>1. DOMAIN back = 1..Len(back) /\ DOMAIN runs = 1..Len(runs) BY <1>3
    <3> QED BY <3>1 DEF ToSet
  <2>1. Len(runs) + i \in DOMAIN InLine /\ j \in DOMAIN InLine BY <1>3, <1>5
  <2>2. InLine[Len(runs) + i] = InLine[j] BY <1>5
  <2>3. Len(runs) + i # j OBVIOUS
  <2> QED BY <1>3, <2>1, <2>2, <2>3 DEF IsInjective
<1>8. InLine' = Line!Without(InLine, over)
  <2>1. InLine' = Line!Without(runs, over) \o back BY <1>2 DEF InLine, back
  <2>2. Line!Without(runs \o back, over) = Line!Without(runs, over) \o back
    BY <1>3, <1>7, WithoutInFront
  <2> QED BY <1>4, <2>1, <2>2
<1>9. /\ running' \in Seq(Proc) /\ pending' \in Seq(Proc)
      /\ ToSet(running') = ToSet(runs) \ over
  BY <1>2, WithoutHas
<1>10. IsInjective(InLine') /\ ToSet(InLine') = ToSet(InLine) \ over
  BY <1>3, <1>8, WithoutHas
<1>11. \A p \in Proc : Open(p)' => Open(p)
  <2> SUFFICES ASSUME NEW p \in Proc, Open(p)' PROVE Open(p)
    OBVIOUS
  <2>1. future'[p] \notin Killed \cup Codes BY RunnerAssumption DEF Open, Killed
  <2>2. future'[p] = future[p] BY <1>2, <2>1
  <2> QED BY <2>2 DEF Open
<1>12. \A p \in ToSet(InLine') : Open(p)'
  <2> SUFFICES ASSUME NEW p \in ToSet(InLine) \ over PROVE Open(p)'
    BY <1>10
  <2>1. p \in Proc /\ Open(p) BY LineTyped DEF LineOK
  <2>2. future'[p] = future[p] BY <1>2, <2>1
  <2> QED BY <2>1, <2>2 DEF Open
<1>13. UnderPoll'
  <2>1. Alive' \subseteq ToSet(running')
    <3> SUFFICES ASSUME NEW p \in Proc, process'[p].os = "alive" PROVE p \in ToSet(running')
      BY DEF Alive
    <3> QED BY <1>2, <1>9
  <2>2. \A p \in ToSet(running') : process'[p].os \in {"alive"} \cup Codes
    <3> SUFFICES ASSUME NEW p \in ToSet(runs) \ over
                 PROVE  process'[p].os \in {"alive"} \cup Codes
      BY <1>9
    <3>1. p \in Proc BY DEF ToSet
    <3> QED BY <1>2, <3>1
  <2> QED BY <2>1, <2>2 DEF UnderPoll
<1>14. LineOK' BY <1>9, <1>10, <1>12, <1>13 DEF LineOK
<1>15. Line!Turn
  <2>1. over \subseteq ToSet(InLine)
    <3> SUFFICES ASSUME NEW i \in 1..Len(runs) PROVE runs[i] \in ToSet(InLine)
      BY DEF ToSet
    <3>1. i \in DOMAIN InLine /\ InLine[i] = runs[i] BY <1>3, <1>5
    <3> QED BY <3>1 DEF ToSet
  <2>2. ToSet(InLine) \ ToSet(InLine') = over BY <1>10, <2>1
  <2>3. Len(runs) \in 0..Len(InLine) BY <1>3, <1>5
  <2>4. SubSeq(InLine, 1, Len(runs)) = runs
    <3> DEFINE f == SubSeq(InLine, 1, Len(runs))
    <3>1. /\ f \in Seq(Proc) /\ Len(f) = Len(runs)
          /\ \A i \in 1..Len(runs) : f[i] = InLine[i]
      <4>1. InLine \in Seq(Proc) /\ Len(runs) \in 0..Len(InLine) BY <1>3, <2>3
      <4> QED BY <4>1
    <3> HIDE DEF f
    <3>2. f = runs BY <1>5, <3>1
    <3> QED BY <3>2 DEF f
  <2>5. Len(running') = Len(runs) - Cardinality(over)
    <3>1. Len(runs) - Len(Line!Without(runs, over)) = Cardinality(over)
      BY <1>6, WithoutIsShorter
    <3>2. Len(running') \in Nat BY <1>9
    <3> QED BY <1>2, <3>1, <3>2
  <2> DEFINE n == Len(runs)
  <2>6. /\ n \in 0..Len(InLine)
        /\ Line!ToSet(InLine) \ Line!ToSet(InLine') = over
        /\ over \subseteq Line!ToSet(SubSeq(InLine, 1, n))
        /\ InLine' = Line!Without(InLine, over)
        /\ Len(running') = n - Line!Cardinality(over)
    BY <1>8, <2>2, <2>3, <2>4, <2>5, SameSet, SameCardinality
  <2> HIDE DEF n
  <2>7. \E l \in 0..Len(InLine) :
          LET o == Line!ToSet(InLine) \ Line!ToSet(InLine')
          IN  /\ o \subseteq Line!ToSet(SubSeq(InLine, 1, l))
              /\ InLine' = Line!Without(InLine, o)
              /\ Len(running') = l - Line!Cardinality(o)
    BY <2>6, Zenon
  <2> QED BY <2>7, Zenon DEF Line!Turn, InLine
<1> QED BY <1>11, <1>14, <1>15

\* New commands come to the end of the line.
LEMMA ShellKeepsLine ==
  ASSUME RunnerOK, LineOK, NEW ps \in Seq(Proc), IsInjective(ps),
         \A p \in ToSet(ps) : ~Open(p), Shell(ps)
  PROVE  /\ LineOK' /\ (Line!Join \/ UNCHANGED <<running, pending>>)
         /\ \A p \in Proc : Open(p)' => Open(p) \/ p \in ToSet(ps)
<1>1. pending' = Reverse(ps) \o pending /\ running' = running
  BY DEF Shell, Queued
<1>2. /\ Reverse(ps) \in Seq(Proc) /\ Len(Reverse(ps)) = Len(ps)
      /\ \A i \in 1..Len(ps) : Reverse(ps)[i] = ps[Len(ps) + 1 - i]
      /\ ToSet(Reverse(ps)) = ToSet(ps)
      /\ Reverse(pending) \in Seq(Proc) /\ Len(Reverse(pending)) = Len(pending)
      /\ \A i \in 1..Len(pending) : Reverse(pending)[i] = pending[Len(pending) + 1 - i]
  BY Reversed DEF LineOK
<1>3. /\ pending' \in Seq(Proc) /\ Len(pending') = Len(ps) + Len(pending)
      /\ \A i \in 1..Len(ps) : pending'[i] = Reverse(ps)[i]
      /\ \A i \in 1..Len(pending) : pending'[Len(ps) + i] = pending[i]
  <2> DEFINE a == Reverse(ps)
             c == a \o pending
  <2>1. a \in Seq(Proc) /\ Len(a) = Len(ps) /\ pending \in Seq(Proc)
    BY <1>2 DEF LineOK
  <2> HIDE DEF a
  <2>2. /\ c \in Seq(Proc) /\ Len(c) = Len(a) + Len(pending)
        /\ \A i \in 1..Len(a) : c[i] = a[i]
        /\ \A i \in 1..Len(pending) : c[Len(a) + i] = pending[i]
    BY <2>1
  <2> HIDE DEF c
  <2>3. pending' = c BY <1>1 DEF a, c
  <2> QED BY <2>1, <2>2, <2>3 DEF a
<1>4. /\ Reverse(pending') \in Seq(Proc)
      /\ Len(Reverse(pending')) = Len(ps) + Len(pending)
      /\ \A i \in 1..(Len(ps) + Len(pending)) :
           Reverse(pending')[i] = pending'[Len(ps) + Len(pending) + 1 - i]
  <2>1. /\ Reverse(pending') \in Seq(Proc) /\ Len(Reverse(pending')) = Len(pending')
        /\ \A i \in 1..Len(pending') : Reverse(pending')[i] = pending'[Len(pending') + 1 - i]
    BY <1>3, Reversed, Zenon
  <2> QED BY <1>3, <2>1
<1> DEFINE back == Reverse(pending)
           new == back \o ps
<1>5. /\ new \in Seq(Proc) /\ Len(new) = Len(pending) + Len(ps)
      /\ \A i \in 1..Len(pending) : new[i] = back[i]
      /\ \A i \in 1..Len(ps) : new[Len(pending) + i] = ps[i]
  <2>1. back \in Seq(Proc) /\ Len(back) = Len(pending) BY <1>2
  <2> HIDE DEF back
  <2>2. /\ new \in Seq(Proc) /\ Len(new) = Len(back) + Len(ps)
        /\ \A i \in 1..Len(back) : new[i] = back[i]
        /\ \A i \in 1..Len(ps) : new[Len(back) + i] = ps[i]
    BY <2>1
  <2> QED BY <2>1, <2>2
<1> HIDE DEF new
<1>6. Len(ps) \in Nat /\ Len(pending) \in Nat BY DEF LineOK
<1>7. ASSUME NEW i \in 1..(Len(ps) + Len(pending)) PROVE Reverse(pending')[i] = new[i]
  <2>1. CASE i <= Len(pending)
    <3> DEFINE h == Len(pending) + 1 - i
    <3>1. /\ Len(ps) + Len(pending) + 1 - i = Len(ps) + h
          /\ h \in 1..Len(pending) /\ i \in 1..Len(pending)
      BY <1>6, <2>1
    <3>2. back[i] = pending[h] BY <1>2, <3>1
    <3> HIDE DEF h, back
    <3>3. Reverse(pending')[i] = pending'[Len(ps) + h] BY <1>4, <3>1
    <3>4. pending'[Len(ps) + h] = pending[h] BY <1>3, <3>1
    <3> QED BY <1>5, <3>1, <3>2, <3>3, <3>4
  <2>2. CASE i > Len(pending)
    <3> DEFINE h == i - Len(pending)
    <3>1. /\ h \in 1..Len(ps) /\ Len(pending) + h = i
          /\ Len(ps) + Len(pending) + 1 - i = Len(ps) + 1 - h
          /\ Len(ps) + 1 - h \in 1..Len(ps) /\ Len(ps) + 1 - (Len(ps) + 1 - h) = h
      BY <1>6, <2>2
    <3> HIDE DEF h
    <3>2. Reverse(pending')[i] = Reverse(ps)[Len(ps) + 1 - h] BY <1>3, <1>4, <3>1
    <3>3. Reverse(ps)[Len(ps) + 1 - h] = ps[h] BY <1>2, <3>1
    <3>4. new[i] = ps[h] BY <1>5, <3>1
    <3> QED BY <3>2, <3>3, <3>4
  <2> QED BY <1>6, <2>1, <2>2
<1>8. Reverse(pending') = new
  BY <1>4, <1>5, <1>6, <1>7
<1>9. InLine' = InLine \o ps
  <2>1. InLine' = running \o new BY <1>1, <1>8 DEF InLine
  <2>2. running \o (back \o ps) = (running \o back) \o ps
    <3>1. running \in Seq(Proc) /\ back \in Seq(Proc) BY <1>2 DEF LineOK
    <3> HIDE DEF back
    <3> QED BY <3>1
  <2> QED BY <2>1, <2>2 DEF InLine, new
<1>10. InLine \in Seq(Proc) /\ IsInjective(InLine) /\ \A p \in ToSet(InLine) : Open(p) /\ p \in Proc
  BY LineTyped DEF LineOK
<1> DEFINE c == InLine \o ps
<1>11. /\ c \in Seq(Proc) /\ Len(c) = Len(InLine) + Len(ps)
       /\ \A i \in 1..Len(InLine) : c[i] = InLine[i]
       /\ \A i \in 1..Len(ps) : c[Len(InLine) + i] = ps[i]
  <2>1. InLine \in Seq(Proc) BY <1>10
  <2> QED BY <2>1
<1>12. ToSet(c) = ToSet(InLine) \cup ToSet(ps)
  <2>1. \A s \in Seq(Proc) : ToSet(s \o ps) = ToSet(s) \cup ToSet(ps)
    <3> SUFFICES ASSUME NEW s \in Seq(Proc) PROVE ToSet(s \o ps) = ToSet(s) \cup ToSet(ps)
      OBVIOUS
    <3> QED BY Joined
  <2> QED BY <1>10, <2>1
<1>13. Len(InLine) \in Nat BY <1>10
<1> HIDE DEF c
<1>14. IsInjective(c)
  <2> SUFFICES ASSUME NEW i \in 1..Len(c), NEW j \in 1..Len(c), c[i] = c[j], i < j
               PROVE  FALSE
    <3>1. DOMAIN c = 1..Len(c) /\ Len(c) \in Nat BY <1>11
    <3> QED BY <3>1 DEF IsInjective
  <2>1. CASE j <= Len(InLine)
    <3>1. i \in DOMAIN InLine /\ j \in DOMAIN InLine /\ InLine[i] = InLine[j]
      BY <1>10, <1>11, <1>13, <2>1
    <3> QED BY <1>10, <3>1 DEF IsInjective
  <2>2. CASE i > Len(InLine)
    <3>1. /\ i - Len(InLine) \in 1..Len(ps) /\ Len(InLine) + (i - Len(InLine)) = i
          /\ j - Len(InLine) \in 1..Len(ps) /\ Len(InLine) + (j - Len(InLine)) = j
      BY <1>6, <1>11, <1>13, <2>2
    <3>2. ps[i - Len(InLine)] = ps[j - Len(InLine)] BY <1>11, <3>1
    <3>3. DOMAIN ps = 1..Len(ps) OBVIOUS
    <3>4. i - Len(InLine) = j - Len(InLine) BY <3>1, <3>2, <3>3 DEF IsInjective
    <3> QED BY <1>13, <3>4
  <2>3. CASE i <= Len(InLine) /\ j > Len(InLine)
    <3>1. /\ j - Len(InLine) \in 1..Len(ps) /\ Len(InLine) + (j - Len(InLine)) = j
          /\ i \in 1..Len(InLine)
      BY <1>6, <1>11, <1>13, <2>3
    <3>2. InLine[i] = ps[j - Len(InLine)] BY <1>11, <3>1
    <3>3. InLine[i] \in ToSet(InLine) BY <1>10, <3>1 DEF ToSet
    <3>4. ps[j - Len(InLine)] \in ToSet(ps) BY <3>1 DEF ToSet
    <3> QED BY <1>10, <3>2, <3>3, <3>4
  <2> QED BY <1>13, <1>11, <2>1, <2>2, <2>3
<1>15. \A p \in ToSet(ps) : p \in Proc BY DEF ToSet
<1>16. /\ \A p \in ToSet(ps) : process'[p].os = "unborn" /\ future'[p] = "waiting"
       /\ \A p \in Proc \ ToSet(ps) : process'[p] = process[p] /\ future'[p] = future[p]
  BY <1>15, ShellEffect
<1>17. \A p \in ToSet(c) : Open(p)'
  <2> SUFFICES ASSUME NEW p \in ToSet(InLine) \cup ToSet(ps) PROVE Open(p)'
    BY <1>12
  <2>1. CASE p \in ToSet(ps) BY <1>16, <2>1 DEF Open
  <2>2. CASE p \notin ToSet(ps) BY <1>10, <1>16, <2>2 DEF Open
  <2> QED BY <2>1, <2>2
<1>18. UnderPoll'
  <2>1. Alive' \subseteq ToSet(running')
    <3> SUFFICES ASSUME NEW p \in Proc, process'[p].os = "alive" PROVE p \in ToSet(running)
      BY <1>1 DEF Alive
    <3>1. p \notin ToSet(ps) BY <1>16
    <3>2. process[p].os = "alive" BY <1>16, <3>1
    <3> QED BY <3>2 DEF LineOK, UnderPoll, Alive
  <2>2. ASSUME NEW p \in ToSet(running') PROVE process'[p].os \in {"alive"} \cup Codes
    <3>1. p \in ToSet(running) /\ process[p].os \in {"alive"} \cup Codes
      BY <1>1, <2>2 DEF LineOK, UnderPoll
    <3>2. p \in ToSet(InLine) BY <3>1, LineTyped DEF LineOK
    <3>3. p \in Proc \ ToSet(ps) BY <1>10, <3>2
    <3> QED BY <1>16, <3>1, <3>3
  <2> QED BY <2>1, <2>2 DEF UnderPoll
<1>19. InLine' = c BY <1>9 DEF c
<1>20. LineOK' BY <1>1, <1>3, <1>14, <1>17, <1>18, <1>19 DEF LineOK
<1>21. Line!Join \/ UNCHANGED <<running, pending>>
  <2>1. CASE Len(ps) = 0
    <3>1. ps = <<>> BY <2>1
    <3>2. Len(pending') = Len(pending) /\ \A i \in 1..Len(pending) : pending'[i] = pending[i]
      BY <1>3, <1>6, <2>1
    <3>3. pending \in Seq(Proc) /\ pending' \in Seq(Proc) BY <1>3 DEF LineOK
    <3>4. pending' = pending BY <3>2, <3>3
    <3> QED BY <1>1, <3>4
  <2>2. CASE Len(ps) # 0
    <3>1. Len(InLine) <= Len(c) /\ Len(c) # Len(InLine) BY <1>6, <1>11, <1>13, <2>2
    <3>2. SubSeq(InLine, 1, Len(InLine)) = SubSeq(c, 1, Len(InLine))
      <4> DEFINE f == SubSeq(InLine, 1, Len(InLine))
                 g == SubSeq(c, 1, Len(InLine))
      <4>1. f \in Seq(Proc) /\ Len(f) = Len(InLine) /\ \A i \in 1..Len(InLine) : f[i] = InLine[i]
        <5>1. InLine \in Seq(Proc) BY <1>10
        <5> QED BY <5>1
      <4>2. g \in Seq(Proc) /\ Len(g) = Len(InLine) /\ \A i \in 1..Len(InLine) : g[i] = c[i]
        <5>1. c \in Seq(Proc) /\ Len(InLine) \in 0..Len(c) BY <1>6, <1>11, <1>13
        <5> QED BY <5>1
      <4> HIDE DEF f, g
      <4>3. f = g BY <1>11, <4>1, <4>2
      <4> QED BY <4>3 DEF f, g
    <3>3. Line!IsStrictPrefix(InLine, c)
      BY <3>1, <3>2, Zenon DEF Line!IsStrictPrefix, Line!IsPrefix
    <3>4. Line!IsInjective(c) BY <1>14 DEF Line!IsInjective, IsInjective
    <3> QED BY <1>1, <1>19, <3>3, <3>4, Zenon DEF Line!Join, InLine
  <2> QED BY <2>1, <2>2
<1>22. \A p \in Proc : Open(p)' => Open(p) \/ p \in ToSet(ps)
  BY <1>16 DEF Open
<1> QED BY <1>20, <1>21, <1>22

\* The line stays as it is.
LEMMA LineStays ==
  ASSUME LineOK, UNCHANGED <<running, pending>>,
         \A p \in Proc : /\ Open(p) => Open(p)'
                         /\ \/ process'[p].os = process[p].os
                            \/ process[p].os = "alive" /\ process'[p].os \in Codes
  PROVE  LineOK'
<1>1. InLine' = InLine BY DEF InLine
<1>2. \A p \in ToSet(InLine) : p \in Proc BY LineTyped DEF LineOK
<1>3. \A p \in ToSet(running) : p \in Proc BY <1>2, LineTyped DEF LineOK
<1>4. \A p \in ToSet(InLine') : Open(p)' BY <1>1, <1>2 DEF LineOK
<1>5. "alive" \notin Codes BY RunnerAssumption
<1>6. Alive' \subseteq ToSet(running') BY <1>5 DEF LineOK, UnderPoll, Alive
<1>7. \A p \in ToSet(running') : process'[p].os \in {"alive"} \cup Codes
  BY <1>3 DEF LineOK, UnderPoll
<1> QED BY <1>1, <1>4, <1>6, <1>7 DEF LineOK, UnderPoll

\* asyncio.run has returned: the line is gone.
LEMMA LineCloses ==
  ASSUME NEW exit, Leave(exit)
  PROVE  LineOK' /\ Line!Close /\ \A p \in Proc : ~Open(p)'
<1>1. /\ pending' = <<>> /\ running' = <<>>
      /\ \A p \in Proc : process'[p].os = "unborn" /\ future'[p] = "unborn"
  BY FreshTyped DEF Leave
<1>2. InLine' = <<>>
  BY <1>1 DEF InLine, Reverse
<1>3. Line!Close BY <1>1, <1>2 DEF Line!Close, InLine
<1>4. ToSet(<<>>) = {} BY DEF ToSet
<1>5. UnderPoll' BY <1>1, <1>4 DEF UnderPoll, Alive
<1>6. IsInjective(<<>>) BY DEF IsInjective
<1>7. LineOK' BY <1>1, <1>2, <1>4, <1>5, <1>6 DEF LineOK
<1>8. \A p \in Proc : ~Open(p)' BY <1>1 DEF Open
<1> QED BY <1>3, <1>7, <1>8

-----------------------------------------------------------------------------
(* The line of the conductor                                               *)

\* Nothing waits between the steps, and otherwise only what a coroutine of the
\* batch waits for now.
Idle == main.phase \in {"off", "steps"} => \A p \in Proc : ~Open(p)

WaitsForItsStage ==
  Working => \A j \in JobId, kind \in Kinds : Open(<<j, kind>>) =>
    \/ kind = "prep" /\ job[j].stage = "prep"
    \/ kind = EngineKind /\ job[j].stage = "engine"

LineInv == LineOK /\ Idle /\ WaitsForItsStage

LineMoves == Line!Join \/ Line!Turn \/ Line!Close \/ UNCHANGED <<running, pending>>

LEMMA ProcOf == \A j \in JobId, kind \in Kinds : <<j, kind>> \in Proc
BY ConductorAssumption

\* The runner is left alone when nothing waits.
LEMMA NothingHappens ==
  ASSUME LineOK, \A p \in Proc : ~Open(p), UNCHANGED runnerVars
  PROVE  LineInv' /\ LineMoves
<1>1. UNCHANGED <<running, pending, process, future>> BY DEF runnerVars
<1>2. LineOK' BY <1>1, LineStays DEF Open
<1>3. \A p \in Proc : ~Open(p)' BY <1>1 DEF Open
<1>4. Idle' /\ WaitsForItsStage' BY <1>3, ProcOf DEF Idle, WaitsForItsStage
<1> QED BY <1>1, <1>2, <1>4 DEF LineInv, LineMoves

\* A batch begins when nothing waits.
LEMMA BatchKeepsLine ==
  ASSUME RunnerOK, LineOK, NEW S \in SUBSET Block, Batch(S),
         main'.phase \in {"build", "run"}, \A p \in Proc : ~Open(p)
  PROVE  LineInv' /\ LineMoves
<1>0. PICK order \in Orders(S) :
        /\ DOMAIN order \subseteq JobId
        /\ job' = [j \in JobId |->
             IF j \in DOMAIN order
               THEN [stage |-> "prep", block |-> order[j], file |-> FileOf(j), result |-> "none"]
               ELSE NoJob]
        /\ Shell([j \in DOMAIN order |-> <<j, "prep">>])
  BY Zenon DEF Batch
<1> DEFINE ps == [j \in DOMAIN order |-> <<j, "prep">>]
<1>1. /\ DOMAIN order \subseteq JobId
      /\ \A j \in DOMAIN order : job'[j].stage = "prep"
      /\ Shell(ps)
  BY <1>0
<1>2. PICK n \in Nat : DOMAIN order = 1..n BY OrderOfBlocks, Zenon
<1>3. \A j \in 1..n : ps[j] = <<j, "prep">> /\ <<j, "prep">> \in Proc
  BY <1>1, <1>2, ProcOf DEF Kinds
<1>4. ps \in Seq(Proc) /\ DOMAIN ps = 1..n BY <1>2, <1>3
<1> HIDE DEF ps
<1>5. IsInjective(ps)
  <2> SUFFICES ASSUME NEW i \in 1..n, NEW j \in 1..n, ps[i] = ps[j] PROVE i = j
    BY <1>4 DEF IsInjective
  <2>1. <<i, "prep">> = <<j, "prep">> BY <1>3
  <2> QED BY <2>1
<1>6. \A p \in ToSet(ps) : \E j \in 1..n : p = <<j, "prep">> BY <1>3, <1>4 DEF ToSet
<1>7. \A p \in ToSet(ps) : p \in Proc /\ ~Open(p) BY <1>3, <1>6
<1>8. /\ LineOK' /\ (Line!Join \/ UNCHANGED <<running, pending>>)
      /\ \A p \in Proc : Open(p)' => Open(p) \/ p \in ToSet(ps)
  BY <1>1, <1>4, <1>5, <1>7, ShellKeepsLine
<1>9. WaitsForItsStage'
  <2> SUFFICES ASSUME NEW j \in JobId, NEW kind \in Kinds, Open(<<j, kind>>)'
               PROVE  kind = "prep" /\ job'[j].stage = "prep"
    BY DEF WaitsForItsStage
  <2>1. <<j, kind>> \in Proc BY ProcOf
  <2>2. <<j, kind>> \in ToSet(ps) BY <1>8, <2>1
  <2>3. PICK i \in 1..n : <<j, kind>> = <<i, "prep">> BY <1>6, <2>2
  <2>4. j = i /\ kind = "prep" BY <2>3
  <2> QED BY <1>1, <1>2, <2>4
<1>10. Idle' BY DEF Idle
<1> QED BY <1>8, <1>9, <1>10 DEF LineInv, LineMoves

\* When all coroutines of a batch are over, nothing waits.
LEMMA NothingWaits ==
  ASSUME IInv, LineInv, main.phase \in {"build", "run"}, AllOver
  PROVE  \A p \in Proc : ~Open(p)
<1>1. \A j \in JobId, kind \in Kinds : ~Open(<<j, kind>>)
  <2> SUFFICES ASSUME NEW j \in JobId, NEW kind \in Kinds, Open(<<j, kind>>)
               PROVE  FALSE
    OBVIOUS
  <2>1. job[j].stage \in {"prep", "engine"}
    BY DEF LineInv, WaitsForItsStage, Working
  <2> QED BY <2>1 DEF AllOver, Jobs
<1>2. ASSUME NEW p \in JobId \X Kinds PROVE ~Open(p)
  <2>1. p = <<p[1], p[2]>> /\ p[1] \in JobId /\ p[2] \in Kinds OBVIOUS
  <2> QED BY <1>1, <2>1, Zenon
<1> QED BY <1>2, ConductorAssumption

LEMMA LeaveKeepsLine ==
  ASSUME IInv, NEW exit, Leave(exit) PROVE LineInv' /\ LineMoves
<1>1. LineOK' /\ Line!Close /\ \A p \in Proc : ~Open(p)' BY LineCloses
<1>2. Idle' /\ WaitsForItsStage' BY <1>1, ProcOf DEF Idle, WaitsForItsStage
<1> QED BY <1>1, <1>2 DEF LineInv, LineMoves

\* With phase and stages as they are, nothing new waits.
LEMMA RunnerKeepsLine ==
  ASSUME IInv, LineInv, LineOK', UNCHANGED <<main, job>>,
         \A p \in Proc : Open(p)' => Open(p)
  PROVE  LineInv'
<1>1. Idle' BY DEF LineInv, Idle
<1>2. WaitsForItsStage'
  BY ProcOf DEF LineInv, WaitsForItsStage, Working, EngineKind
<1> QED BY <1>1, <1>2 DEF LineInv

LEMMA CommandsKeepLine ==
  ASSUME IInv, LineInv, NEW p \in Proc, Ends(p) \/ Works(p)
  PROVE  LineInv' /\ LineMoves
<1>1. UNCHANGED <<running, pending, main, job>>
  BY DEF Ends, Works, CommandExits, Exit, Grow, Expire
<1>2. /\ future' = future
      /\ \A q \in Proc : \/ process'[q].os = process[q].os
                         \/ process[q].os = "alive" /\ process'[q].os \in Codes
  <2>1. CASE Works(p) BY <2>1, CommandEffect DEF Works, IInv
  <2>2. CASE Ends(p)
    <3>1. PICK c \in Codes : Exit(p, c)
      BY <2>2, ConductorAssumption DEF Ends, CommandExits
    <3>2. process[p].os = "alive" BY <3>1 DEF Exit
    <3> QED BY <3>1, <3>2, CommandEffect DEF IInv
  <2> QED BY <2>1, <2>2
<1>3. LineOK' BY <1>1, <1>2, LineStays DEF LineInv, Open
<1>4. LineInv' BY <1>1, <1>2, <1>3, RunnerKeepsLine DEF Open
<1> QED BY <1>1, <1>4 DEF LineMoves

\* An engine is queued, by a coroutine that has waited for its file.
LEMMA EngineQueued ==
  ASSUME IInv, LineInv, NEW i \in JobId, main.phase \in {"build", "run"},
         job[i].stage = "prep", Prepared(i), Shell(<< <<i, EngineKind>> >>)
  PROVE  /\ LineOK' /\ LineMoves
         /\ \A p \in Proc : Open(p)' => Open(p) \/ p = <<i, EngineKind>>
<1> DEFINE e == <<i, EngineKind>>
           ps == << e >>
<1>1. EngineKind \in Kinds /\ EngineKind # "prep" BY DEF EngineKind, Kinds
<1>2. e \in Proc /\ ~Open(e)
  BY <1>1, ProcOf DEF LineInv, WaitsForItsStage, Working
<1> HIDE DEF e
<1>3. ps \in Seq(Proc) /\ ToSet(ps) = {e} /\ IsInjective(ps)
  BY <1>2 DEF ToSet, IsInjective
<1>4. \A p \in ToSet(ps) : ~Open(p) BY <1>2, <1>3
<1>5. Shell(ps) BY DEF e
<1> HIDE DEF ps
<1> QED BY <1>3, <1>4, <1>5, ShellKeepsLine DEF e, LineInv, LineMoves, IInv

LEMMA CoroutinesKeepLine ==
  ASSUME IInv, LineInv, NEW i \in JobId, Coroutine(i)
  PROVE  LineInv' /\ LineMoves
<1>1. CASE RunEngine(i)
  <2>1. /\ main.phase \in {"build", "run"} /\ job[i].stage = "prep" /\ Prepared(i)
        /\ Shell(<< <<i, EngineKind>> >>) /\ main' = main
        /\ job' = [job EXCEPT ![i].stage = "engine"]
    BY <1>1 DEF RunEngine
  <2>2. /\ LineOK' /\ LineMoves
        /\ \A p \in Proc : Open(p)' => Open(p) \/ p = <<i, EngineKind>>
    BY <2>1, EngineQueued
  <2>3. job'[i].stage = "engine" /\ \A j \in JobId \ {i} : job'[j] = job[j]
    BY <2>1 DEF IInv, JobsOK, JobRecord
  <2>4. WaitsForItsStage'
    <3> SUFFICES ASSUME NEW j \in JobId, NEW kind \in Kinds, Open(<<j, kind>>)'
                 PROVE  \/ kind = "prep" /\ job'[j].stage = "prep"
                        \/ kind = EngineKind /\ job'[j].stage = "engine"
      BY <2>1 DEF WaitsForItsStage, EngineKind
    <3>1. Open(<<j, kind>>) \/ <<j, kind>> = <<i, EngineKind>> BY <2>2, ProcOf
    <3>2. CASE <<j, kind>> = <<i, EngineKind>> BY <2>3, <3>2
    <3>3. CASE Open(<<j, kind>>) /\ j # i
      BY <2>1, <2>3, <3>3 DEF LineInv, WaitsForItsStage, Working
    <3>4. CASE Open(<<j, kind>>) /\ j = i
      <4>1. kind = "prep" BY <2>1, <3>4 DEF LineInv, WaitsForItsStage, Working
      <4>2. future[<<i, "prep">>] = "0" BY <2>1 DEF Prepared
      <4> QED BY <3>4, <4>1, <4>2 DEF Open
    <3> QED BY <3>1, <3>2, <3>3, <3>4
  <2>5. Idle' BY <2>1 DEF Idle
  <2> QED BY <2>2, <2>4, <2>5 DEF LineInv
<1>2. CASE RaceRaises(i)
  <2>1. /\ main.phase \in {"build", "run"} /\ job[i].stage = "prep" /\ Prepared(i)
        /\ Shell(<< <<i, EngineKind>> >>) /\ main' = [main EXCEPT !.phase = "raised"]
    BY <1>2 DEF RaceRaises
  <2>2. LineOK' /\ LineMoves BY <2>1, EngineQueued
  <2>3. main'.phase = "raised" BY <2>1 DEF IInv, MainOK
  <2>4. Idle' /\ WaitsForItsStage' BY <2>3 DEF Idle, WaitsForItsStage, Working
  <2> QED BY <2>2, <2>4 DEF LineInv
<1>3. CASE AssertRaises(i)
  <2>1. UNCHANGED runnerVars /\ main' = [main EXCEPT !.phase = "raised"]
    BY <1>3 DEF AssertRaises
  <2>2. UNCHANGED <<running, pending, process, future>> BY <2>1 DEF runnerVars
  <2>3. LineOK' BY <2>2, LineStays DEF Open, LineInv
  <2>4. main'.phase = "raised" BY <2>1 DEF IInv, MainOK
  <2>5. Idle' /\ WaitsForItsStage' BY <2>4 DEF Idle, WaitsForItsStage, Working
  <2> QED BY <2>2, <2>3, <2>5 DEF LineInv, LineMoves
<1>4. CASE EngineDone(i)
  <2> DEFINE f == future[<<i, EngineKind>>]
  <2>1. /\ UNCHANGED runnerVars /\ main' = main /\ main.phase \in {"build", "run"}
        /\ f \notin {"unborn", "waiting", "cancelled"}
        /\ job[i].stage = "engine"
        /\ job' = [job EXCEPT ![i].stage = "over", ![i].result = f]
    BY <1>4 DEF EngineDone, Done
  <2> HIDE DEF f
  <2>2. UNCHANGED <<running, pending, process, future>> BY <2>1 DEF runnerVars
  <2>3. LineOK' BY <2>2, LineStays DEF Open, LineInv
  <2>4. \A j \in JobId \ {i} : job'[j] = job[j]
    BY <2>1 DEF IInv, JobsOK
  <2>5. WaitsForItsStage'
    <3> SUFFICES ASSUME NEW j \in JobId, NEW kind \in Kinds, Open(<<j, kind>>)
                 PROVE  \/ kind = "prep" /\ job'[j].stage = "prep"
                        \/ kind = EngineKind /\ job'[j].stage = "engine"
      BY <2>1, <2>2 DEF WaitsForItsStage, EngineKind, Open
    <3>1. CASE j # i
      BY <2>1, <2>4, <3>1 DEF LineInv, WaitsForItsStage, Working
    <3>2. CASE j = i
      <4>1. kind = EngineKind BY <2>1, <3>2 DEF LineInv, WaitsForItsStage, Working
      <4> QED BY <2>1, <3>2, <4>1 DEF Open, f
    <3> QED BY <3>1, <3>2
  <2>6. Idle' BY <2>1 DEF Idle
  <2> QED BY <2>2, <2>3, <2>5, <2>6 DEF LineInv, LineMoves
<1> QED BY <1>1, <1>2, <1>3, <1>4 DEF Coroutine

LEMMA RunOrSkipKeepsLine ==
  ASSUME IInv, LineInv, NEW S \in SUBSET Block, NEW new, RunOrSkip(S, new),
         \A p \in Proc : ~Open(p)
  PROVE  LineInv' /\ LineMoves
<1>1. CASE UNCHANGED runnerVars
  BY <1>1, NothingHappens DEF LineInv
<1>2. CASE main' = Waits("run", 1, S, S) /\ Batch(S)
  <2>1. main'.phase = "run" BY <1>2, WaitsEffect DEF IInv
  <2> QED BY <1>2, <2>1, BatchKeepsLine DEF IInv, LineInv
<1> QED BY <1>1, <1>2 DEF RunOrSkip

LEMMA ExploreStepKeepsLine ==
  ASSUME IInv, LineInv, ExploreStep PROVE LineInv' /\ LineMoves
<1> DEFINE s == main.step
           old == Load(s)
           missing == Props[s] \ Covered(old)
           single == {[step |-> s, props |-> {n}] : n \in missing}
<1>1. /\ main.phase = "steps" /\ s \in Step
      /\ \/ RunOrSkip(old, FALSE)
         \/ TryEngines(old, single)
         \/ RaceBlock
  BY DEF ExploreStep
<1>2. old \in SUBSET Block BY <1>1, LoadedBlocks
<1>3. single \in SUBSET Block BY <1>1 DEF Block, Name
<1>4. \A p \in Proc : ~Open(p) BY <1>1 DEF LineInv, Idle
<1> HIDE DEF old, single
<1>5. CASE RunOrSkip(old, FALSE) BY <1>2, <1>4, <1>5, RunOrSkipKeepsLine
<1>6. CASE TryEngines(old, single)
  <2>1. main'.phase = "build" BY <1>2, <1>3, <1>6, WaitsEffect DEF TryEngines, IInv
  <2> QED BY <1>3, <1>4, <1>6, <2>1, BatchKeepsLine DEF TryEngines, IInv, LineInv
<1>7. CASE RaceBlock
  BY <1>4, <1>7, NothingHappens DEF RaceBlock, NoBatch, LineInv
<1> QED BY <1>1, <1>5, <1>6, <1>7

LEMMA StoreStepKeepsLine ==
  ASSUME IInv, LineInv, StoreStep PROVE LineInv' /\ LineMoves
<1> DEFINE new == main.old \cup Found
<1>1. main.phase = "build" /\ AllOver /\ RunOrSkip(new, TRUE) BY DEF StoreStep
<1>2. new \in SUBSET Block
  <2>1. \A j \in JobId : job[j].stage # "none" => job[j].block \in Block
    BY NoJobTyped DEF IInv, JobsOK
  <2> QED BY <2>1, FieldsOfMain DEF Found, Answered, Jobs, IInv
<1> HIDE DEF new
<1> QED BY <1>1, <1>2, NothingWaits, RunOrSkipKeepsLine

LEMMA ProveAllKeepsLine ==
  ASSUME IInv, LineInv, ProveAll PROVE LineInv' /\ LineMoves
<1> DEFINE S == AllStored
<1>1. /\ main.phase = "steps"
      /\ \/ Leave("failed")
         \/ main' = Waits("run", 1, S, S) /\ Batch(S)
  BY DEF ProveAll
<1>2. S \in SUBSET Block BY StoredBlocks
<1>3. \A p \in Proc : ~Open(p) BY <1>1 DEF LineInv, Idle
<1> HIDE DEF S
<1>4. CASE Leave("failed") BY <1>4, LeaveKeepsLine
<1>5. CASE main' = Waits("run", 1, S, S) /\ Batch(S)
  <2>1. main'.phase = "run" BY <1>2, <1>5, WaitsEffect DEF IInv
  <2> QED BY <1>2, <1>3, <1>5, <2>1, BatchKeepsLine DEF IInv, LineInv
<1> QED BY <1>1, <1>4, <1>5

LEMMA ProveStepKeepsLine ==
  ASSUME IInv, LineInv, ProveStep PROVE LineInv' /\ LineMoves
<1> DEFINE S == Load(main.step)
<1>1. /\ main.phase = "steps" /\ main.step \in Step
      /\ \/ NoBatch
         \/ main' = Waits("run", 1, S, S) /\ Batch(S)
  BY DEF ProveStep
<1>2. S \in SUBSET Block BY <1>1, LoadedBlocks
<1>3. \A p \in Proc : ~Open(p) BY <1>1 DEF LineInv, Idle
<1> HIDE DEF S
<1>4. CASE NoBatch BY <1>3, <1>4, NothingHappens DEF NoBatch, LineInv
<1>5. CASE main' = Waits("run", 1, S, S) /\ Batch(S)
  <2>1. main'.phase = "run" BY <1>2, <1>5, WaitsEffect DEF IInv
  <2> QED BY <1>2, <1>3, <1>5, <2>1, BatchKeepsLine DEF IInv, LineInv
<1> QED BY <1>1, <1>4, <1>5

\* A command that is cancelled stays in the line until the next poll.
LEMMA CancelAllKeepsLine ==
  ASSUME IInv, LineInv, CancelAll PROVE LineInv' /\ LineMoves
<1>1. /\ main' = [main EXCEPT !.phase = "cancelled"] /\ UNCHANGED <<running, pending>>
      /\ Cancel({p \in Proc : future[p] = "waiting"})
  BY DEF CancelAll, Cancel
<1>2. \A p \in Proc : [process[p] EXCEPT !.flag = "kill"].os = process[p].os
  BY DEF IInv, RunnerOK, ProcessRecord
<1>3. \A p \in Proc : (Open(p) => Open(p)') /\ process'[p].os = process[p].os
  BY <1>1, <1>2 DEF Cancel, Open
<1>4. LineOK' BY <1>1, <1>3, LineStays DEF LineInv
<1>5. main'.phase = "cancelled" BY <1>1 DEF IInv, MainOK
<1>6. Idle' /\ WaitsForItsStage' BY <1>5 DEF Idle, WaitsForItsStage, Working
<1> QED BY <1>1, <1>4, <1>6 DEF LineInv, LineMoves

\* An orphan changes what the engines have read, not what runs.
LEMMA OrphansKeepLine ==
  ASSUME IInv, LineInv, NEW o \in orphans, OrphanGrows(o) \/ OrphanEnds(o)
  PROVE  LineInv' /\ LineMoves
<1>1. UNCHANGED <<running, pending, future, main, job>>
  BY DEF OrphanGrows, OrphanEnds
<1>2. \A p \in Proc : process'[p].os = process[p].os
  <2>1. CASE process' = process BY <2>1
  <2>2. CASE OrphanWrites(o)
    <3>1. PICK done : process' = [p \in Proc |->
            IF p \in done THEN [process[p] EXCEPT !.read = {files[o.file]}] ELSE process[p]]
      BY <2>2, Zenon DEF OrphanWrites
    <3>2. \A p \in Proc : [process[p] EXCEPT !.read = {files[o.file]}].os = process[p].os
      BY DEF IInv, RunnerOK, ProcessRecord
    <3> QED BY <3>1, <3>2
  <2> QED BY <2>1, <2>2 DEF OrphanGrows, OrphanEnds
<1>3. LineOK' BY <1>1, <1>2, LineStays DEF LineInv, Open
<1>4. LineInv' BY <1>1, <1>3, RunnerKeepsLine DEF Open
<1> QED BY <1>1, <1>4 DEF LineMoves

LEMMA MainKeepsLine ==
  ASSUME IInv, LineInv, Main PROVE LineInv' /\ LineMoves
<1>1. CASE ExploreRunDone \/ ProveStepDone
  <2>1. main.phase = "run" /\ AllOver /\ UNCHANGED runnerVars
    BY <1>1 DEF ExploreRunDone, ProveStepDone
  <2> QED BY <2>1, NothingWaits, NothingHappens DEF LineInv
<1>2. CASE ProveDone \/ Finish \/ Crash
  <2>1. \E exit : Leave(exit) BY <1>2, Zenon DEF ProveDone, Finish, Crash
  <2> QED BY <2>1, LeaveKeepsLine
<1> QED BY <1>1, <1>2, ExploreStepKeepsLine, StoreStepKeepsLine, ProveAllKeepsLine,
           ProveStepKeepsLine, CancelAllKeepsLine DEF Main

LEMMA LineInitially == Init => LineInv /\ Line!Init
<1> SUFFICES ASSUME Init PROVE LineInv /\ Line!Init
  OBVIOUS
<1>1. /\ pending = <<>> /\ running = <<>>
      /\ \A p \in Proc : process[p].os = "unborn" /\ future[p] = "unborn"
  BY FreshTyped DEF Init, RunnerInit
<1>2. InLine = <<>> BY <1>1 DEF InLine, Reverse
<1>3. ToSet(<<>>) = {} /\ IsInjective(<<>>) BY DEF ToSet, IsInjective
<1>4. UnderPoll BY <1>1, <1>3 DEF UnderPoll, Alive
<1>5. LineOK BY <1>1, <1>2, <1>3, <1>4 DEF LineOK
<1>6. Idle /\ WaitsForItsStage BY <1>1, ProcOf DEF Idle, WaitsForItsStage, Open
<1>7. Line!Init BY <1>1, <1>2 DEF Line!Init, InLine
<1> QED BY <1>5, <1>6, <1>7 DEF LineInv

LEMMA StepMovesLine == IInv /\ LineInv /\ [Next]_vars => LineInv' /\ LineMoves
<1> SUFFICES ASSUME IInv, LineInv, [Next]_vars PROVE LineInv' /\ LineMoves
  OBVIOUS
<1>1. ASSUME NEW o \in Launches, Launch(o) PROVE LineInv' /\ LineMoves
  <2>1. main.phase = "off" /\ UNCHANGED runnerVars BY <1>1 DEF Launch
  <2> QED BY <2>1, NothingHappens DEF LineInv, Idle
<1>2. CASE Main BY <1>2, MainKeepsLine
<1>3. CASE Killed9 BY <1>3, LeaveKeepsLine DEF Killed9
<1>4. CASE PollCallback
  <2>1. LineOK' /\ Line!Turn /\ \A p \in Proc : Open(p)' => Open(p)
    BY <1>4, PollKeepsLine DEF PollCallback, IInv, LineInv
  <2> QED BY <1>4, <2>1, RunnerKeepsLine DEF PollCallback, LineMoves
<1>5. ASSUME NEW j \in JobId, Coroutine(j) PROVE LineInv' /\ LineMoves
  BY <1>5, CoroutinesKeepLine
<1>6. ASSUME NEW p \in Proc, Ends(p) \/ Works(p) PROVE LineInv' /\ LineMoves
  BY <1>6, CommandsKeepLine
<1>7. CASE UNCHANGED vars
  <2>1. UNCHANGED <<running, pending, process, future, main, job>>
    BY <1>7 DEF vars, runnerVars
  <2>2. LineOK' BY <2>1, LineStays DEF LineInv, Open
  <2>3. LineInv' BY <2>1, <2>2, RunnerKeepsLine DEF Open
  <2> QED BY <2>1, <2>3 DEF LineMoves
<1>8. ASSUME NEW o \in orphans, OrphanGrows(o) \/ OrphanEnds(o) PROVE LineInv' /\ LineMoves
  BY <1>8, OrphansKeepLine
<1> QED BY <1>1, <1>2, <1>3, <1>4, <1>5, <1>6, <1>7, <1>8 DEF Next

\* The line holds every command that somebody waits for once, and what runs of
\* it are processes that live or have ended (conductor.py:173-280).
THEOREM LineHolds == Spec => []LineInv
BY Initially, LineInitially, StepKeepsInvariant, StepMovesLine, PTL DEF Spec

-----------------------------------------------------------------------------
(* What is left behind                                                     *)

\* Orphans are of the starts so far, and this one has none unless it has ended
\* by an exception or a kill.
LeftBehind ==
  /\ launched \in Nat /\ IsFiniteSet(orphans)
  /\ \A o \in orphans :
       /\ o.start \in Nat /\ o.start <= launched
       /\ o.start = launched => main.phase = "off" /\ main.exit = "crashed"

LEMMA NobodyLeft ==
  ASSUME LeftBehind, UNCHANGED <<orphans, launched>>, main' = main \/ main.phase # "off"
  PROVE  LeftBehind'
BY DEF LeftBehind

\* What runs at once is finite.
LEMMA FewAlive == ASSUME LineInv PROVE IsFiniteSet(Alive)
<1> DEFINE n == Len(running)
           at == [i \in 1..n |-> running[i]]
<1>1. n \in Nat /\ DOMAIN running = 1..n BY DEF LineInv, LineOK
<1>2. at \in Surjection(1..n, ToSet(running)) BY <1>1 DEF Surjection, ToSet
<1> HIDE DEF n, at
<1>3. IsFiniteSet(1..n) BY <1>1, FS_Interval
<1>4. IsFiniteSet(ToSet(running)) BY <1>2, <1>3, FS_Surjection
<1> QED BY <1>4, FS_Subset DEF LineInv, LineOK, UnderPoll

\* asyncio.run returns, with no command left or after a crash.
LEMMA LeaveLeavesBehind ==
  ASSUME IInv, LineInv, LeftBehind, NEW exit \in {"ok", "failed", "crashed"}, Leave(exit),
         main.phase # "off", launched' = launched, Alive = {} \/ exit = "crashed"
  PROVE  LeftBehind'
<1>1. main'.phase = "off" /\ main'.exit = exit BY LeaveEffect DEF IInv
<1>2. orphans' = orphans \cup {Orphan(p) : p \in Alive} BY DEF Leave
<1>3. \A p \in Alive : Orphan(p).start = launched BY DEF Orphan
<1>4. IsFiniteSet({Orphan(p) : p \in Alive})
  <2> DEFINE left == [p \in Alive |-> Orphan(p)]
             all == {Orphan(p) : p \in Alive}
  <2>1. left \in Surjection(Alive, all) BY DEF Surjection
  <2> HIDE DEF left, all
  <2>2. IsFiniteSet(all) BY <2>1, FewAlive, FS_Surjection
  <2> QED BY <2>2 DEF all
<1>5. IsFiniteSet(orphans') BY <1>2, <1>4, FS_Union DEF LeftBehind
<1> QED BY <1>1, <1>2, <1>3, <1>5 DEF LeftBehind

\* Where nobody waits nothing runs.
LEMMA NothingRuns ==
  ASSUME LineInv, \A p \in Proc : ~Open(p)
  PROVE  Alive = {}
<1>1. \A p \in ToSet(running) : p \in ToSet(InLine) /\ p \in Proc
  BY LineTyped DEF LineInv, LineOK
<1>2. ToSet(running) = {} BY <1>1 DEF LineInv, LineOK
<1> QED BY <1>2 DEF LineInv, LineOK, UnderPoll

LEMMA BatchLeavesNone == ASSUME NEW S, Batch(S) PROVE UNCHANGED orphans
BY Zenon DEF Batch, Shell

LEMMA MainLeavesBehind ==
  ASSUME IInv, LineInv, LeftBehind, Main PROVE LeftBehind'
<1>1. main.phase # "off" /\ launched' = launched
  BY DEF Main, ExploreStep, StoreStep, ExploreRunDone, ProveAll, ProveDone, ProveStep,
         ProveStepDone, Finish, CancelAll, Crash
<1>2. ASSUME NEW S, NEW new, RunOrSkip(S, new) PROVE UNCHANGED orphans
  BY <1>2, BatchLeavesNone DEF RunOrSkip, runnerVars
<1>3. CASE ExploreStep
  <2>1. PICK old, single : RunOrSkip(old, FALSE) \/ TryEngines(old, single) \/ RaceBlock
    BY <1>3, Zenon DEF ExploreStep
  <2>2. UNCHANGED orphans
    BY <1>2, <2>1, BatchLeavesNone DEF TryEngines, RaceBlock, NoBatch, runnerVars
  <2> QED BY <1>1, <2>2, NobodyLeft
<1>4. CASE StoreStep
  <2>1. UNCHANGED orphans BY <1>2, <1>4 DEF StoreStep
  <2> QED BY <1>1, <2>1, NobodyLeft
<1>5. CASE ExploreRunDone \/ ProveStep \/ ProveStepDone \/ CancelAll
  <2>1. UNCHANGED orphans
    BY <1>5, BatchLeavesNone
    DEF ExploreRunDone, ProveStep, ProveStepDone, CancelAll, Cancel, NoBatch, runnerVars
  <2> QED BY <1>1, <2>1, NobodyLeft
<1>6. CASE ProveAll \/ ProveDone \/ Finish
  <2>1. \A p \in Proc : ~Open(p)
    BY <1>6, NothingWaits DEF ProveAll, ProveDone, Finish, LineInv, Idle
  <2>2. Alive = {} BY <2>1, NothingRuns
  <2>3. \/ \E exit \in {"ok", "failed"} : Leave(exit)
        \/ Batch(AllStored)
    BY <1>6 DEF ProveAll, ProveDone, ProveVerdict, Finish
  <2>4. CASE Batch(AllStored) BY <1>1, <2>4, BatchLeavesNone, NobodyLeft
  <2>5. CASE \E exit \in {"ok", "failed"} : Leave(exit)
    BY <1>1, <2>2, <2>5, LeaveLeavesBehind
  <2> QED BY <2>3, <2>4, <2>5
<1>7. CASE Crash
  BY <1>1, <1>7, LeaveLeavesBehind DEF Crash
<1> QED BY <1>3, <1>4, <1>5, <1>6, <1>7 DEF Main

LEMMA StepLeavesBehind == IInv /\ LineInv /\ LeftBehind /\ [Next]_vars => LeftBehind'
<1> SUFFICES ASSUME IInv, LineInv, LeftBehind, [Next]_vars PROVE LeftBehind'
  OBVIOUS
<1>1. ASSUME NEW o \in Launches, Launch(o) PROVE LeftBehind'
  <2>1. launched' = launched + 1 /\ UNCHANGED orphans BY <1>1 DEF Launch, runnerVars
  <2> QED BY <2>1 DEF LeftBehind
<1>2. CASE Main BY <1>2, MainLeavesBehind
<1>3. CASE Killed9 BY <1>3, LeaveLeavesBehind DEF Killed9
<1>4. CASE PollCallback BY <1>4, NobodyLeft DEF PollCallback, Poll
<1>5. ASSUME NEW j \in JobId, Coroutine(j) PROVE LeftBehind'
  <2>1. UNCHANGED <<orphans, launched>> /\ main.phase # "off"
    BY <1>5 DEF Coroutine, RunEngine, RaceRaises, AssertRaises, EngineDone, Shell, runnerVars
  <2> QED BY <2>1, NobodyLeft
<1>6. ASSUME NEW p \in Proc, Ends(p) \/ Works(p) PROVE LeftBehind'
  <2>1. UNCHANGED <<orphans, launched, main>>
    BY <1>6 DEF Ends, CommandExits, Works, Exit, Grow, Expire
  <2> QED BY <2>1, NobodyLeft
<1>7. CASE UNCHANGED vars
  BY <1>7, NobodyLeft DEF vars, runnerVars
<1>8. ASSUME NEW o \in orphans, OrphanGrows(o) PROVE LeftBehind'
  <2>1. PICK m : orphans' = (orphans \ {o}) \cup {[o EXCEPT !.rss = m]}
    BY <1>8, Zenon DEF OrphanGrows
  <2>2. [o EXCEPT !.rss = m].start = o.start
    BY DEF IInv, RunnerOK, OrphanOK
  <2>3. IsFiniteSet(orphans') BY <2>1, FS_RemoveElement, FS_AddElement DEF LeftBehind
  <2> QED BY <1>8, <2>1, <2>2, <2>3 DEF OrphanGrows, LeftBehind
<1>9. ASSUME NEW o \in orphans, OrphanEnds(o) PROVE LeftBehind'
  BY <1>9, FS_RemoveElement DEF OrphanEnds, LeftBehind
<1> QED BY <1>1, <1>2, <1>3, <1>4, <1>5, <1>6, <1>7, <1>8, <1>9 DEF Next

\* What earlier starts have left is known, and finite.
THEOREM LeftBehindHolds == Spec => []LeftBehind
<1>1. Init => LeftBehind BY FS_EmptySet DEF Init, RunnerInit, LeftBehind
<1> QED BY <1>1, InvariantHolds, LineHolds, StepLeavesBehind, PTL DEF Spec

\* On every machine and through all evictions, restarts, timeouts and
\* cancellations no command of a start runs unpolled while it lasts, and only a
\* start that an exception or a kill has ended leaves commands running.
THEOREM NothingStrays == Spec => []NoStray
<1>1. LineInv /\ LeftBehind => NoStray
  BY DEF LineInv, LineOK, UnderPoll, LeftBehind, NoStray
<1> QED BY <1>1, LineHolds, LeftBehindHolds, PTL

-----------------------------------------------------------------------------
(* Sums over sets                                                          *)

\* A set of naturals that is not empty has a least element.
LEMMA LeastElement ==
  ASSUME NEW T \in SUBSET Nat, T # {}
  PROVE  \E x \in T : \A y \in T : x <= y
<1> DEFINE R == OpToRel(<, Nat)
<1>1. IsWellFoundedOn(R, Nat)
  BY NatLessThanWellFounded
<1>2. \A x, y \in Nat : y < x => <<y, x>> \in R
  BY DEF OpToRel
<1> HIDE DEF R
<1>3. PICK x \in T : \A y \in T : ~ (<<y, x>> \in R)
  BY <1>1, WFMin
<1>4. \A y \in T : ~ (y < x)
  BY <1>2, <1>3
<1>5. x \in Nat /\ \A y \in T : y \in Nat
  OBVIOUS
<1>6. \A y \in T : x <= y
  BY <1>4, <1>5
<1> QED BY <1>6

\* A set of naturals with zero and, with a number, the next is all of them.
LEMMA Induction ==
  ASSUME NEW T \in SUBSET Nat, 0 \in T, \A n \in T : n + 1 \in T
  PROVE  T = Nat
<1> SUFFICES ASSUME Nat \ T # {} PROVE FALSE
  OBVIOUS
<1>1. PICK x \in Nat \ T : \A y \in Nat \ T : x <= y
  BY LeastElement
<1>2. x # 0 /\ x - 1 \in Nat
  BY <1>1
<1>3. x - 1 \in T
  BY <1>1, <1>2
<1> QED BY <1>1, <1>2, <1>3

First(s) == CHOOSE x \in s : TRUE

\* One call of a sum that takes the elements one by one.
SumStep(f, s) == IF s = {} THEN 0 ELSE First(s).rss + f[s \ {First(s)}]

Small(S, k) == {s \in SUBSET S : Cardinality(s) <= k}

LEMMA OneLess ==
  ASSUME NEW S, IsFiniteSet(S), NEW k \in Nat, NEW s \in Small(S, k + 1), s # {}
  PROVE  First(s) \in S /\ s \ {First(s)} \in Small(S, k)
<1>1. First(s) \in s BY DEF First
<1>2. IsFiniteSet(s) /\ Cardinality(s) \in Nat /\ Cardinality(s) <= k + 1
  BY FS_Subset, FS_CardinalityType DEF Small
<1>3. Cardinality(s \ {First(s)}) = Cardinality(s) - 1 BY <1>1, <1>2, FS_RemoveElement
<1> QED BY <1>1, <1>2, <1>3 DEF Small

LEMMA NoneLess ==
  ASSUME NEW S, IsFiniteSet(S), NEW s \in Small(S, 0) PROVE s = {}
BY FS_Subset, FS_CardinalityType, FS_EmptySet DEF Small

\* Such a sum exists.
LEMMA SumExists ==
  ASSUME NEW S, IsFiniteSet(S), \A x \in S : x.rss \in Nat
  PROVE  \E f \in [SUBSET S -> Nat] : \A s \in SUBSET S : f[s] = SumStep(f, s)
<1> DEFINE Some(k) == \E f \in [Small(S, k) -> Nat] : \A s \in Small(S, k) : f[s] = SumStep(f, s)
           T == {k \in Nat : Some(k)}
<1>1. Some(0)
  <2> DEFINE f == [s \in Small(S, 0) |-> 0]
  <2>1. f \in [Small(S, 0) -> Nat] OBVIOUS
  <2>2. \A s \in Small(S, 0) : f[s] = 0 /\ s = {} BY NoneLess
  <2> HIDE DEF f
  <2> QED BY <2>1, <2>2 DEF SumStep
<1>2. ASSUME NEW k \in Nat, Some(k) PROVE Some(k + 1)
  <2>1. PICK g \in [Small(S, k) -> Nat] : \A s \in Small(S, k) : g[s] = SumStep(g, s)
    BY <1>2
  <2> DEFINE f == [s \in Small(S, k + 1) |-> SumStep(g, s)]
  <2>2. ASSUME NEW s \in Small(S, k + 1) PROVE SumStep(g, s) \in Nat
    <3>1. CASE s = {} BY <3>1 DEF SumStep
    <3>2. CASE s # {}
      <4>1. First(s) \in S /\ s \ {First(s)} \in Small(S, k) BY <3>2, OneLess
      <4> QED BY <3>2, <4>1 DEF SumStep
    <3> QED BY <3>1, <3>2
  <2>3. f \in [Small(S, k + 1) -> Nat] BY <2>2
  <2>4. \A s \in Small(S, k + 1) : f[s] = SumStep(g, s) OBVIOUS
  <2> HIDE DEF f
  <2>5. \A s \in Small(S, k) : s \in Small(S, k + 1)
    BY FS_Subset, FS_CardinalityType DEF Small
  <2>6. ASSUME NEW s \in Small(S, k + 1) PROVE f[s] = SumStep(f, s)
    <3>1. CASE s = {} BY <2>4, <3>1 DEF SumStep
    <3>2. CASE s # {}
      <4>1. s \ {First(s)} \in Small(S, k) BY <3>2, OneLess
      <4>2. f[s \ {First(s)}] = g[s \ {First(s)}] BY <2>1, <2>4, <2>5, <4>1
      <4> QED BY <2>4, <4>2 DEF SumStep
    <3> QED BY <3>1, <3>2
  <2> QED BY <2>3, <2>6
<1> DEFINE n == Cardinality(S)
<1>3. n \in Nat /\ Small(S, n) = SUBSET S BY FS_Subset, FS_CardinalityType DEF Small
<1> HIDE DEF Some, n
<1>4. T = Nat
  <2>1. T \in SUBSET Nat /\ 0 \in T /\ \A k \in T : k + 1 \in T BY <1>1, <1>2
  <2> HIDE DEF T
  <2> QED BY <2>1, Induction
<1>5. Some(n) BY <1>3, <1>4
<1> QED BY <1>3, <1>5 DEF Some

LEMMA SumIsNat ==
  ASSUME NEW S, IsFiniteSet(S), \A x \in S : x.rss \in Nat
  PROVE  MapThenSumSet(LAMBDA o : o.rss, S) \in Nat
<1> DEFINE Body(f) == [s \in SUBSET S |->
             IF s = {} THEN 0
             ELSE (CHOOSE x \in s : TRUE).rss + f[s \ {CHOOSE x \in s : TRUE}]]
           C == CHOOSE f : f = Body(f)
<1>1. PICK g \in [SUBSET S -> Nat] : \A s \in SUBSET S : g[s] = SumStep(g, s)
  BY SumExists
<1>2. g = Body(g)
  <2>1. \A s \in SUBSET S : g[s] = Body(g)[s] BY <1>1, Zenon DEF SumStep, First
  <2> QED BY <2>1
<1>3. C = Body(C) BY <1>2
<1>4. MapThenSumSet(LAMBDA o : o.rss, S) = C[S]
  BY Zenon DEF MapThenSumSet, MapThenFoldSet
<1> HIDE DEF C
<1>5. \A s \in SUBSET S : C[s] = SumStep(C, s) BY <1>3, Zenon DEF SumStep, First
<1> DEFINE T == {k \in Nat : \A s \in Small(S, k) : C[s] \in Nat}
<1>6. 0 \in T
  <2>1. \A s \in Small(S, 0) : C[s] = 0 BY <1>5, NoneLess DEF SumStep, Small
  <2> QED BY <2>1
<1>7. ASSUME NEW k \in T PROVE k + 1 \in T
  <2>1. k \in Nat /\ \A s \in Small(S, k) : C[s] \in Nat BY <1>7
  <2>2. ASSUME NEW s \in Small(S, k + 1) PROVE C[s] \in Nat
    <3>1. C[s] = SumStep(C, s) BY <1>5 DEF Small
    <3>2. CASE s = {} BY <3>1, <3>2 DEF SumStep
    <3>3. CASE s # {}
      <4>1. First(s) \in S /\ s \ {First(s)} \in Small(S, k) BY <2>1, <3>3, OneLess
      <4>2. First(s).rss \in Nat /\ C[s \ {First(s)}] \in Nat BY <2>1, <4>1
      <4> QED BY <3>1, <3>3, <4>2 DEF SumStep
    <3> QED BY <3>2, <3>3
  <2> QED BY <2>1, <2>2
<1>8. S \in Small(S, Cardinality(S)) /\ Cardinality(S) \in Nat
  BY FS_CardinalityType DEF Small
<1>9. T = Nat
  <2>1. T \in SUBSET Nat OBVIOUS
  <2> HIDE DEF T
  <2> QED BY <1>6, <1>7, <2>1, Induction
<1> QED BY <1>4, <1>8, <1>9
-----------------------------------------------------------------------------
(* A start that is held up                                                 *)

\* The sums that poll forms over nothing.
LEMMA NoneUse ==
  ASSUME Alive = {} PROVE MapThenSumSet(LAMBDA p : process[p].rss, Alive) = 0
<1> DEFINE Body(f) == [s \in SUBSET Alive |->
             IF s = {} THEN 0
             ELSE process[CHOOSE x \in s : TRUE].rss + f[s \ {CHOOSE x \in s : TRUE}]]
           C == CHOOSE f : f = Body(f)
           g == [s \in SUBSET Alive |-> 0]
<1>1. g = Body(g) OBVIOUS
<1>2. C = Body(C) BY <1>1
<1>3. MapThenSumSet(LAMBDA p : process[p].rss, Alive) = C[Alive]
  BY Zenon DEF MapThenSumSet, MapThenFoldSet
<1> HIDE DEF C
<1>4. C[Alive] = 0 BY <1>2
<1> QED BY <1>3, <1>4

LEMMA NoneEvicted ==
  MapThenSumSet(LAMBDA i : Larger(process[LastRunning(i)].used, MinShare), 1..0) = 0
<1> DEFINE S == 1..0
           Body(f) == [s \in SUBSET S |->
             IF s = {} THEN 0
             ELSE Larger(process[LastRunning(CHOOSE x \in s : TRUE)].used, MinShare)
                    + f[s \ {CHOOSE x \in s : TRUE}]]
           C == CHOOSE f : f = Body(f)
           g == [s \in SUBSET S |-> 0]
<1>0. S = {} OBVIOUS
<1>1. g = Body(g) BY <1>0
<1>2. C = Body(C) BY <1>1
<1>3. MapThenSumSet(LAMBDA i : Larger(process[LastRunning(i)].used, MinShare), 1..0) = C[S]
  BY Zenon DEF MapThenSumSet, MapThenFoldSet
<1> HIDE DEF C, S
<1>4. C[S] = 0 BY <1>0, <1>2
<1> QED BY <1>3, <1>4

LEMMA NoneStarted ==
  MapThenSumSet(LAMBDA i : Larger(HintOf(0, NextUp(0, i)), MinShare), 1..0) = 0
<1> DEFINE S == 1..0
           Body(f) == [s \in SUBSET S |->
             IF s = {} THEN 0
             ELSE Larger(HintOf(0, NextUp(0, CHOOSE x \in s : TRUE)), MinShare)
                    + f[s \ {CHOOSE x \in s : TRUE}]]
           C == CHOOSE f : f = Body(f)
           g == [s \in SUBSET S |-> 0]
<1>0. S = {} OBVIOUS
<1>1. g = Body(g) BY <1>0
<1>2. C = Body(C) BY <1>1
<1>3. MapThenSumSet(LAMBDA i : Larger(HintOf(0, NextUp(0, i)), MinShare), 1..0) = C[S]
  BY Zenon DEF MapThenSumSet, MapThenFoldSet
<1> HIDE DEF C, S
<1>4. C[S] = 0 BY <1>0, <1>2
<1> QED BY <1>3, <1>4

LEMMA NoneUsed ==
  ASSUME ToSet(running) = {}
  PROVE  MapThenSumSet(LAMBDA p : process[p].used, ToSet(running)) = 0
<1> DEFINE S == ToSet(running)
           Body(f) == [s \in SUBSET S |->
             IF s = {} THEN 0
             ELSE process[CHOOSE x \in s : TRUE].used + f[s \ {CHOOSE x \in s : TRUE}]]
           C == CHOOSE f : f = Body(f)
           g == [s \in SUBSET S |-> 0]
<1>1. g = Body(g) OBVIOUS
<1>2. C = Body(C) BY <1>1
<1>3. MapThenSumSet(LAMBDA p : process[p].used, ToSet(running)) = C[S]
  BY Zenon DEF MapThenSumSet, MapThenFoldSet
<1> HIDE DEF C, S
<1>4. S = {} BY DEF S
<1>5. C[S] = 0 BY <1>2, <1>4
<1> QED BY <1>3, <1>5

\* Nothing of this start uses memory when none of its commands runs; what
\* orphans use only makes less of it available.
LEMMA FreeWhenIdle ==
  ASSUME RunnerOK, LineInv, LeftBehind, running = <<>>
  PROVE  FreeWith(0, 0) \in Int /\ FreeWith(0, 0) <= IdleMem
<1>1. ToSet(running) = {} /\ Alive = {}
  <2>1. ToSet(running) = {} BY DEF ToSet
  <2> QED BY <2>1 DEF LineInv, LineOK, UnderPoll
<1> DEFINE a == MapThenSumSet(LAMBDA p : process[p].rss, Alive)
           o == MapThenSumSet(LAMBDA x : x.rss, orphans)
           u == MapThenSumSet(LAMBDA p : process[p].used, ToSet(running))
           free == Larger(TotalMem - (a + o), 0)
<1>2. a = 0 /\ u = 0 BY <1>1, NoneUse, NoneUsed
<1>3. o \in Nat
  <2>1. \A x \in orphans : x.rss \in Nat BY DEF RunnerOK, OrphanOK
  <2> QED BY <2>1, SumIsNat DEF LeftBehind
<1>4. Available = IF MaxMem = 0 THEN free ELSE Smaller(free, Larger(MaxMem - u, 0))
  BY Zenon DEF Available
<1> HIDE DEF a, o, u
<1>5. TotalMem \in Nat /\ MaxMem \in Nat BY RunnerAssumption
<1>6. Available \in Int /\ Available <= IdleMem
  BY <1>2, <1>3, <1>4, <1>5 DEF Larger, Smaller, IdleMem
<1> DEFINE e == MapThenSumSet(LAMBDA i : Larger(process[LastRunning(i)].used, MinShare), 1..0)
           n == MapThenSumSet(LAMBDA i : Larger(HintOf(0, NextUp(0, i)), MinShare), 1..0)
<1>7. FreeWith(0, 0) = (Available + e) - n BY Zenon DEF FreeWith, FreeWithout
<1>8. e = 0 /\ n = 0 BY NoneEvicted, NoneStarted
<1> HIDE DEF e, n
<1> QED BY <1>6, <1>7, <1>8

\* What holds the others up is waited for, in a batch.
LEMMA HeldUpWaits ==
  ASSUME LineInv, HeldUp
  PROVE  /\ Alive = {} /\ Last(pending) \in Proc /\ Open(Last(pending))
         /\ main.phase \notin {"off", "steps"}
<1>1. ToSet(running) = {} BY DEF HeldUp, ToSet
<1>2. Last(pending) \in ToSet(pending) BY DEF HeldUp, LineInv, LineOK, Last, ToSet
<1>3. Last(pending) \in ToSet(InLine) /\ Last(pending) \in Proc
  BY <1>2, LineTyped DEF LineInv, LineOK
<1> QED BY <1>1, <1>3 DEF LineInv, LineOK, UnderPoll, Idle

LEMMA HeldUpStays ==
  ASSUME HeldUp, running' = running, pending' # <<>>, Last(pending') = Last(pending),
         process'[Last(pending)].hint = process[Last(pending)].hint
  PROVE  HeldUp'
BY DEF HeldUp, IdleMem

LEMMA WithoutNone == \A over : Line!Without(<<>>, over) = <<>>
<1> SUFFICES ASSUME NEW over PROVE Line!Without(<<>>, over) = <<>>
  OBVIOUS
<1> DEFINE none == <<>>
           w == Line!Without(none, over)
<1>1. none \in Seq(Proc) /\ ToSet(none) = {} BY DEF ToSet
<1>2. w \in Seq(Proc) /\ ToSet(w) = {}
  <2> HIDE DEF none
  <2>1. ToSet(w) = ToSet(none) \ over /\ w \in Seq(Proc) BY <1>1, Zenon, WithoutHas
  <2> QED BY <1>1, <2>1
<1> HIDE DEF w
<1>3. w = <<>>
  <2>1. DOMAIN w = 1..Len(w) /\ Len(w) \in Nat BY <1>2
  <2>2. ASSUME Len(w) # 0 PROVE FALSE
    <3>1. 1 \in DOMAIN w BY <2>1, <2>2
    <3>2. w[1] \in ToSet(w) BY <3>1 DEF ToSet
    <3> QED BY <1>2, <3>2
  <2> QED BY <1>2, <2>2
<1> QED BY <1>3 DEF w

\* poll starts nothing.
LEMMA PollStaysHeldUp ==
  ASSUME IInv, LineInv, LeftBehind, HeldUp, Poll PROVE HeldUp'
<1>1. PICK k \in 0..Len(running), m \in 0..Len(running) + Len(pending) :
        /\ \A i \in 0..m - 1 : Fits(k, i)
        /\ LET runs == RunsWith(k, m)
               evicted == {LastRunning(i) : i \in 1..k}
               started == {NextUp(k, i) : i \in 1..m}
               now(p) == LET r == IF p \in evicted THEN Evicted(process[p]) ELSE process[p]
                         IN  IF p \in started THEN Started(r) ELSE r
               ended(p) == p \in ToSet(runs) /\ Outcome(now(p)) # "none"
           IN  /\ pending' = SubSeq(QueueWith(k), 1, Len(QueueWith(k)) - m)
               /\ running' = Line!Without(runs, {p \in Proc : ended(p)})
               /\ process' = [p \in Proc |->
                    IF ended(p) THEN [Fresh(p) EXCEPT !.os = Polled(now(p)).os]
                    ELSE IF p \in ToSet(runs) THEN Polled(now(p)) ELSE now(p)]
  BY Zenon DEF Poll
<1>2. running = <<>> /\ k = 0 /\ Len(running) = 0 BY DEF HeldUp
<1>3. pending \in Seq(Proc) /\ Len(pending) \in Nat \ {0} BY DEF HeldUp, LineInv, LineOK
<1>4. QueueWith(0) = pending
  <2> DEFINE back == Reverse(SubSeq(running, Len(running) + 1 - 0, Len(running)))
  <2>1. SubSeq(running, Len(running) + 1 - 0, Len(running)) = <<>> BY <1>2
  <2>2. Reverse(<<>>) = <<>> BY DEF Reverse
  <2>3. back = <<>> BY <2>1, <2>2
  <2>4. QueueWith(0) = pending \o back BY Zenon DEF QueueWith
  <2> HIDE DEF back
  <2>5. pending \o <<>> = pending BY <1>3
  <2> QED BY <2>3, <2>4, <2>5
<1>5. ~Fits(0, 0)
  <2>1. CASE MaxRunning < 1 BY <1>2, <2>1, RunnerAssumption DEF Fits
  <2>2. CASE process[Last(pending)].hint + Buffer >= IdleMem
    <3> DEFINE h == process[Last(pending)].hint
    <3>1. NextUp(0, 1) = Last(pending) BY <1>3, <1>4 DEF NextUp, Last
    <3>2. HintOf(0, NextUp(0, 1)) = h BY <3>1 DEF HintOf
    <3>3. h \in Nat BY HeldUpWaits DEF IInv, RunnerOK, ProcessRecord
    <3>4. Buffer \in Nat /\ IdleMem \in Nat BY RunnerAssumption DEF IdleMem, Smaller
    <3>5. FreeWith(0, 0) \in Int /\ FreeWith(0, 0) <= IdleMem
      BY <1>2, FreeWhenIdle DEF IInv
    <3>6. h + Buffer >= IdleMem BY <2>2
    <3> HIDE DEF h
    <3>7. ~(FreeWith(0, 0) > h + Buffer) BY <3>3, <3>4, <3>5, <3>6
    <3>8. 0 + 1 = 1 OBVIOUS
    <3> QED BY <3>2, <3>7, <3>8 DEF Fits
  <2> QED BY <2>1, <2>2 DEF HeldUp
<1>6. m = 0
  <2>1. \A i \in 0..m - 1 : Fits(0, i) BY <1>1, <1>2
  <2>2. m \in Nat BY <1>2, <1>3
  <2> QED BY <1>5, <2>1, <2>2
<1>7. RunsWith(0, 0) = <<>>
  <2> DEFINE stay == SubSeq(running, 1, Len(running) - 0)
             up == SubSeq(QueueWith(0), Len(QueueWith(0)) + 1 - 0, Len(QueueWith(0)))
             back == Reverse(up)
  <2>1. stay = <<>> BY <1>2
  <2>2. up = <<>>
    <3>1. SubSeq(pending, Len(pending) + 1 - 0, Len(pending)) = <<>> BY <1>3
    <3> QED BY <1>4, <3>1
  <2>3. Reverse(<<>>) = <<>> BY DEF Reverse
  <2>4. RunsWith(0, 0) = stay \o back BY Zenon DEF RunsWith
  <2> HIDE DEF stay, up
  <2>5. back = <<>> BY <2>2, <2>3
  <2> HIDE DEF back
  <2>6. <<>> \o <<>> = <<>> OBVIOUS
  <2> QED BY <2>1, <2>4, <2>5, <2>6
<1>8. pending' = pending
  <2>1. SubSeq(pending, 1, Len(pending) - 0) = pending BY <1>3
  <2> QED BY <1>1, <1>2, <1>4, <1>6, <2>1
<1>9. running' = running /\ \A p \in Proc : process'[p] = process[p]
  <2>1. ToSet(<<>>) = {} BY DEF ToSet
  <2>2. 1..0 = {} OBVIOUS
  <2>3. \A over : Line!Without(<<>>, over) = <<>> BY WithoutNone
  <2>4. running' = <<>> BY <1>1, <1>2, <1>6, <1>7, <2>3
  <2>5. \A p \in Proc : process'[p] = process[p]
    BY <1>1, <1>2, <1>6, <1>7, <2>1, <2>2
  <2> QED BY <1>2, <2>4, <2>5
<1> QED BY <1>3, <1>8, <1>9, HeldUpStays, HeldUpWaits

LEMMA StepStaysHeldUp ==
  IInv /\ LineInv /\ LeftBehind /\ [Next]_vars => (HeldUp => HeldUp' \/ main'.phase = "off")
<1> SUFFICES ASSUME IInv, LineInv, LeftBehind, [Next]_vars, HeldUp
             PROVE  HeldUp' \/ main'.phase = "off"
  OBVIOUS
<1> DEFINE first == Last(pending)
<1>1. /\ Alive = {} /\ first \in Proc /\ Open(first)
      /\ main.phase \notin {"off", "steps"}
  BY HeldUpWaits
<1>2. pending # <<>> /\ pending \in Seq(Proc) BY DEF HeldUp, LineInv, LineOK
<1>3. ASSUME UNCHANGED <<running, pending>>, process'[first].hint = process[first].hint
      PROVE  HeldUp'
  BY <1>2, <1>3, HeldUpStays
<1>4. ASSUME main.phase \in {"build", "run"}, AllOver PROVE FALSE
  BY <1>1, <1>4, NothingWaits
<1>5. CASE Main
  <2>1. CASE CancelAll
    <3>1. /\ UNCHANGED <<running, pending>>
          /\ process'[first] \in {process[first], [process[first] EXCEPT !.flag = "kill"]}
      BY <1>1, <2>1 DEF CancelAll, Cancel
    <3>2. [process[first] EXCEPT !.flag = "kill"].hint = process[first].hint
      BY <1>1 DEF IInv, RunnerOK, ProcessRecord
    <3> QED BY <1>3, <3>1, <3>2
  <2>2. CASE Crash BY <2>2, LeaveEffect DEF Crash, IInv
  <2> QED BY <1>1, <1>4, <1>5, <2>1, <2>2
    DEF Main, ExploreStep, StoreStep, ExploreRunDone, ProveAll, ProveDone, ProveStep,
        ProveStepDone, Finish
<1>6. CASE Killed9 BY <1>6, LeaveEffect DEF Killed9, IInv
<1>7. CASE PollCallback BY <1>7, PollStaysHeldUp DEF PollCallback
<1>8. ASSUME NEW i \in JobId, Coroutine(i) PROVE HeldUp'
  <2>1. CASE AssertRaises(i) \/ EngineDone(i)
    BY <1>3, <2>1 DEF AssertRaises, EngineDone, runnerVars
  <2>2. CASE RunEngine(i) \/ RaceRaises(i)
    <3> DEFINE e == <<i, EngineKind>>
               ps == << e >>
    <3>1. /\ main.phase \in {"build", "run"} /\ job[i].stage = "prep" /\ Shell(ps)
      BY <2>2 DEF RunEngine, RaceRaises
    <3>2. EngineKind \in Kinds /\ EngineKind # "prep" BY DEF EngineKind, Kinds
    <3>3. e \in Proc /\ ~Open(e)
      BY <3>1, <3>2, ProcOf DEF LineInv, WaitsForItsStage, Working
    <3> HIDE DEF e
    <3>4. ps \in Seq(Proc) /\ ToSet(ps) = {e} /\ Reverse(ps) = ps
      BY <3>3 DEF ToSet, Reverse
    <3>5. pending' = ps \o pending /\ running' = running /\ process'[first] = process[first]
      BY <1>1, <3>1, <3>3, <3>4 DEF Shell, Queued
    <3>6. pending' # <<>> /\ Last(pending') = Last(pending)
      BY <1>2, <3>4, <3>5 DEF Last
    <3> QED BY <3>5, <3>6, HeldUpStays
  <2> QED BY <1>8, <2>1, <2>2 DEF Coroutine
<1>9. ASSUME NEW p \in Proc, Ends(p) \/ Works(p) PROVE FALSE
  BY <1>1, <1>9 DEF Ends, CommandExits, Works, Exit, Grow, Expire, Alive
<1>10. ASSUME NEW o \in orphans, OrphanGrows(o) \/ OrphanEnds(o) PROVE HeldUp'
  <2>1. UNCHANGED <<running, pending>> BY <1>10 DEF OrphanGrows, OrphanEnds
  <2>2. process'[first].hint = process[first].hint
    <3>1. CASE process' = process BY <3>1
    <3>2. CASE OrphanWrites(o)
      <4>1. \/ process'[first] = process[first]
            \/ process'[first] = [process[first] EXCEPT !.read = {files[o.file]}]
        BY <1>1, <3>2 DEF OrphanWrites
      <4> QED BY <1>1, <4>1 DEF IInv, RunnerOK, ProcessRecord
    <3> QED BY <1>10, <3>1, <3>2 DEF OrphanGrows, OrphanEnds
  <2> QED BY <1>3, <2>1, <2>2
<1>11. CASE UNCHANGED vars
  BY <1>3, <1>11 DEF vars, runnerVars
<1>12. ASSUME NEW o \in Launches, Launch(o) PROVE FALSE BY <1>1, <1>12 DEF Launch
<1> QED BY <1>5, <1>6, <1>7, <1>8, <1>9, <1>10, <1>11, <1>12 DEF Next

\* On every machine a start that is held up stays so until it is ended from
\* outside or by an exception: no other command is started in the place of the
\* one that does not fit (conductor.py:235-236, 259).
THEOREM HeldUpForGood == Spec => StaysHeldUp
BY InvariantHolds, LineHolds, LeftBehindHolds, StepStaysHeldUp, PTL DEF Spec, StaysHeldUp

\* No two coroutines of a start share a file in the build directory
\* (conductor.py:290-304); an orphan of an earlier start may have a file of the
\* same name.
THEOREM FilesApart == Spec => []OwnFile
<1>1. IInv => OwnFile BY DEF IInv, JobsOK, OwnFile, Jobs
<1> QED BY <1>1, InvariantHolds, PTL

\* The variables of the conductor and its runner have their types.
THEOREM TypesHold == Spec => []TypeOK
<1>1. IInv /\ LineInv => TypeOK
  <2> SUFFICES ASSUME IInv, LineInv PROVE TypeOK
    OBVIOUS
  <2>1. pending \in Seq(Proc) /\ running \in Seq(Proc) BY DEF LineInv, LineOK
  <2>2. process \in [Proc -> ProcessRecord] /\ future \in [Proc -> Fate] BY DEF IInv, RunnerOK
  <2>3. /\ main.phase \in {"off", "steps", "build", "run", "raised", "cancelled"}
        /\ main.exit \in {"none", "ok", "failed", "crashed"}
    BY FieldsOfMain DEF IInv
  <2>4. \A j \in Jobs : job[j].block \in Block /\ job[j].file \in File
    BY NoJobTyped DEF IInv, JobsOK, Jobs
  <2>5. disk \in [Step -> [state : {"absent", "torn", "written"}, blocks : SUBSET Block]]
    BY DEF IInv, StoreOK
  <2> QED BY <2>1, <2>2, <2>3, <2>4, <2>5 DEF TypeOK, ProcessRecord, Status, Fate
<1> QED BY <1>1, InvariantHolds, LineHolds, PTL

\* The runner implements one line in order of arrival: memory moves its front,
\* nobody is overtaken, and nobody leaves it who does not run
\* (conductor.py:235-236, 249-280).
THEOREM OrderKept == Spec => InOrderOfArrival
<1>1. LineMoves => [Line!Next]_<<running \o Reverse(pending), Len(running)>>
  BY DEF LineMoves, Line!Next
<1>2. Init => Line!Init BY LineInitially
<1>3. IInv /\ LineInv /\ [Next]_vars => [Line!Next]_<<running \o Reverse(pending), Len(running)>>
  BY <1>1, StepMovesLine
<1> QED BY <1>2, <1>3, InvariantHolds, LineHolds, PTL DEF Spec, InOrderOfArrival, Line!Spec
=============================================================================
