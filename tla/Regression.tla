----------------------------- MODULE Regression -----------------------------
(***************************************************************************)
(* The verification regression of dv/uvm/core_ibex: make runs the Python   *)
(* scripts that create the metadata, build the generator and the           *)
(* testbench, and take each test through generation, compilation,          *)
(* simulation and log checking, and collects the results.                  *)
(*                                                                         *)
(* Tests run side by side; each keeps its state in a pickle of its own,    *)
(* everything else is in the locked metadata.pickle, which the scripts of  *)
(* the tests read without a lock.  make and the tools it starts are        *)
(* modelled from how the scripts use them.                                 *)
(*                                                                         *)
(* A script of a test is two steps, its beginning and its end.  Nobody else *)
(* reads its files while it runs, so what it does in between, such as the  *)
(* export of the record that empties the pickle and then fills it, shows   *)
(* only if it is killed there: Kill has every state it can be cut off in.  *)
(***************************************************************************)
EXTENDS LockedMetadata, SimulationLog, FiniteSets

CONSTANTS
  Test,       \* the TEST.SEED pairs
  Directed,   \* the directed tests among them
  MaxMakes,   \* bound on the times make is started
  MaxEdits    \* bound on the edits of the RTL between them

ASSUME RegressionAssumption ==
  /\ Script = {"core", "ig", "tb", "fcov", "cov", "regr"}
  /\ Directed \subseteq Test
  /\ MaxMakes \in Nat /\ MaxEdits \in Nat

TestTarget == {"asm", "bin", "log", "yaml"} \X Test
Of(s) == <<s>>
Target == {Of(s) : s \in Script} \cup (TestTarget \ ({"asm"} \X Directed))

VARIABLES
  make,    \* whether make runs, and how it ended; whether with COV=1
  st,      \* what make has done about each target
  old,     \* targets that are missing or older than a prerequisite
  trr,     \* the pickles of the tests: verdict and failure mode, if they can be loaded
  log,     \* rtl_sim.log and the trace: how the simulation ended
  asm,     \* test.S is there
  report,  \* what collect_results has written for each test
  hist     \* history: runs of run_rtl (two stand for more), log judged or not,
           \* an export of the record that was cut short

vars == <<lockVars, make, st, old, trr, log, asm, report, hist>>
testVars == <<trr, log, asm, report, hist>>

\* How a simulation can end, by the log it leaves; "bare" is a test that fails
\* without reporting an error, "cut" a simulator that was killed.
Ends == {"pass", "fail", "timeout", "badtrace", "bare", "cut"}

LogLines(end) ==
  CASE end \in {"pass", "badtrace"} -> <<"text", "passed">>
    [] end = "fail" -> <<"error", "failed">>
    [] end = "timeout" -> <<"wallclock", "failed">>
    [] end = "bare" -> <<"failed">>
    [] end \in {"cut", "none"} -> <<"text">>

TraceLines(end) ==
  IF end \in {"badtrace", "none"} THEN <<"text">> ELSE <<"instr", "ecall">>

UvmVerdict == [end \in Ends \cup {"none"} |-> CheckUvmLog(LogLines(end))]
HasTrace == {end \in Ends \cup {"none"} : TraceUsable(TraceLines(end))}

Record(state) == [state |-> state, passed |-> "none", mode |-> "none"]
NoRecord == Record("absent")
NewRecord == Record("whole")
TornRecord == Record("torn")     \* emptied and not written

Loadable(t) == trr[t].state = "whole"

\* The rules of wrapper.mk, riscvdv.mk and ibex_sim.mk.
Needs(x) ==
  CASE x[1] \in {"core", "tb"} -> {}
    [] x[1] = "ig" -> {Of("core")}
    [] x[1] = "fcov" -> {<<"yaml", t>> : t \in Test}
    [] x[1] = "cov" -> {Of("fcov")}
    [] x[1] = "regr" -> {Of("cov")} \cup {<<"yaml", t>> : t \in Test}
    [] x[1] = "asm" -> {Of("ig")}
    [] x[1] = "bin" -> {<<"asm", x[2]>>} \cap Target
    [] x[1] = "log" -> {Of("tb"), <<"bin", x[2]>>}
    [] x[1] = "yaml" -> {<<"log", x[2]>>}

Users(x) == {y \in Target : x \in Needs(y)}

\* The targets that are neither old nor made from something old, directly or
\* not: the largest such set that holds what its members are made from.
UpToDate ==
  UNION {K \in SUBSET (Target \ old) : \A x \in K : Needs(x) \subseteq K}

Init ==
  /\ LockInit
  /\ make \in [phase : {"off"}, exit : {"none"}, cov : BOOLEAN, starts : {0}, edits : {0}]
  /\ st = [x \in Target |-> "unseen"]
  /\ old = Target
  /\ trr = [t \in Test |-> NoRecord]
  /\ log = [t \in Test |-> "none"]
  /\ asm = {}
  /\ report = [t \in Test |-> "none"]
  /\ hist = [t \in Test |-> [sims |-> 0, judged |-> FALSE, cut |-> FALSE]]

-----------------------------------------------------------------------------
(* The metadata is created once, before anything else.                     *)

Start ==
  /\ make.phase = "off" /\ make.starts < MaxMakes
  /\ make' = [make EXCEPT !.phase = IF md.state = "absent" THEN "create" ELSE "on",
                          !.exit = "none", !.starts = @ + 1]
  /\ LET kept == UpToDate
     IN st' = [x \in Target |-> IF x \in kept THEN "kept" ELSE "unseen"]
  /\ UNCHANGED <<lockVars, old, testVars>>

\* A record for each test and seed.
CreateRecord(t) ==
  /\ make.phase = "create" /\ md.state = "absent" /\ ~Loadable(t)
  /\ trr' = [trr EXCEPT ![t] = NewRecord]
  /\ UNCHANGED <<lockVars, make, st, old, log, asm, report, hist>>

\* Mutant of AllRecorded: the metadata is written first.
SomeRecorded == \E t \in Test : Loadable(t)

AllRecorded == \A t \in Test : Loadable(t)

\* The last export of metadata.py creates the file.
CreateMetadata ==
  /\ make.phase = "create"
  /\ \/ AllRecorded /\ OpenNew /\ UNCHANGED make
     \/ WriteNew /\ make' = [make EXCEPT !.phase = "on"]
  /\ UNCHANGED <<st, old, testVars>>

-----------------------------------------------------------------------------
(* What make has decided at the start.  A target that is neither old nor    *)
(* made from something old is kept; all others are made in turn.           *)

Finished(x) == st[x] \in {"kept", "made"}
MustMake(x) ==
  make.phase = "on" /\ st[x] = "unseen" /\ \A y \in Needs(x) : Finished(y)

\* A recipe that fails stops make from starting others.
Fail(x) ==
  /\ st' = [st EXCEPT ![x] = "failed"]
  /\ make' = [make EXCEPT !.phase = "failing"]

\* A file that was written is newer than what it is made from, and older than
\* nothing but what is made from it.
Wrote(x) == (old \ {x}) \cup Users(x)

Running(x) == x \in Target /\ make.phase \in {"on", "failing"} /\ st[x] = "running"

\* construct_from_metadata_dir, without the lock: an emptied file has no object.
Readable == md.state = "whole"

-----------------------------------------------------------------------------
(* The scripts that record something in the metadata and then run a        *)
(* command: render_config_template, build_instr_gen, compile_tb, get_fcov, *)
(* merge_cov and collect_results.                                          *)

\* Without coverage its two targets are only stamps.
StampOnly(s) == s \in {"fcov", "cov"} /\ ~make.cov

Stamp(s) ==
  /\ StampOnly(s) /\ MustMake(Of(s))
  /\ st' = [st EXCEPT ![Of(s)] = "made"]
  /\ old' = Wrote(Of(s))
  /\ UNCHANGED <<lockVars, make, testVars>>

StartScript(s) ==
  /\ ~StampOnly(s) /\ MustMake(Of(s))
  /\ st' = [st EXCEPT ![Of(s)] = "running"]
  /\ Launch(s)
  /\ UNCHANGED <<make, old, testVars>>

\* Mutant of Verdict: the failure mode is reported as it is.
VerdictByMode(t) == IF trr[t].passed = "yes" THEN "PASS" ELSE trr[t].mode

\* collect_results loads every record before it reports; one that cannot be
\* loaded ends it there, in the locked part.
Verdict(t) ==
  CASE trr[t].passed = "yes" -> "PASS"
    [] trr[t].passed # "yes" /\ trr[t].mode = "timeout" -> "FAILED {T}"
    [] OTHER -> "FAILED"

Collect(s) ==
  report' = IF s = "regr" /\ at[s] = "holding" /\ AllRecorded
              THEN [t \in Test |-> Verdict(t)] ELSE report

ScriptStep(s) ==
  /\ Running(Of(s)) /\ LockStep(s) /\ Collect(s)
  /\ UNCHANGED <<make, st, old, trr, log, asm, hist>>

\* Mutant of Succeeds: the exit status is that of the reporting itself.
SucceedsAnyway(s) == TRUE

\* The exit status: collect_results has one of its own, the others that of
\* their command.
Succeeds(s) == s = "regr" => AllRecorded /\ \A t \in Test : report[t] = "PASS"

ScriptDone(s) ==
  /\ Running(Of(s)) /\ at[s] = "committed" /\ Succeeds(s)
  /\ st' = [st EXCEPT ![Of(s)] = "made"]
  /\ old' = Wrote(Of(s))
  /\ UNCHANGED <<lockVars, make, testVars>>

ScriptFails(s) ==
  /\ Running(Of(s))
  /\ at[s] = "failed" \/ (at[s] = "committed" /\ (s = "regr" => ~Succeeds(s)))
  /\ Fail(Of(s))
  /\ UNCHANGED <<lockVars, old, testVars>>

\* compile_tb without its environment, and merge_cov with a simulator it does
\* not know or without a coverage database, end before they ask for the lock.
FailsEarly(s) ==
  /\ s \in {"tb", "cov"} /\ Running(Of(s)) /\ at[s] = "idle"
  /\ Fail(Of(s))
  /\ UNCHANGED <<lockVars, old, testVars>>

-----------------------------------------------------------------------------
(* The scripts of a test.                                                  *)

\* Every script of a test reads its record first, and all but check_logs the
\* metadata.
CanStart(x) == Loadable(x[2]) /\ (x[1] = "yaml" \/ Readable)

StartTest(x) ==
  /\ x \in TestTarget /\ MustMake(x)
  /\ IF CanStart(x)
       THEN st' = [st EXCEPT ![x] = "running"] /\ UNCHANGED make
       ELSE Fail(x)
  /\ IF x[1] = "log" /\ CanStart(x)
       THEN hist' = [hist EXCEPT ![x[2]].sims = IF @ < 2 THEN @ + 1 ELSE 2,
                                 ![x[2]].judged = FALSE]
       ELSE UNCHANGED hist
  /\ UNCHANGED <<lockVars, old, trr, log, asm, report>>

\* run_instr_gen: riscv-dv writes the commands, the commands write test.S.
\* Only the first failing is a failure of the script.
Generated(t, ok) ==
  LET x == <<"asm", t>> IN
  /\ Running(x)
  /\ st' = [st EXCEPT ![x] = "made"]
  /\ asm' = IF ok THEN asm \cup {t} ELSE asm
  /\ old' = IF ok THEN Wrote(x) ELSE old
  /\ UNCHANGED <<lockVars, make, trr, log, report, hist>>

NotGenerated(t) ==
  /\ Running(<<"asm", t>>) /\ Fail(<<"asm", t>>)
  /\ UNCHANGED <<lockVars, old, testVars>>

\* compile_test needs the assembly of a generated test.
Compiled(t) ==
  LET x == <<"bin", t>> IN
  /\ Running(x) /\ (t \in Directed \/ t \in asm)
  /\ st' = [st EXCEPT ![x] = "made"]
  /\ old' = Wrote(x)
  /\ UNCHANGED <<lockVars, make, testVars>>

NotCompiled(t) ==
  /\ Running(<<"bin", t>>) /\ Fail(<<"bin", t>>)
  /\ UNCHANGED <<lockVars, old, testVars>>

\* run_rtl: the simulator ends, or is killed and leaves its log cut off.  The
\* record is exported after the log was written, and trr.yaml with it.
Simulated(t, end) ==
  LET x == <<"log", t>> IN
  /\ Running(x)
  /\ log' = [log EXCEPT ![t] = end]
  /\ trr' = IF end = "cut" THEN [trr EXCEPT ![t].mode = "timeout"] ELSE trr
  /\ st' = [st EXCEPT ![x] = "made"]
  /\ old' = Wrote(<<"yaml", t>>) \ {x}
  /\ UNCHANGED <<lockVars, make, asm, report, hist>>

\* A simulator that cannot be started is not noticed: an earlier log and
\* trace stay as they are, and the log as old as it was.  With VCS the log
\* that is looked at is the script's own, which is new and empty.
NotStarted(t) ==
  LET x == <<"log", t>> IN
  /\ Running(x)
  /\ \/ UNCHANGED log
     \/ log' = [log EXCEPT ![t] = IF @ \in HasTrace THEN "cut" ELSE "none"]
  /\ st' = [st EXCEPT ![x] = "made"]
  /\ old' = Wrote(<<"yaml", t>>)
  /\ UNCHANGED <<lockVars, make, trr, asm, report, hist>>

\* Mutant of Compare: a log without a failure counts as passed.
CompareUnfailed(r, end) ==
  LET uvm == UvmVerdict[end] IN
  IF r.mode = "timeout" THEN [r EXCEPT !.passed = "no"]
  ELSE IF end \notin HasTrace THEN [r EXCEPT !.passed = "no", !.mode = "file"]
  ELSE IF ~uvm.passed /\ uvm.mode # "none" THEN [r EXCEPT !.mode = uvm.mode]
  ELSE [r EXCEPT !.passed = "yes"]

\* compare_test_run.  A log that fails leaves passed as it was.
Compare(r, end) ==
  LET uvm == UvmVerdict[end] IN
  IF r.mode = "timeout" THEN [r EXCEPT !.passed = "no"]
  ELSE IF end \notin HasTrace THEN [r EXCEPT !.passed = "no", !.mode = "file"]
  ELSE IF ~uvm.passed THEN [r EXCEPT !.mode = uvm.mode]
  ELSE [r EXCEPT !.passed = "yes"]

\* The log is only looked at in the last two cases.
CheckRaises(r, end) ==
  r.mode # "timeout" /\ end \in HasTrace /\ UvmVerdict[end].raises

Checked(t) ==
  LET x == <<"yaml", t>> IN
  /\ Running(x) /\ ~CheckRaises(trr[t], log[t])
  /\ trr' = [trr EXCEPT ![t] = Compare(@, log[t])]
  /\ st' = [st EXCEPT ![x] = "made"]
  /\ old' = Wrote(x)
  /\ hist' = [hist EXCEPT ![t].judged = TRUE]
  /\ UNCHANGED <<lockVars, make, log, asm, report>>

\* check_logs ends with an exception and writes nothing.
NotChecked(t) ==
  /\ Running(<<"yaml", t>>) /\ CheckRaises(trr[t], log[t])
  /\ Fail(<<"yaml", t>>)
  /\ UNCHANGED <<lockVars, old, testVars>>

TestStep(t) ==
  \/ \E ok \in BOOLEAN : Generated(t, ok)
  \/ NotGenerated(t)
  \/ Compiled(t) \/ NotCompiled(t)
  \/ \E end \in Ends : Simulated(t, end)
  \/ NotStarted(t)
  \/ Checked(t) \/ NotChecked(t)

-----------------------------------------------------------------------------
Busy == \E x \in Target : st[x] = "running"

End ==
  /\ ~Busy
  /\ \/ make.phase = "failing" /\ make' = [make EXCEPT !.phase = "off", !.exit = "failed"]
     \/ /\ make.phase = "on" /\ \A x \in Target : Finished(x)
        /\ make' = [make EXCEPT !.phase = "off", !.exit = "ok"]
  /\ UNCHANGED <<lockVars, st, old, testVars>>

Begun(k, t) == <<k, t>> \in Target /\ st[<<k, t>>] = "running"

Leaves(r, l, made) == [trr |-> r, log |-> l, made |-> made]

\* run_rtl exports the record before and after the simulation.  The log is
\* as it was if the simulator has not opened it yet.  make removes a log that
\* was opened, unless it has no time to: then it is newer than what it needs.
SimulationCut(t) ==
  LET killed == [trr[t] EXCEPT !.mode = "timeout"] IN
       {Leaves(r, log[t], {}) : r \in {trr[t], TornRecord}}
  \cup {Leaves(r, "none", {}) : r \in {trr[t], TornRecord, killed}}
  \cup {Leaves(r, end, {<<"log", t>>}) : r \in {trr[t], TornRecord}, end \in Ends}
  \cup {Leaves(killed, "cut", {<<"log", t>>})}

\* check_logs has perhaps exported the record.  trr.yaml may be removed, stay
\* as run_rtl has written it, or be the new one.
CheckCut(t) ==
  LET yaml == <<"yaml", t>>
      cuts == IF CheckRaises(trr[t], log[t]) THEN {trr[t]}
              ELSE {trr[t], TornRecord, Compare(trr[t], log[t])}
  IN {Leaves(r, log[t], {}) : r \in cuts}
     \cup {Leaves(r, log[t], {yaml}) :
             r \in IF yaml \in old THEN cuts \cap {Compare(trr[t], log[t])} ELSE cuts}

\* What a kill leaves of a test: its record, its log, and which of the files
\* that were being made is there.  export empties the pickle before it dumps
\* the object into it (scripts_lib.py:304-305), in every script of a test and
\* in the creation of the metadata.
LeftOf(t) ==
  IF Begun("log", t) THEN SimulationCut(t)
  ELSE IF Begun("yaml", t) THEN CheckCut(t)
  ELSE IF Begun("asm", t) \/ Begun("bin", t) \/ (make.phase = "create" /\ md.state = "absent")
    THEN {Leaves(r, log[t], {}) : r \in {trr[t], TornRecord}}
  ELSE {Leaves(trr[t], log[t], {})}

EachOf(S) == {f \in [Test -> UNION {S[t] : t \in Test}] : \A t \in Test : f[t] \in S[t]}

\* make and its scripts are killed.  (Bound: only if it is started again.)
Kill ==
  /\ make.phase # "off" /\ make.starts < MaxMakes
  /\ make' = [make EXCEPT !.phase = "off", !.exit = "killed"]
  /\ KillScripts
  /\ \E left \in EachOf([t \in Test |-> LeftOf(t)]) :
       LET made == UNION {left[t].made : t \in Test}
           running == {x \in Target : st[x] = "running"}
       IN /\ trr' = [t \in Test |-> left[t].trr]
          /\ log' = [t \in Test |-> left[t].log]
          /\ hist' = [t \in Test |-> [hist[t] EXCEPT !.cut =
                        @ \/ (md.state # "absent" /\ left[t].trr.state = "torn")]]
          /\ old' = (UNION {Users(x) : x \in made}) \cup ((old \cup running) \ made)
  /\ st' = [x \in Target |-> "unseen"]
  /\ UNCHANGED <<asm, report>>

\* The RTL is edited: the testbench is to be compiled again.  (Bound: only if
\* make is started again.)
Edit ==
  /\ make.phase = "off" /\ make.edits < MaxEdits
  /\ make.starts > 0 /\ make.starts < MaxMakes
  /\ make' = [make EXCEPT !.edits = @ + 1]
  /\ old' = old \cup {Of("tb")}
  /\ UNCHANGED <<lockVars, st, testVars>>

Work ==
  \/ \E t \in Test : CreateRecord(t)
  \/ CreateMetadata
  \/ \E x \in Target : StartTest(x)
  \/ \E s \in Script : \/ Stamp(s) \/ StartScript(s) \/ ScriptStep(s)
                        \/ ScriptDone(s) \/ ScriptFails(s) \/ FailsEarly(s)
  \/ \E t \in Test : TestStep(t)
  \/ End

Next == Start \/ Edit \/ Kill \/ Work

Spec == Init /\ [][Next]_vars

\* make and the scripts it runs go on; the tools they call end, by their own
\* timeouts where they have one.
FairSpec == Spec /\ WF_vars(Work)

-----------------------------------------------------------------------------
TypeOK ==
  /\ LockTypeOK
  /\ make.phase \in {"off", "create", "on", "failing"}
  /\ make.exit \in {"none", "ok", "failed", "killed"}
  /\ make.cov \in BOOLEAN
  /\ make.starts \in 0 .. MaxMakes /\ make.edits \in 0 .. MaxEdits
  /\ st \in [Target -> {"unseen", "kept", "running", "made", "failed"}]
  /\ old \subseteq Target
  /\ trr \in [Test -> [state : {"absent", "torn", "whole"}, passed : {"none", "no", "yes"},
                       mode : {"none", "timeout", "file", "log"}]]
  /\ log \in [Test -> Ends \cup {"none"}]
  /\ asm \subseteq Test
  /\ report \in [Test -> {"none", "PASS", "FAILED", "FAILED {T}"}]
  /\ hist \in [Test -> [sims : 0 .. 2, judged : BOOLEAN, cut : BOOLEAN]]

\* The operation that creates the metadata does nothing once metadata.pickle
\* is there (metadata.py:362-364), so a run that was killed must not leave it
\* without the records of all tests, which every later script loads.  After
\* that a record cannot be loaded if and only if a kill has cut its export
\* short: the code has no other way to lose one, and none to get it back.
MetadataImpliesTests ==
  md.state # "absent" =>
    \A t \in Test : /\ trr[t].state # "absent"
                    /\ Loadable(t) <=> ~hist[t].cut

\* What check_logs has said of a test that was simulated once, as long as the
\* record can be loaded, is what the log says: passed if and only if it has a
\* result and that is a pass, with kills at any point before
\* (check_logs.py:27-81).
VerdictIsOfItsLog ==
  \A t \in Test : hist[t].judged /\ hist[t].sims = 1 /\ Loadable(t) =>
                   (trr[t].passed = "yes" <=> log[t] = "pass")

\* make ends well only if the record of every test can be loaded, has been
\* found passed and was reported as such, and what was simulated once has a
\* log that passes: over all restarts, kills at any point, torn records and
\* targets that are kept ("Succeed if no tests failed",
\* collect_results.py:116-117).
PassIsEarned ==
  make.exit = "ok" =>
    \A t \in Test : /\ Loadable(t) /\ trr[t].passed = "yes" /\ report[t] = "PASS"
                    /\ hist[t].sims = 1 => log[t] = "pass"

\* A regression ends, however its scripts meet at the lock and whatever a
\* killed one left behind: waiting for the lock is given up, and a target that
\* fails stops make.
RegressionEnds == make.phase # "off" ~> make.phase = "off"
=============================================================================
