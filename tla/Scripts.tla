------------------------------ MODULE Scripts ------------------------------
(***************************************************************************)
(* The scripts and functions of the flow that keep no state: each is an    *)
(* operator of a module of its own, called here on one input, and each     *)
(* property compares what it computes with what it is for.                 *)
(***************************************************************************)
EXTENDS ToolRequirements, IbexConfigs, InstrGen, GoldenModel, SimulationLog

CONSTANTS
  ToolCalls,     \* [reqs, asked, installed] of check_tool_requirements.py
  ConfigCalls,   \* [sim, file, name] of ibex_config.py
  FilterCalls,   \* [config, asked, iterations, lists] of metadata.py
  Logs,          \* logs given to check_ibex_uvm_log
  GenCalls,      \* [sim, test, failed, left] of run_instr_gen.py
  MacCalls       \* [weights, activations] of golden_model.py

\* The versions are ones that the formats of the tools can carry, and the
\* simulators known ones, of instruction generation those that can do it.
ASSUME CallsAssumption ==
  /\ \A call \in ToolCalls : \A t \in DOMAIN call.reqs :
       ~Malformed(call.reqs[t]) =>
         LET need == Dict(call.reqs[t]).min
             have == call.installed[t]
         IN /\ need \in VersionsOf(t) \cup {NoVersion}
            /\ have \in VersionsOf(t) \cup {NoVersion}
  /\ \A call \in ConfigCalls : call.sim \in Simulators
  /\ \A call \in FilterCalls : TestLists(call.lists) /\ call.iterations \in Nat
  /\ Logs \subseteq Seq(LogLine)
  /\ \A call \in GenCalls : call.sim \in GenSimulators
  /\ \A call \in MacCalls : /\ call.weights \in [1 .. Dim * Dim -> 0 .. 255]
                           /\ call.activations \in [Index -> 0 .. 255]

VARIABLE input   \* the script that is called, and its input

Kinds == {"none", "tools", "config", "filter", "log", "gen", "mac"}

NoInput == [kind |-> "none", arg |-> {}]

CallsOf(kind) ==
  CASE kind = "none" -> {}
    [] kind = "tools" -> ToolCalls
    [] kind = "config" -> ConfigCalls
    [] kind = "filter" -> FilterCalls
    [] kind = "log" -> Logs
    [] kind = "gen" -> GenCalls
    [] kind = "mac" -> MacCalls

Call ==
  /\ input.kind = "none"
  /\ \E kind \in Kinds : \E arg \in CallsOf(kind) : input' = [kind |-> kind, arg |-> arg]

ScriptsSpec == input = NoInput /\ [][Call]_input

-----------------------------------------------------------------------------
\* Whether the tool is one that may be used: VCS by the order in which it is
\* released, but for releases with and without a service pack in different months
\* of a year; the others by the numbers of their versions.  What may follow a
\* version is part of it for some tools and makes it unreadable for others.
Recent(tool, need, have) ==
  /\ need # NoVersion /\ have # NoVersion
  /\ need.cruft => tool \in {"verible", "ninja"}
  /\ have.cruft => tool \in {"verible", "ninja", "vcs"}
  /\ IF tool = "vcs" THEN CountsAsRecent(have, need)
                     ELSE ~OlderThan(have.parts, need.parts)

\* The releases of VCS that are compared, if any, are not of one year with more
\* service packs or patches than one digit.
VcsTold(reqs, installed) ==
  \A t \in DOMAIN reqs :
    LET need == Dict(reqs[t]).min IN
    t = "vcs" /\ ~Malformed(reqs[t]) /\ need # NoVersion /\ installed[t] # NoVersion
      => Told(installed[t], need)

\* check_tool_requirements.py succeeds if and only if the requirements can be
\* read, every tool asked for is among them, and every tool that is always
\* needed or asked for is recent enough (check_tool_requirements.py:410-451).
\* The number it makes of a release of VCS (272-282) orders those of one month
\* and those of different years; of one year it takes those with a service pack
\* for newer, so that 2020.12 is refused where 2020.03-SP2 is required, as it is
\* in tool_requirements.py:10-13.
ToolVerdictIsExact ==
  input.kind = "tools" =>
    LET reqs == input.arg.reqs
        asked == input.arg.asked
        need(t) == Dict(reqs[t]).min
        have(t) == input.arg.installed[t]
        needed(t) == t \in asked \/ ~AsNeeded(reqs[t])
    IN VcsTold(reqs, input.arg.installed) =>
         (ToolsAccepted(reqs, asked, input.arg.installed)
          <=> /\ asked \subseteq DOMAIN reqs
              /\ \A t \in DOMAIN reqs : ~Malformed(reqs[t])
              /\ \A t \in DOMAIN reqs : needed(t) => Recent(t, need(t), have(t)))

\* Every field of a configuration that is accepted reaches the simulator in
\* exactly one of its two stages, for every simulator, and what is converted to
\* a number is one (ibex_config.py:44-107, 185-281, ibex_cmd.py:57-78): a
\* parameter that is lost leaves the default of the RTL in its place, and
\* nothing fails.
FieldsReachSimulator ==
  input.kind = "config" =>
    LET compile == StageFields(input.arg.sim, "compile")
        sim == StageFields(input.arg.sim, "sim")
        config == input.arg.file[input.arg.name]
    IN ConfigFound(input.arg.file, input.arg.name) =>
         /\ compile \cup sim = DOMAIN config /\ compile \cap sim = {}
         /\ \A f \in DOMAIN config : config[f].type = "str" <=> f \in StrFields

\* A test of either list that is asked for, has iterations and is supported by
\* the configuration is run, if its parameters are not an empty list; and no
\* test is run that was not asked for or that, naming a single parameter, is
\* not supported (metadata.py:260-333, ibex_cmd.py:126-189).
SupportedTestsRun ==
  input.kind = "filter" =>
    LET config == input.arg.config
        asked == input.arg.asked
        lists == input.arg.lists
        isAsked(e) ==
          IF e \in Range(lists.riscvdv) THEN AskedFor(asked, AllRiscvdv, e)
                                        ELSE AskedFor(asked, AllDirected, e)
        tests == Range(lists.riscvdv) \cup Range(lists.directed)
        run == {e.name : e \in Range(TestsToRun(config, asked, input.arg.iterations, lists))}
    IN ~SelectionRaises(config, asked, input.arg.iterations, lists) =>
         \A e \in tests :
           /\ isAsked(e) /\ e.iterations > 0 /\ Supported(config, e)
                /\ (e.hasParams => e.params # <<>>) => e.name \in run
           /\ e.name \in run =>
                isAsked(e) /\ (Len(e.params) <= 1 => Supported(config, e))

\* A log passes if and only if it reports a pass and no failure, and no error
\* before; and it is given a verdict unless it fails without an error
\* (ibex_log_to_trace_csv.py:177-251).
LogVerdict ==
  input.kind = "log" =>
    LET lines == input.arg
        verdict == CheckUvmLog(lines)
        before(i) == \A j \in 1 .. i - 1 : lines[j] \notin Results
    IN /\ verdict.passed <=> Passes(lines)
       /\ verdict.raises <=>
            /\ \E i \in 1 .. Len(lines) : lines[i] = "failed"
            /\ \A i \in 1 .. Len(lines) : before(i) => lines[i] \notin Markers

\* What riscv-dv generates is found where the script looks for it: no word of
\* its commands is left pointing at the placeholder, a success leaves every file
\* that is copied, and a failure brings back at most the log
\* (run_instr_gen.py:28-147, 234-242).
CopiesWhatWasWritten ==
  input.kind = "gen" =>
    LET test == input.arg.test
        commands == RelocCommands(input.arg.sim, test, Commands(input.arg.sim, test))
        written == InScratch(test, commands)
        rules == FileCopies(test)
        failed == input.arg.failed
    IN /\ ~RelocFails(commands)
       /\ ~failed => ~Missing(rules, written, FALSE)
       /\ ~failed => "test.S" \in Copied(rules, written, FALSE)
       /\ failed => Copied(rules, written \cap input.arg.left, TRUE)
                      = {"gen.log"} \cap written \cap input.arg.left

\* Four feed and four drain cycles compute a banded sum, not a product of a
\* matrix with a vector: an activation reaches column c after c cycles and is
\* fed for four ("so the expected output is not a textbook matrix multiply
\* guess", golden_model.py:7-8).
GoldenIsBanded ==
  input.kind = "mac" =>
    MacModel(input.arg.weights, input.arg.activations)
      = Banded(input.arg.weights, input.arg.activations)
=============================================================================
