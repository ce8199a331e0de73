---------------------------- MODULE SimulationLog ----------------------------
(***************************************************************************)
(* The log processing of                                                   *)
(* dv/uvm/core_ibex/riscv_dv_extension/ibex_log_to_trace_csv.py: what the  *)
(* log of a simulation says of the test, and whether its trace is usable.  *)
(* A line is abstracted to the markers it holds:                           *)
(*   "error"      UVM_ERROR, UVM_FATAL or Error                            *)
(*   "wallclock"  one of these, with the message of the wall-clock timeout *)
(*   "passed"     RISC-V UVM TEST PASSED                                   *)
(*   "failed"     RISC-V UVM TEST FAILED                                   *)
(*   "text"       none of them                                             *)
(* and a line of the trace to "instr", "ecall" or "text".                  *)
(***************************************************************************)
EXTENDS Naturals, SequencesExt

LogLine == {"error", "wallclock", "passed", "failed", "text"}
Markers == {"error", "wallclock"}
Results == {"passed", "failed"}

NoError == 0

ScanStart == [passed |-> FALSE, failed |-> FALSE, seen |-> FALSE, error |-> NoError, at |-> 1]

\* Mutant of Scanned: errors count wherever they are.
ScannedAll(s, line) ==
  LET isError == line \in Markers IN
  [passed |-> s.passed \/ line = "passed",
   failed |-> s.failed \/ isError \/ line = "failed",
   seen |-> s.seen \/ line \in Results,
   error |-> IF isError THEN s.at ELSE s.error,
   at |-> s.at + 1]

\* A line that marks an error counts until a result has been seen.
Scanned(s, line) ==
  LET isError == line \in Markers /\ ~s.seen IN
  [passed |-> s.passed \/ line = "passed",
   failed |-> s.failed \/ isError \/ line = "failed",
   seen |-> s.seen \/ line \in Results,
   error |-> IF isError THEN s.at ELSE s.error,
   at |-> s.at + 1]

\* The lines that are read: up to the first FAILED.
ReadLines(lines) ==
  LET ends == {i \in 1 .. Len(lines) : lines[i] = "failed"}
  IN IF ends = {} THEN lines ELSE SubSeq(lines, 1, CHOOSE i \in ends : \A j \in ends : i <= j)

\* check_ibex_uvm_log.  A log that failed without a line that marks an error
\* ends the script: it looks for the timeout message in no line.
CheckUvmLog(lines) ==
  LET s == FoldLeft(Scanned, ScanStart, ReadLines(lines)) IN
  [raises |-> s.failed /\ s.error = NoError,
   passed |-> s.passed /\ ~s.failed,
   mode |-> IF ~s.failed \/ s.error = NoError THEN "none"
            ELSE IF lines[s.error] = "wallclock" THEN "timeout" ELSE "log"]

\* process_ibex_sim_log: the instructions before an ecall are converted; none
\* is an error.
TraceUsable(lines) ==
  \E i \in 1 .. Len(lines) :
    lines[i] = "instr" /\ \A j \in 1 .. i : lines[j] # "ecall"

-----------------------------------------------------------------------------
\* What the log means: its result is a pass and nothing went wrong before it.
Passes(lines) ==
  \E i \in 1 .. Len(lines) :
    /\ lines[i] = "passed"
    /\ \A j \in 1 .. i - 1 : lines[j] = "text"
    /\ \A j \in 1 .. Len(lines) : lines[j] # "failed"
=============================================================================
