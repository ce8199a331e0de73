---------------------------- MODULE MCRegression ----------------------------
(* A generated and a directed test, with and without coverage; make is      *)
(* started twice, and in between either killed, at any time, or the RTL     *)
(* edited once.                                                             *)
(*                                                                          *)
(* Before make is ever started, one of the scripts that keep no state may   *)
(* be called instead, on any of the inputs below: the two parts share no    *)
(* variable.                                                                *)
EXTENDS Regression, Scripts

CONSTANTS t1, t2

MCScript == {"core", "ig", "tb", "fcov", "cov", "regr"}
MCTest == {t1, t2}
MCDirected == {t2}

-----------------------------------------------------------------------------
(* Releases of VCS, in months of three years, up to service pack 2, with     *)
(* one- and two-digit patches; other tools by their numbers.                 *)
Vcs(y, m, sp, patch, cruft) ==
  [year |-> y, month |-> m, sp |-> sp, patch |-> patch, cruft |-> cruft]
Numbers(parts, cruft) == [parts |-> parts, cruft |-> cruft]
Text(min) == [kind |-> "string", min |-> min]
Entry(min, minIs, asNeeded, extra) ==
  [kind |-> "dict", min |-> min, minIs |-> minIs, asNeeded |-> asNeeded, extra |-> extra]

VcsNeeds == {Vcs(2020, 3, 2, 0, FALSE), Vcs(2020, 3, 1, 10, FALSE), Vcs(2020, 3, 0, 0, FALSE), Vcs(2020, 12, 0, 1, FALSE)}
VcsHaves ==
  {NoVersion} \cup {Vcs(y, m, sp, patch, cruft) :
     y \in {2019, 2020, 2021}, m \in {1, 3, 12}, sp \in 0 .. 2, patch \in {0, 1, 9, 10, 99}, cruft \in BOOLEAN}

OneTool(tool, raw, asked, have) ==
  [reqs |-> (tool :> raw), asked |-> asked, installed |-> (tool :> have)]

\* The formats that two tools have of their own, ninja's with a suffix.
Vivados == {NoVersion} \cup {Numbers(parts, FALSE) : parts \in {<<2020, 1>>, <<2020, 2, 1>>, <<2021, 1>>}}
Ninjas == {NoVersion} \cup {Numbers(<<1, 10, n>>, cruft) : n \in {0, 2, 3}, cruft \in BOOLEAN}

Verilator == Numbers(<<4, 210>>, FALSE)
OldAndNew == {NoVersion, Numbers(<<4, 99>>, FALSE), Numbers(<<4, 210, 0>>, FALSE), Numbers(<<5>>, FALSE)}

MCToolCalls ==
  {OneTool("vcs", Text(need), {}, have) : need \in VcsNeeds, have \in VcsHaves}
  \cup {OneTool("vivado", Entry(Numbers(<<2020, 2>>, FALSE), "string", "yes", FALSE), asked, have) :
          asked \in SUBSET {"vivado"}, have \in Vivados}
  \cup {OneTool("ninja", Text(need), {}, have) : need, have \in Ninjas}
  \cup {OneTool("verilator", raw, asked, have) :
          raw \in {Text(Verilator), Entry(Verilator, "string", "yes", FALSE), Entry(Verilator, "string", "no", FALSE),
                   Entry(Verilator, "string", "no bool", FALSE), Entry(Verilator, "string", "yes", TRUE),
                   Entry(NoVersion, "absent", "yes", FALSE)},
          asked \in SUBSET {"verilator", "other"}, have \in OldAndNew}
  \cup {[reqs |-> ("verilator" :> Text(Verilator)) @@ ("edalize" :> Entry(Numbers(<<0, 2, 0>>, FALSE), "string", "yes", FALSE)),
         asked |-> asked,
         installed |-> ("verilator" :> v) @@ ("edalize" :> e)] :
          asked \in SUBSET {"verilator", "edalize"}, v \in OldAndNew,
          e \in {Numbers(<<0, 1>>, FALSE), Numbers(<<0, 2>>, FALSE)}}

-----------------------------------------------------------------------------
(* Two parameters of a configuration, and tests that name up to two of them. *)
Value(type, val) == [type |-> type, val |-> val]
Param(name, allowed) == [name |-> name, allowed |-> allowed]
TestEntry(name, iterations, hasParams, params) ==
  [name |-> name, iterations |-> iterations, hasParams |-> hasParams, params |-> params]

MCConfig(pmp, icache) == ("PMPEnable" :> Value("int", pmp)) @@ ("ICache" :> Value("int", icache))

MCParams == {Param(name, allowed) : name \in {"PMPEnable", "ICache"}, allowed \in {{0}, {1}, {0, 1}}}
            \cup {Param("Unknown", {1})}
MCEntries ==
  {TestEntry("a", 1, FALSE, <<>>), TestEntry("a", 1, TRUE, <<>>)}
  \cup {TestEntry("a", 1, TRUE, <<p>>) : p \in MCParams}
  \cup {TestEntry("a", 1, TRUE, <<p, q>>) : p, q \in MCParams}

MCAsked == {{"all"}, {"all_riscvdv"}, {"all_directed"}, {"all_riscvdv", "all_directed"}, {"a", "d"}, {"c"}}

MCLists(e, onDirected) ==
  [riscvdv |-> <<e, TestEntry("b", 0, FALSE, <<>>)>>,
   directed |-> <<TestEntry("c", 1, TRUE, <<onDirected>>), TestEntry("d", 0, FALSE, <<>>)>>]

MCFilterCalls ==
  {[config |-> MCConfig(pmp, 0), asked |-> asked, iterations |-> iterations,
    lists |-> MCLists(e, Param("PMPEnable", {1}))] :
      pmp \in 0 .. 1, asked \in MCAsked, iterations \in {0, 2}, e \in MCEntries}

(* A configuration, and those with one field wrong or one key more or less.  *)
Good == [f \in KnownFields |-> IF f \in StrFields THEN Value("str", "s")
                               ELSE IF f \in IntFields THEN Value("int", 4)
                               ELSE Value("bool", TRUE)]
MCYml ==
  {[Good EXCEPT ![f] = v] : f \in KnownFields,
     v \in {Value("bool", FALSE), Value("int", 1), Value("int", 2), Value("str", "s")}}
  \cup {[f \in KnownFields \ {g} |-> Good[f]] : g \in {"RV32E", "RV32M"}}
  \cup {Good @@ ("Unknown" :> Value("int", 1))}

MCConfigCalls ==
  {[sim |-> sim, name |-> "small", file |-> file] : sim \in Simulators,
     file \in {"small" :> yml : yml \in MCYml}
              \cup {("small" :> Good) @@ ("other" :> yml) : yml \in MCYml}}

-----------------------------------------------------------------------------
MCLogs == BoundedSeq(LogLine, 4)

MCGenCalls ==
  [sim : GenSimulators, test : {CsrTest, "riscv_arithmetic_basic_test"}, failed : BOOLEAN,
   left : SUBSET {"gen.log", "test_0.S", "riscv_csr_test_0.S"}]

(* The vectors of golden_model.py, and extremes of both signs.              *)
MCMacCalls ==
  {[weights |-> w, activations |-> a] :
    w \in {<<1, 2, 3, 4, 2, 1, 2, 1, 1, 3, 1, 2, 2, 2, 1, 1>>,
           [i \in 1 .. 16 |-> 128], [i \in 1 .. 16 |-> (37 * i) % 256]},
    a \in {<<1, 2, 3, 4>>, <<4, 3, 2, 1>>} \cup [1 .. 4 -> {1, 127, 128}]}

-----------------------------------------------------------------------------
MCInit == Init /\ input = NoInput

CallScript == make.starts = 0 /\ Call /\ UNCHANGED vars

\* (Bound: not after a kill, which is started from again as it is.)
MCEdit == make.exit # "killed" /\ Edit

MCWork == input.kind = "none" /\ Work /\ UNCHANGED input

MCNext ==
  \/ CallScript
  \/ MCWork
  \/ input.kind = "none" /\ (Start \/ MCEdit \/ Kill) /\ UNCHANGED input

MCSpec == MCInit /\ [][MCNext]_<<vars, input>> /\ WF_<<vars, input>>(MCWork)
=============================================================================
