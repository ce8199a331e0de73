----------------------------- MODULE IbexConfigs -----------------------------
(***************************************************************************)
(* util/ibex_config.py, scripts/ibex_cmd.py and the selection of tests in  *)
(* scripts/metadata.py: reading a configuration of Ibex, passing it to a   *)
(* simulator, and choosing the tests that are asked for and supported.  A  *)
(* value is [type, val]; the parameters of a test are a sequence of        *)
(* [name, allowed], in the order of the file.                              *)
(***************************************************************************)
EXTENDS Naturals, SequencesExt

StrFields == {"RV32M", "RV32B", "RV32ZC", "RegFile"}
IntFields == {"PMPGranularity", "PMPNumRegions", "MHPMCounterNum", "MHPMCounterWidth"}
BoolFields == {"RV32E", "BranchTargetALU", "WritebackStage", "ICache", "ICacheECC",
               "ICacheScramble", "BranchPredictor", "DbgTriggerEn", "SecureIbex",
               "PMPEnable"}
KnownFields == StrFields \cup IntFields \cup BoolFields

\* read_bool, read_int, read_str.  Truth values are integers in Python.
ReadBool(v) == v.type = "bool" \/ (v.type = "int" /\ v.val \in {0, 1})
ReadInt(v) == v.type \in {"int", "bool"}
ReadStr(v) == v.type = "str"

\* Config: the keys are exactly the known ones, each value of its type.
ConfigAccepted(yml) ==
  /\ DOMAIN yml = KnownFields
  /\ \A f \in BoolFields : ReadBool(yml[f])
  /\ \A f \in IntFields : ReadInt(yml[f])
  /\ \A f \in StrFields : ReadStr(yml[f])

\* parse_config: one bad configuration spoils the file.
ConfigFound(file, name) ==
  /\ \A n \in DOMAIN file : ConfigAccepted(file[n])
  /\ name \in DOMAIN file

-----------------------------------------------------------------------------
(* Outputters: whether they set parameters, and whether they define macros, *)
(* which is how strings are passed.                                         *)

SimOpts(params, defines) == [params |-> params, defines |-> defines]

Outputter(name) ==
  CASE name \in {"vcs_opts", "xlm_opts", "dsim_opts"} -> SimOpts(TRUE, TRUE)
    [] name \in {"riviera_sim_opts", "questa_sim_opts"} -> SimOpts(TRUE, FALSE)
    [] name \in {"riviera_compile_opts", "questa_compile_opts"} -> SimOpts(FALSE, TRUE)

\* SimOpts.output: the fields it gives to the simulator.
OutputFields(o) ==
  {f \in KnownFields : IF f \in StrFields THEN o.defines ELSE o.params}

Simulators == {"vcs", "riviera", "questa", "xlm", "dsim"}
NeedsSimOpts(sim) == sim \in {"riviera", "questa"}

OptsName(sim, stage) ==
  IF NeedsSimOpts(sim)
    THEN CASE sim = "riviera" /\ stage = "sim" -> "riviera_sim_opts"
           [] sim = "riviera" /\ stage = "compile" -> "riviera_compile_opts"
           [] sim = "questa" /\ stage = "sim" -> "questa_sim_opts"
           [] sim = "questa" /\ stage = "compile" -> "questa_compile_opts"
    ELSE CASE sim = "vcs" -> "vcs_opts" [] sim = "xlm" -> "xlm_opts"
           [] sim = "dsim" -> "dsim_opts"

\* Mutant of StageFields: the stage is not looked at.
StageFieldsAlways(sim, stage) == OutputFields(Outputter(OptsName(sim, stage)))

\* _get_x_opts.  Every simulator needs options when compiling.
StageFields(sim, stage) ==
  IF stage = "sim" /\ ~NeedsSimOpts(sim) THEN {}
  ELSE OutputFields(Outputter(OptsName(sim, stage)))

-----------------------------------------------------------------------------
Mismatch(config, param) ==
  param.name \notin DOMAIN config \/ config[param.name].val \notin param.allowed

\* Mutant of Agreeing: a test is kept before its parameter is compared.
AgreeingBefore(config, params) ==
  LET bad == {i \in 1 .. Len(params) : Mismatch(config, params[i])}
  IN IF bad = {} THEN Len(params) ELSE CHOOSE i \in bad : \A j \in bad : i <= j

\* How many parameters of a test agree with the configuration before the first
\* that does not.
Agreeing(config, params) ==
  LET bad == {i \in 1 .. Len(params) : Mismatch(config, params[i])}
  IN IF bad = {} THEN Len(params) ELSE (CHOOSE i \in bad : \A j \in bad : i <= j) - 1

\* A parameter that no configuration has ends the script.
FilterRaises(config, tests) ==
  \E i \in 1 .. Len(tests) :
    LET params == tests[i].params
        next == Agreeing(config, params) + 1
    IN next <= Len(params) /\ params[next].name \notin DOMAIN config

\* filter_tests_by_config.  A test is appended once for each parameter that
\* agrees, up to the first that does not, and once if it has no rtl_params.
FilterTests(config, tests) ==
  FlattenSeq([i \in 1 .. Len(tests) |->
    [k \in 1 .. IF tests[i].hasParams THEN Agreeing(config, tests[i].params) ELSE 1
       |-> tests[i]]])

-----------------------------------------------------------------------------
(* The two lists of tests; asked is the set of names of --test, iterations  *)
(* zero if the lists are to say how often.                                  *)

\* The tests of a list that are kept, in its order.
Keep(list, kept) ==
  FlattenSeq([i \in DOMAIN list |-> IF list[i] \in kept THEN <<list[i]>> ELSE <<>>])

Enabled(list) == Keep(list, {e \in Range(list) : e.iterations > 0})

AllRiscvdv == {"all", "all_riscvdv"}
AllDirected == {"all_directed"}

AskedFor(asked, all, e) == asked \cap ({e.name} \cup all) # {}

Matched(asked, all, list) == Keep(list, {e \in Range(list) : AskedFor(asked, all, e)})

\* As often as is asked for, if that is.
Often(iterations, list) ==
  [i \in DOMAIN list |->
    IF iterations > 0 THEN [list[i] EXCEPT !.iterations = iterations] ELSE list[i]]

\* process_riscvdv_testlist, with riscv-dv's process_regression_list: a test
\* with no iterations stays out.
RiscvdvMatched(asked, iterations, list) ==
  Often(iterations, Matched(asked, AllRiscvdv, Enabled(list)))

\* process_directed_testlist: a number that is asked for brings in tests that
\* have none.
DirectedMatched(asked, iterations, list) ==
  Enabled(Often(iterations, Matched(asked, AllDirected, list)))

\* get_tests_and_counts, and the operation that creates the metadata, which
\* gives up if no test is left.
TestsToRun(config, asked, iterations, lists) ==
  FilterTests(config, RiscvdvMatched(asked, iterations, lists.riscvdv))
    \o FilterTests(config, DirectedMatched(asked, iterations, lists.directed))

SelectionRaises(config, asked, iterations, lists) ==
  \/ FilterRaises(config, RiscvdvMatched(asked, iterations, lists.riscvdv))
  \/ FilterRaises(config, DirectedMatched(asked, iterations, lists.directed))
  \/ TestsToRun(config, asked, iterations, lists) = <<>>

-----------------------------------------------------------------------------
\* Test lists: the entries of each, and names that tell all of them apart.
TestList(list) ==
  /\ list \in Seq(Range(list))
  /\ \A e \in Range(list) :
       /\ e \in [name : {e.name}, iterations : Nat, hasParams : BOOLEAN,
                 params : Seq(Range(e.params))]
       /\ ~e.hasParams => e.params = <<>>
  /\ \A e, f \in Range(list) : e.name = f.name => e = f

TestLists(lists) ==
  /\ TestList(lists.riscvdv) /\ TestList(lists.directed)
  /\ \A e \in Range(lists.riscvdv), f \in Range(lists.directed) : e.name # f.name

\* The tests the configuration supports.
Supported(config, test) == \A i \in 1 .. Len(test.params) : ~Mismatch(config, test.params[i])
=============================================================================
