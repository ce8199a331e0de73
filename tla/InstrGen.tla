------------------------------ MODULE InstrGen ------------------------------
(***************************************************************************)
(* The relocation of dv/uvm/core_ibex/scripts/run_instr_gen.py: riscv-dv   *)
(* only writes down the commands that generate a test, for a directory     *)
(* that does not exist; the script points them at the generator that was   *)
(* built and at a scratch directory, runs them, and copies their results   *)
(* into the directory of the test.                                         *)
(*                                                                         *)
(* A path is the sequence of its components, a word of a command is a      *)
(* prefix (of a plusarg, or none) and a path.  The name of a log, which is *)
(* put together from three parts, is written as these.                     *)
(***************************************************************************)
EXTENDS Naturals, SequencesExt

Placeholder == <<"@@PLACEHOLDER@@">>
Build == <<"build">>
Scratch == <<"scratch">>

Word(pre, path) == [pre |-> pre, path |-> path]

CsrTest == "riscv_csr_test"

\* The simulators that can build the generator have an entry in sim_relocs.
GenSimulators == {"vcs", "xlm", "dsim"}

SimRelocs(sim) ==
  CASE sim = "vcs" -> <<[orig |-> Placeholder \o <<"vcs_simv">>, reloc |-> Build \o <<"vcs_simv">>]>>
    [] sim = "xlm" -> <<[orig |-> Placeholder, reloc |-> Build]>>
    [] sim = "dsim" -> <<[orig |-> Placeholder \o <<"dsim">>, reloc |-> Build \o <<"dsim">>]>>

Asm(test) == Placeholder \o <<"asm_test", test>>
SimLog(test) == Placeholder \o <<"sim", test, "0.log">>

AlwaysRelocs(test) ==
  << [orig |-> Asm(test), reloc |-> Scratch \o <<"test">>],
     [orig |-> Placeholder \o <<"asm_test">>, reloc |-> Scratch],
     [orig |-> SimLog(test), reloc |-> Scratch \o <<"gen.log">>] >>

\* Mutant of RelocPath: whatever is below a relocated directory moves with it.
RelocPathPrefix(sim, test, path) ==
  LET relocs == SimRelocs(sim) \o AlwaysRelocs(test)
      hits == {i \in 1 .. Len(relocs) : IsPrefix(relocs[i].orig, path)}
      first == CHOOSE i \in hits : \A j \in hits : i <= j
  IN IF hits = {} THEN path
     ELSE relocs[first].reloc \o SubSeq(path, Len(relocs[first].orig) + 1, Len(path))

\* The first relocation of exactly this path is applied.
RelocPath(sim, test, path) ==
  LET relocs == SimRelocs(sim) \o AlwaysRelocs(test)
      hits == {i \in 1 .. Len(relocs) : relocs[i].orig = path}
  IN IF hits = {} THEN path ELSE relocs[CHOOSE i \in hits : \A j \in hits : i <= j].reloc

\* reloc_word; reloc_commands applies it to every word of every line.
RelocWord(sim, test, word) == Word(word.pre, RelocPath(sim, test, word.path))

Refused(word) == \E i \in 1 .. Len(word.path) : <<word.path[i]>> = Placeholder

RelocCommands(sim, test, commands) ==
  [c \in 1 .. Len(commands) |->
    [w \in 1 .. Len(commands[c]) |-> RelocWord(sim, test, commands[c][w])]]

RelocFails(commands) ==
  \E c \in 1 .. Len(commands) : \E w \in 1 .. Len(commands[c]) : Refused(commands[c][w])

-----------------------------------------------------------------------------
(* What is copied back.                                                    *)

CopyRule(src, dst, onFail) == [src |-> src, dst |-> dst, onFail |-> onFail]

FileCopies(test) ==
  IF test = CsrTest THEN <<CopyRule("riscv_csr_test_0.S", "test.S", FALSE)>>
  ELSE <<CopyRule("gen.log", "gen.log", TRUE), CopyRule("test_0.S", "test.S", FALSE)>>

\* do_file_copies, from what is in the scratch directory.
Missing(rules, there, failed) ==
  ~failed /\ \E i \in 1 .. Len(rules) : rules[i].src \notin there

Copied(rules, there, failed) ==
  {rules[i].dst : i \in {j \in 1 .. Len(rules) :
                           /\ failed => rules[j].onFail
                           /\ rules[j].src \in there}}

-----------------------------------------------------------------------------
(* External: the commands riscv-dv writes down, and the files a command     *)
(* that succeeds leaves in the scratch directory.                          *)

SimWords(sim) ==
  CASE sim = "vcs" -> <<Word("", Placeholder \o <<"vcs_simv">>)>>
    [] sim = "xlm" -> <<Word("", <<"xrun">>), Word("", Placeholder)>>
    [] sim = "dsim" -> <<Word("", <<"dsim">>), Word("", Placeholder \o <<"dsim">>)>>

Commands(sim, test) ==
  IF test = CsrTest
    THEN << <<Word("", <<"gen_csr_test.py">>), Word("", Placeholder \o <<"asm_test">>)>> >>
    ELSE << SimWords(sim) \o <<Word("+asm_file_name=", Asm(test)), Word("", SimLog(test))>> >>

\* The file written for a word, by its name in the scratch directory.
WrittenFor(test, word) ==
  CASE word = Word("+asm_file_name=", Scratch \o <<"test">>) -> {"test_0.S"}
    [] word = Word("", Scratch) /\ test = CsrTest -> {"riscv_csr_test_0.S"}
    [] word = Word("", Scratch \o <<"gen.log">>) -> {"gen.log"}
    [] OTHER -> {}

InScratch(test, commands) ==
  UNION {WrittenFor(test, word) : word \in UNION {Range(commands[c]) : c \in DOMAIN commands}}
=============================================================================
