------------------------------ MODULE WordCopy ------------------------------
(***************************************************************************)
(* What a job of the copy DMA promises (rtl/core/dma_master.v, seen from   *)
(* the memory): the words of the source are moved to the destination one   *)
(* after the other, each read and then written, and nothing else in the    *)
(* memory changes.  A job of zero bytes moves one word.                    *)
(*                                                                         *)
(* There is no bus, no arbiter and no clock here.  While no job is under   *)
(* way the memory belongs to the others.                                   *)
(***************************************************************************)
EXTENDS Integers

CONSTANTS
  Depth,      \* words in the memory
  MaxWords,   \* words in the longest job
  Value       \* the contents of a word

ASSUME CopyAssumption ==
  /\ Depth \in Nat \ {0}
  /\ MaxWords \in Nat \ {0}
  /\ Value # {}

VARIABLES
  memory,
  job        \* [phase, src, dst, left, held], word indices and a word count

moverVars == <<memory, job>>

Index == 0 .. Depth - 1

Memory == [Index -> Value]

Phases == {"idle", "read", "write", "over"}

Job == [phase : Phases, src : Index, dst : Index, left : 0..MaxWords, held : Value]

Following(i) == IF i + 1 = Depth THEN 0 ELSE i + 1

MoverInit ==
  /\ memory \in Memory
  /\ job \in {j \in Job : j.phase = "idle" /\ j.left = 0}

\* The others write to the memory.
Elsewhere ==
  /\ job.phase = "idle"
  /\ memory' \in Memory
  /\ UNCHANGED job

Begin ==
  /\ job.phase = "idle"
  /\ \E s, d \in Index, n \in 1..MaxWords :
       job' = [job EXCEPT !.phase = "read", !.src = s, !.dst = d, !.left = n]
  /\ UNCHANGED memory

ReadWord ==
  /\ job.phase = "read"
  /\ job' = [job EXCEPT !.phase = "write", !.held = memory[job.src]]
  /\ UNCHANGED memory

\* Mutant of WriteWord: the source does not advance.
WriteWordSameSource ==
  /\ job.phase = "write"
  /\ memory' = [memory EXCEPT ![job.dst] = job.held]
  /\ job' = [job EXCEPT !.phase = IF job.left = 1 THEN "over" ELSE "read",
                        !.dst = Following(job.dst), !.left = job.left - 1]

WriteWord ==
  /\ job.phase = "write"
  /\ memory' = [memory EXCEPT ![job.dst] = job.held]
  /\ job' = [job EXCEPT !.phase = IF job.left = 1 THEN "over" ELSE "read",
                        !.src = Following(job.src), !.dst = Following(job.dst),
                        !.left = job.left - 1]

End ==
  /\ job.phase = "over"
  /\ job' = [job EXCEPT !.phase = "idle"]
  /\ UNCHANGED memory

\* A reset abandons the job; what it has written stays.
GiveUp ==
  /\ job.phase # "idle"
  /\ \E v \in Value : job' = [job EXCEPT !.phase = "idle", !.left = 0, !.held = v]
  /\ UNCHANGED memory

MoverNext == Elsewhere \/ Begin \/ ReadWord \/ WriteWord \/ End \/ GiveUp

MoverSpec == MoverInit /\ [][MoverNext]_moverVars
=============================================================================
