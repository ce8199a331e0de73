---------------------------- MODULE CopiedBlock ----------------------------
(***************************************************************************)
(* What the word-by-word copy of WordCopy.tla amounts to: history          *)
(* variables remember the job that was begun and the memory it was begun   *)
(* in, and the memory of the running job is compared with them.            *)
(***************************************************************************)
EXTENDS WordCopy

VARIABLES
  before,    \* the memory when the job began
  request    \* [src, dst, words] of the job

history == <<before, request>>

AtRest == request = [src |-> 0, dst |-> 0, words |-> 0]

InitH ==
  /\ MoverInit
  /\ before = memory /\ AtRest

BeginH ==
  /\ Begin
  /\ before' = memory
  /\ request' = [src |-> job'.src, dst |-> job'.dst, words |-> job'.left]

OtherH == Elsewhere \/ ReadWord \/ WriteWord \/ End \/ GiveUp

NextH == BeginH \/ (OtherH /\ UNCHANGED history)

SpecH == InitH /\ [][NextH]_<<moverVars, history>>

-----------------------------------------------------------------------------
\* The k-th word from i on, for k up to the size of the memory.
Nth(i, k) == IF i + k < Depth THEN i + k ELSE i + k - Depth

Moved == request.words - job.left

\* No word of the source is overwritten before it is read: the job runs
\* upwards, so an overlap is harmless when the destination lies below.
ReadsComeFirst ==
  /\ request.words <= Depth
  /\ \A i, j \in 0..request.words - 1 :
       i < j => Nth(request.dst, i) # Nth(request.src, j)

BlockCopied(n) ==
  /\ \A k \in 0..n - 1 : memory[Nth(request.dst, k)] = before[Nth(request.src, k)]
  /\ \A i \in Index :
       (\A k \in 0..n - 1 : i # Nth(request.dst, k)) => memory[i] = before[i]

Running == job.phase \in {"read", "write", "over"}

\* The history has its types, and a running job is where its request and the
\* number of words moved put it.
BlockTyped ==
  /\ memory \in Memory /\ before \in Memory
  /\ job \in Job
  /\ request \in [src : Index, dst : Index, words : 0..MaxWords]

\* Unless the job overwrites words it has still to read, at every moment of
\* it, and so at its end, the words moved so far are the words the source held
\* when the job began, and every other word of the memory is as it was
\* (rtl/core/dma_master.v:55-91).
CopiesBlock == Running /\ ReadsComeFirst => BlockCopied(Moved)
=============================================================================
