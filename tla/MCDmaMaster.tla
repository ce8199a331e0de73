---------------------------- MODULE MCDmaMaster ----------------------------
EXTENDS DmaMaster

\* Empty, partial, one-word and two-word lengths, a source that is not word
\* aligned, a destination that is not, and a copy that wraps the address space.
MCJobs ==
  {[src |-> 0, dst |-> 8, len |-> n] : n \in {0, 3, 4, 5, 8, 12}} \cup
  {[src |-> 2, dst |-> 8, len |-> 4], [src |-> 0, dst |-> 9, len |-> 4],
   [src |-> 28, dst |-> 0, len |-> 9]}
=============================================================================
