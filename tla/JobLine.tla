------------------------------ MODULE JobLine ------------------------------
(***************************************************************************)
(* A line of commands in order of arrival: those up to front run, the rest *)
(* wait.  Front moves in both directions as memory comes and goes; nobody  *)
(* is overtaken.                                                           *)
(***************************************************************************)
EXTENDS Naturals, SequencesExt

VARIABLES line, front

\* The elements of s that are not in over, in the order of s.
Without(s, over) ==
  LET kept == {i \in DOMAIN s : s[i] \notin over}
      place(i) == Cardinality({h \in kept : h <= i})
  IN  [k \in 1..Cardinality(kept) |-> s[CHOOSE i \in kept : place(i) = k]]

Init == line = <<>> /\ front = 0

\* New commands join the end.
Join == IsStrictPrefix(line, line') /\ IsInjective(line') /\ front' = front

\* Front moves, and some of those that then run are over.
Turn ==
  \E n \in 0..Len(line) :
    LET over == ToSet(line) \ ToSet(line')
    IN  /\ over \subseteq ToSet(SubSeq(line, 1, n))
        /\ line' = Without(line, over)
        /\ front' = n - Cardinality(over)

\* The conductor ends, and the line with it.
Close == line' = <<>> /\ front' = 0

Next == Join \/ Turn \/ Close

Spec == Init /\ [][Next]_<<line, front>>
=============================================================================
