---------------------------- MODULE MCConductor ----------------------------
EXTENDS Conductor

AllProc == JobId \X Kinds
TimedProc == JobId \X {"explore"}
AllCodes == {"0", "1", Unsat, Sat, "30"}

\* An engine is expected to use one unit and comes to three, aig-manip to none;
\* the machine has five, of which two are the buffer.  One that is evicted after
\* it has grown is expected to need three, and does not fit any more.
HintOfKind == [p \in AllProc |-> IF p[2] = "prep" THEN 0 ELSE 1]
PeakOfKind == [p \in AllProc |-> IF p[2] = "prep" THEN 0 ELSE 3]

OneStep == <<{"a", "b", "c"}>>

Explore == [mode |-> "explore", hard |-> TRUE, fresh |-> FALSE, noRun |-> TRUE,
            noStore |-> FALSE, byStep |-> FALSE, check |-> FALSE]
Prove == [Explore EXCEPT !.mode = "prove", !.check = TRUE]
\* The blocks of a batch come in the order of their names.
ByName == {[b \in Block |-> IF "a" \in b.props THEN 1 ELSE IF "b" \in b.props THEN 2 ELSE 3]}

\* One of the three properties is proved already.
StoredBefore == {<<{[step |-> 1, props |-> {"a"}]}>>}
CommandLines ==
  {Explore, [Explore EXCEPT !.hard = FALSE, !.noRun = FALSE], Prove,
   [Prove EXCEPT !.check = FALSE], [Prove EXCEPT !.byStep = TRUE]}
=============================================================================
