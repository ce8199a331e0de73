----------------------------- MODULE GoldenModel -----------------------------
(***************************************************************************)
(* mac_model of dv/mac/golden_model.py: four feed and four drain cycles of *)
(* the 4x4 array of multiply-accumulate elements, as the bench expects     *)
(* them.  An element is the pair of its row and column, from one; what     *)
(* comes from outside the array, and registers at reset, is zero.          *)
(* No sum exceeds 4 * 2^14, so that wrapping at 32 bits only changes how a *)
(* negative one is written; sums are kept as integers.                     *)
(***************************************************************************)
EXTENDS Integers, SequencesExt

Dim == 4
Index == 1 .. Dim
Element == Index \X Index

Signed(byte) == IF byte < 128 THEN byte ELSE byte - 256

ArrayReset == [a |-> [e \in Element |-> 0],
               mul |-> [e \in Element |-> 0],
               acc |-> [e \in Element |-> 0]]

AccAbove(arr, e) == IF e[1] = 1 THEN 0 ELSE arr.acc[<<e[1] - 1, e[2]>>]

\* Mutant of ArrayStep: activations pass a row without a register.
ArrayStepFlat(weights, feed, arr) ==
  [a |-> [e \in Element |-> Signed(feed[e[1]])],
   mul |-> [e \in Element |-> arr.a[e] * Signed(weights[Dim * (e[1] - 1) + e[2]])],
   acc |-> [e \in Element |-> AccAbove(arr, e) + arr.mul[e]]]

\* One cycle: everything is computed from the registers before it.
ArrayStep(weights, feed, arr) ==
  [a |-> [e \in Element |-> IF e[2] = 1 THEN Signed(feed[e[1]]) ELSE arr.a[<<e[1], e[2] - 1>>]],
   mul |-> [e \in Element |-> arr.a[e] * Signed(weights[Dim * (e[1] - 1) + e[2]])],
   acc |-> [e \in Element |-> AccAbove(arr, e) + arr.mul[e]]]

NoFeed == [r \in Index |-> 0]

MacModel(weights, activations) ==
  LET feeds == [cycle \in 1 .. 8 |-> IF cycle <= 4 THEN activations ELSE NoFeed]
      last == FoldLeft(LAMBDA arr, feed : ArrayStep(weights, feed, arr), ArrayReset, feeds)
  IN [c \in Index |-> last.acc[<<Dim, c>>]]

-----------------------------------------------------------------------------
\* What a column holds at the end, as a sum: of the products of the weights of
\* the column, those whose activation was on its way when they were needed.
Banded(weights, activations) ==
  LET term(r, c) == IF r \in c - 2 .. c + 1
                      THEN Signed(weights[Dim * (r - 1) + c]) * Signed(activations[r])
                      ELSE 0
  IN [c \in Index |-> term(1, c) + term(2, c) + term(3, c) + term(4, c)]
=============================================================================
