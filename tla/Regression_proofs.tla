-------------------------- MODULE Regression_proofs --------------------------
(***************************************************************************)
(* Proofs about Regression and the locked metadata under it, for any set   *)
(* of tests, of directed ones among them, and of starts of make; and about *)
(* the scripts of the flow that keep no state, for any calls of them.      *)
(*                                                                         *)
(* The first part is about LockedMetadata alone; the second is induction   *)
(* and what it says of folds; the third is about what check_logs reads in  *)
(* a log, and the fourth about the rules make follows.  The fifth is the   *)
(* invariant of the regression: each step is summed up by what it may do   *)
(* to the targets and to a test, and each part of the invariant follows    *)
(* from these sums.  The others are about the scripts, one at a time: the  *)
(* checks of the tools and of a configuration, instruction generation, the *)
(* choice of the tests, the verdict on a log, and the golden model.        *)
(***************************************************************************)
EXTENDS Regression, Scripts, SequenceTheorems, WellFoundedInduction, TLAPS

-----------------------------------------------------------------------------
(* The locked metadata.                                                     *)

\* The lock belongs to the one script that is between loading the object and
\* the end of writing it; meanwhile nobody else changes the file, so what it
\* holds in memory is up to date.
Held ==
  \A s \in Script : at[s] \in {"holding", "writing"} <=> lock = s

CopyIsCurrent ==
  \A s \in Script :
    /\ at[s] = "holding" => md.state = "whole" /\ copy[s] = md.fields
    /\ at[s] = "writing" => md.state = "torn" /\ recorded \cup {s} \subseteq copy[s]

\* Nothing is recorded before the file is there.
NotBefore == md.state \in {"absent", "new"} => recorded = {}

LockInv == LockTypeOK /\ Held /\ CopyIsCurrent /\ NotBefore /\ NothingLost

LEMMA LockInitially == LockInit => LockInv
  BY LockAssumption
  DEF LockInit, LockInv, LockTypeOK, Held, CopyIsCurrent, NotBefore, NothingLost, File, Places

\* Every step but those of a writer keeps the file or replaces a file without
\* an object.
LEMMA LockStepKeepsInvariant == LockInv /\ [LockNext]_lockVars => LockInv'
<1> SUFFICES ASSUME LockInv, [LockNext]_lockVars PROVE LockInv'
  OBVIOUS
<1> USE LockAssumption DEF LockInv, Places, File
<1>1. CASE OpenNew
  <2>1. LockTypeOK' BY <1>1 DEF OpenNew, LockTypeOK
  <2>2. Held' BY <1>1 DEF OpenNew, Held
  <2>3. CopyIsCurrent'
    BY <1>1 DEF OpenNew, CopyIsCurrent
  <2>4. (NotBefore /\ NothingLost)' BY <1>1 DEF OpenNew, NotBefore, NothingLost
  <2> QED BY <2>1, <2>2, <2>3, <2>4
<1>2. CASE WriteNew
  <2>1. LockTypeOK' BY <1>2 DEF WriteNew, LockTypeOK
  <2>2. Held' BY <1>2 DEF WriteNew, Held
  <2>3. CopyIsCurrent'
    BY <1>2 DEF WriteNew, CopyIsCurrent
  <2>4. (NotBefore /\ NothingLost)' BY <1>2 DEF WriteNew, NotBefore, NothingLost
  <2> QED BY <2>1, <2>2, <2>3, <2>4
<1>3. CASE KillScripts
  <2>1. LockTypeOK' BY <1>3 DEF KillScripts, LockTypeOK
  <2>2. (Held /\ CopyIsCurrent)' BY <1>3 DEF KillScripts, Held, CopyIsCurrent, LockTypeOK
  <2>3. (NotBefore /\ NothingLost)'
    BY <1>3 DEF KillScripts, NotBefore, NothingLost, LockTypeOK
  <2> QED BY <2>1, <2>2, <2>3
<1>4. ASSUME NEW s \in Script, Launch(s) PROVE LockInv'
  <2>1. LockTypeOK' BY <1>4 DEF Launch, LockTypeOK
  <2>2. Held' BY <1>4 DEF Launch, Held, LockTypeOK
  <2>3. CopyIsCurrent' BY <1>4 DEF Launch, CopyIsCurrent, LockTypeOK
  <2>4. (NotBefore /\ NothingLost)' BY <1>4 DEF Launch, NotBefore, NothingLost
  <2> QED BY <2>1, <2>2, <2>3, <2>4
<1>5. ASSUME NEW s \in Script, Open(s) PROVE LockInv'
  <2>1. LockTypeOK' BY <1>5 DEF Open, LockTypeOK
  <2>2. Held' BY <1>5 DEF Open, Held, LockTypeOK
  <2>3. CopyIsCurrent' BY <1>5 DEF Open, CopyIsCurrent, LockTypeOK
  <2>4. (NotBefore /\ NothingLost)' BY <1>5 DEF Open, NotBefore, NothingLost
  <2> QED BY <2>1, <2>2, <2>3, <2>4
<1>6. ASSUME NEW s \in Script, Acquire(s) PROVE LockInv'
  <2>1. LockTypeOK' BY <1>6 DEF Acquire, LockTypeOK
  <2>2. Held' BY <1>6 DEF Acquire, Held, LockTypeOK
  <2>3. CopyIsCurrent' BY <1>6 DEF Acquire, CopyIsCurrent, LockTypeOK
  <2>4. (NotBefore /\ NothingLost)' BY <1>6 DEF Acquire, NotBefore, NothingLost
  <2> QED BY <2>1, <2>2, <2>3, <2>4
<1>7. ASSUME NEW s \in Script, GiveUp(s) PROVE LockInv'
  <2>1. LockTypeOK' BY <1>7 DEF GiveUp, LockTypeOK
  <2>2. Held' BY <1>7 DEF GiveUp, Held, LockTypeOK
  <2>3. CopyIsCurrent' BY <1>7 DEF GiveUp, CopyIsCurrent, LockTypeOK
  <2>4. (NotBefore /\ NothingLost)' BY <1>7 DEF GiveUp, NotBefore, NothingLost
  <2> QED BY <2>1, <2>2, <2>3, <2>4
<1>8. ASSUME NEW s \in Script, Truncate(s) PROVE LockInv'
  <2>1. LockTypeOK' BY <1>8 DEF Truncate, LockTypeOK
  <2>2. Held' BY <1>8 DEF Truncate, Held, LockTypeOK
  <2>3. recorded \subseteq copy[s] BY <1>8 DEF Truncate, CopyIsCurrent, NothingLost
  <2>4. \A r \in Script : r # s => at[r] \notin {"holding", "writing"}
    BY <1>8 DEF Truncate, Held
  <2>5. CopyIsCurrent'
    BY <1>8, <2>3, <2>4 DEF Truncate, CopyIsCurrent, LockTypeOK
  <2>6. (NotBefore /\ NothingLost)' BY <1>8 DEF Truncate, NotBefore, NothingLost
  <2> QED BY <2>1, <2>2, <2>5, <2>6
<1>9. ASSUME NEW s \in Script, Commit(s) PROVE LockInv'
  <2>1. LockTypeOK' BY <1>9 DEF Commit, LockTypeOK
  <2>2. Held' BY <1>9 DEF Commit, Held, LockTypeOK
  <2>3. \A r \in Script : r # s => at[r] \notin {"holding", "writing"}
    BY <1>9 DEF Commit, Held
  <2>4. CopyIsCurrent' BY <1>9, <2>3 DEF Commit, CopyIsCurrent, LockTypeOK
  <2>5. NotBefore' BY <1>9 DEF Commit, NotBefore
  \* Its own fields were added to the copy when the file was emptied.
  <2>6. NothingLost' BY <1>9 DEF Commit, NothingLost, CopyIsCurrent, LockTypeOK
  <2> QED BY <2>1, <2>2, <2>4, <2>5, <2>6
<1>10. CASE UNCHANGED lockVars
  BY <1>10 DEF lockVars, LockTypeOK, Held, CopyIsCurrent, NotBefore, NothingLost
<1> QED
  BY <1>1, <1>2, <1>3, <1>4, <1>5, <1>6, <1>7, <1>8, <1>9, <1>10 DEF LockNext, LockStep

\* What ties the file, the lock and the copies of its users together
\* (metadata.py:455-485).
THEOREM LockInvariantHolds == LockSpec => []LockInv
<1>1. LockInit => LockInv BY LockInitially
<1>2. LockInv /\ [LockNext]_lockVars => LockInv' BY LockStepKeepsInvariant
<1> QED BY <1>1, <1>2, PTL DEF LockSpec

\* For any number of scripts, in any order and killed at any time, what one has
\* written back is in the file whenever the file holds an object.
THEOREM FieldsKept == LockSpec => []NothingLost
<1>1. LockInv => NothingLost BY DEF LockInv
<1> QED BY <1>1, LockInvariantHolds, PTL

\* No two scripts are between loading the object and writing it back at once
\* (metadata.py:468-472).
THEOREM OneAtATime ==
  LockSpec => [](\A s, r \in Script : at[s] \in {"holding", "writing"}
                                      /\ at[r] \in {"holding", "writing"} => s = r)
<1>1. LockInv => \A s, r \in Script : at[s] \in {"holding", "writing"}
                                   /\ at[r] \in {"holding", "writing"} => s = r
  BY DEF LockInv, Held
<1> QED BY <1>1, LockInvariantHolds, PTL

-----------------------------------------------------------------------------
(* Induction.  A set of naturals has a least element; so a set of them that  *)
(* has 0 and, with a number, the next is all of them.  Stated of a set, not  *)
(* of a formula, this can be used for any formula: that of which the set     *)
(* holds.  A function that is defined by what it is for less exists by it.   *)

\* A set of naturals that is not empty has a least element.
LEMMA LeastElement ==
  ASSUME NEW T \in SUBSET Nat, T # {}
  PROVE  \E x \in T : \A y \in T : x <= y
<1> DEFINE R == OpToRel(<, Nat)
<1>1. IsWellFoundedOn(R, Nat)
  BY NatLessThanWellFounded
<1>2. \A x, y \in Nat : y < x => <<y, x>> \in R
  BY DEF OpToRel
<1> HIDE DEF R
<1>3. PICK x \in T : \A y \in T : ~ (<<y, x>> \in R)
  BY <1>1, WFMin
<1>4. \A y \in T : ~ (y < x)
  BY <1>2, <1>3
<1>5. x \in Nat /\ \A y \in T : y \in Nat
  OBVIOUS
<1>6. \A y \in T : x <= y
  BY <1>4, <1>5
<1> QED BY <1>6

\* A set of naturals with zero and, with a number, the next is all of them.
LEMMA Induction ==
  ASSUME NEW T \in SUBSET Nat, 0 \in T, \A n \in T : n + 1 \in T
  PROVE  T = Nat
<1> SUFFICES ASSUME Nat \ T # {} PROVE FALSE
  OBVIOUS
<1>1. PICK x \in Nat \ T : \A y \in Nat \ T : x <= y
  BY LeastElement
<1>2. x # 0 /\ x - 1 \in Nat
  BY <1>1
<1>3. x - 1 \in T
  BY <1>1, <1>2
<1> QED BY <1>1, <1>2, <1>3

\* The greatest of a non-empty set of the first n numbers.
LEMMA MaxIs ==
  ASSUME NEW n \in Nat, NEW s \in SUBSET (1 .. n), s # {}
  PROVE  Max(s) \in s /\ \A i \in s : i <= Max(s)
<1> DEFINE T == {y \in Nat : n - y \in s}
<1>1. \A i \in s : i \in Nat /\ n - i \in Nat /\ n - (n - i) = i
  OBVIOUS
<1>2. \A i \in s : n - i \in T
  BY <1>1
<1>3. PICK x \in T : \A y \in T : x <= y
  <2> HIDE DEF T
  <2>1. T \in SUBSET Nat /\ T # {}
    BY <1>2 DEF T
  <2> QED BY <2>1, LeastElement
<1> DEFINE m == n - x
<1>4. m \in s /\ x \in Nat
  BY <1>3
<1> HIDE DEF T
<1>5. \A i \in s : x <= n - i
  BY <1>2, <1>3
<1>6. \A i \in s : i <= m
  BY <1>1, <1>4, <1>5
<1> QED BY <1>4, <1>6 DEF Max

\* A function on the sets of the first n numbers may be defined by what it is
\* without the greatest.
BySets(F, n, base, step) ==
  \A s \in SUBSET (1 .. n) :
    F[s] = IF s = {} THEN base ELSE step[<<Max(s), F[s \ {Max(s)}]>>]

LEMMA DefinedBySets ==
  ASSUME NEW V, NEW base \in V, NEW step \in [Nat \X V -> V], NEW n \in Nat
  PROVE  \E F \in [SUBSET (1 .. n) -> V] : BySets(F, n, base, step)
<1> DEFINE Is(F, k) == \A s \in SUBSET (1 .. k) :
                          F[s] = IF s = {} THEN base ELSE step[<<Max(s), F[s \ {Max(s)}]>>]
           T == {k \in Nat : \E F \in [SUBSET (1 .. k) -> V] : Is(F, k)}
<1>1. 0 \in T
  <2> DEFINE F == [s \in SUBSET (1 .. 0) |-> base]
  <2>1. F \in [SUBSET (1 .. 0) -> V]
    OBVIOUS
  <2>2. 1 .. 0 = {}
    OBVIOUS
  <2>3. \A s \in SUBSET (1 .. 0) : s = {} /\ F[s] = base
    BY <2>2
  <2> HIDE DEF F
  <2>4. Is(F, 0)
    BY <2>3
  <2> QED BY <2>1, <2>4
<1>2. ASSUME NEW k \in T PROVE k + 1 \in T
  <2>1. PICK F \in [SUBSET (1 .. k) -> V] : Is(F, k)
    BY <1>2
  <2> DEFINE m == k + 1
             rest(s) == s \ {m}
             G == [s \in SUBSET (1 .. m) |->
                     IF m \in s THEN step[<<m, F[rest(s)]>>] ELSE F[s]]
  <2>2. k \in Nat /\ m \in Nat
    BY <1>2
  <2>3. \A s \in SUBSET (1 .. m) : rest(s) \in SUBSET (1 .. k) /\ (m \notin s => s \in SUBSET (1 .. k))
    BY <2>2
  <2>4. G \in [SUBSET (1 .. m) -> V]
    BY <2>2, <2>3
  <2>5. ASSUME NEW s \in SUBSET (1 .. m), m \in s
        PROVE  Max(s) = m
    <3>1. Max(s) \in s /\ m <= Max(s)
      BY <2>2, <2>5, MaxIs
    <3>2. Max(s) \in 1 .. m
      BY <3>1
    <3> DEFINE x == Max(s)
    <3> HIDE DEF m, x
    <3>3. x \in 1 .. m /\ m <= x /\ m \in Nat
      BY <2>2, <3>1, <3>2 DEF x
    <3>4. x = m
      BY <3>3
    <3> QED BY <3>4 DEF x
  <2>6. \A s \in SUBSET (1 .. m) : G[s] = IF m \in s THEN step[<<m, F[rest(s)]>>] ELSE F[s]
    OBVIOUS
  <2>7. ASSUME NEW s \in SUBSET (1 .. m)
        PROVE  G[s] = IF s = {} THEN base ELSE step[<<Max(s), G[s \ {Max(s)}]>>]
    <3> HIDE DEF G
    <3>1. CASE m \in s
      <4>1. G[s] = step[<<m, F[rest(s)]>>] /\ s # {}
        BY <2>6, <3>1
      <4>2. rest(s) \in SUBSET (1 .. m) /\ m \notin rest(s)
        OBVIOUS
      <4>3. G[rest(s)] = F[rest(s)]
        BY <2>6, <4>2
      <4>4. Max(s) = m
        BY <2>5, <3>1
      <4> QED BY <4>1, <4>3, <4>4
    <3>2. CASE m \notin s
      <4>1. G[s] = F[s] /\ s \in SUBSET (1 .. k)
        BY <2>3, <2>6, <3>2
      <4>2. CASE s = {}
        BY <2>1, <4>1, <4>2
      <4>3. CASE s # {}
        <5>1. F[s] = step[<<Max(s), F[s \ {Max(s)}]>>]
          BY <2>1, <4>1, <4>3
        <5>2. s \ {Max(s)} \in SUBSET (1 .. m) /\ m \notin s \ {Max(s)}
          BY <3>2
        <5>3. G[s \ {Max(s)}] = F[s \ {Max(s)}]
          BY <2>6, <5>2
        <5> QED BY <4>1, <4>3, <5>1, <5>3
      <4> QED BY <4>2, <4>3
    <3> QED BY <3>1, <3>2
  <2> HIDE DEF G
  <2>8. Is(G, m)
    BY <2>7
  <2> QED BY <2>2, <2>4, <2>8
<1>3. T = Nat
  <2> HIDE DEF T
  <2>1. T \in SUBSET Nat
    BY DEF T
  <2> QED BY <1>1, <1>2, <2>1, Induction
<1> QED BY <1>3 DEF BySets

\* The first k numbers, as a set that has been defined so.
LEMMA FirstNumbers ==
  ASSUME NEW k \in Nat, k # 0
  PROVE  /\ 1 .. k # {} /\ Max(1 .. k) = k
         /\ (1 .. k) \ {k} = 1 .. k - 1
<1>1. k \in 1 .. k /\ 1 .. k \in SUBSET (1 .. k)
  OBVIOUS
<1>2. Max(1 .. k) \in 1 .. k /\ k <= Max(1 .. k)
  BY <1>1, MaxIs
<1> DEFINE x == Max(1 .. k)
<1> HIDE DEF x
<1>3. x \in 1 .. k /\ k <= x
  BY <1>2 DEF x
<1>4. x = k
  BY <1>3
<1> QED BY <1>1, <1>4 DEF x

\* What a sequence of sequences is put together from.
JoinedBy(f, ss, n) ==
  \A i \in 1 .. n : f[i] = IF i = 1 THEN ss[i] ELSE f[i - 1] \o ss[i]

LEMMA FlatIs ==
  ASSUME NEW E, NEW n \in Nat, n # 0, NEW ss \in [1 .. n -> Seq(E)]
  PROVE  \E f \in [1 .. n -> Seq(E)] : FlattenSeq(ss) = f[n] /\ JoinedBy(f, ss, n)
<1> DEFINE Some(k) == \E f \in [1 .. k -> Seq(E)] : JoinedBy(f, ss, k)
           T == {k \in Nat : k <= n => Some(k)}
           Body(f) == [i \in 1 .. n |-> IF i = 1 THEN ss[i] ELSE f[i - 1] \o ss[i]]
           C == CHOOSE f : f = Body(f)
<1>1. 0 \in T
  <2>1. [i \in 1 .. 0 |-> <<>>] \in [1 .. 0 -> Seq(E)] /\ 1 .. 0 = {}
    OBVIOUS
  <2>2. Some(0)
    BY <2>1 DEF JoinedBy
  <2> QED BY <2>2
<1>2. ASSUME NEW k \in T PROVE k + 1 \in T
  <2>1. k \in Nat /\ (k <= n => Some(k))
    <3> HIDE DEF Some
    <3> QED BY <1>2
  <2>1a. SUFFICES ASSUME k + 1 <= n PROVE Some(k + 1)
    <3> HIDE DEF Some
    <3> QED BY <2>1
  <2>1b. k <= n
    BY <2>1, <2>1a
  <2>2. PICK g \in [1 .. k -> Seq(E)] : JoinedBy(g, ss, k)
    BY <2>1, <2>1b
  <2> DEFINE f == [i \in 1 .. k + 1 |->
                     IF i <= k THEN g[i] ELSE IF i = 1 THEN ss[i] ELSE g[i - 1] \o ss[i]]
  <2>3. \A i \in 1 .. k + 1 :
          /\ i \in 1 .. n
          /\ i <= k => i \in 1 .. k
          /\ i # 1 => i - 1 \in 1 .. k + 1 /\ i - 1 \in 1 .. k
    BY <2>1, <2>1a
  <2>4. f \in [1 .. k + 1 -> Seq(E)]
    <3> SUFFICES ASSUME NEW i \in 1 .. k + 1 PROVE f[i] \in Seq(E)
      OBVIOUS
    <3>1. ss[i] \in Seq(E)
      BY <2>3
    <3>2. i <= k => g[i] \in Seq(E)
      BY <2>2, <2>3
    <3>3. i # 1 => g[i - 1] \in Seq(E)
      BY <2>2, <2>3
    <3>4. \A u, v \in Seq(E) : u \o v \in Seq(E)
      OBVIOUS
    <3> QED BY <3>1, <3>2, <3>3, <3>4, Zenon
  <2>5. \A i \in 1 .. k + 1 : f[i] = IF i <= k THEN g[i] ELSE IF i = 1 THEN ss[i] ELSE g[i - 1] \o ss[i]
    BY Zenon
  <2> HIDE DEF f
  <2>6. ASSUME NEW i \in 1 .. k + 1
        PROVE  f[i] = IF i = 1 THEN ss[i] ELSE f[i - 1] \o ss[i]
    <3>1. i # 1 => f[i - 1] = g[i - 1]
      <4>1. i # 1 => i - 1 <= k
        BY <2>1
      <4> QED BY <2>3, <2>5, <4>1, Zenon
    <3>2. CASE i <= k
      <4>1. g[i] = IF i = 1 THEN ss[i] ELSE g[i - 1] \o ss[i]
        BY <2>2, <2>3, <3>2 DEF JoinedBy
      <4> QED BY <2>5, <3>1, <3>2, <4>1, Zenon
    <3>3. CASE ~ (i <= k)
      BY <2>5, <3>1, <3>3, Zenon
    <3> QED BY <3>2, <3>3
  <2> QED BY <2>4, <2>6 DEF JoinedBy
<1> HIDE DEF Some
<1>3. T = Nat
  <2> HIDE DEF T
  <2>1. T \in SUBSET Nat
    BY DEF T
  <2> QED BY <1>1, <1>2, <2>1, Induction
<1>3a. Some(n)
  <2>1. n \in T
    <3> HIDE DEF T
    <3> QED BY <1>3
  <2> QED BY <2>1
<1>4. PICK f \in [1 .. n -> Seq(E)] : JoinedBy(f, ss, n)
  BY <1>3a DEF Some
<1>5. f = Body(f)
  <2>1. \A i \in 1 .. n : f[i] = Body(f)[i]
    BY <1>4, Zenon DEF JoinedBy
  <2> QED BY <2>1
<1>6. C = Body(C)
  BY <1>5
<1>7. FlattenSeq(ss) = C[n]
  <2>1. Len(ss) = n
    OBVIOUS
  <2> QED BY <2>1, Zenon DEF FlattenSeq
<1> HIDE DEF C
<1>8. \A i \in 1 .. n : C[i] = IF i = 1 THEN ss[i] ELSE C[i - 1] \o ss[i]
  BY <1>6, Zenon
<1> DEFINE S == {k \in Nat : \A i \in 1 .. n : i <= k => C[i] \in Seq(E)}
<1>9. 0 \in S
  OBVIOUS
<1>10. ASSUME NEW k \in S PROVE k + 1 \in S
  <2>1. k \in Nat /\ \A i \in 1 .. n : i <= k => C[i] \in Seq(E)
    BY <1>10
  <2> SUFFICES ASSUME NEW i \in 1 .. n, i <= k + 1 PROVE C[i] \in Seq(E)
    BY <2>1
  <2>2. i # 1 => i - 1 \in 1 .. n /\ i - 1 <= k
    BY <2>1
  <2>3. i # 1 => C[i - 1] \in Seq(E)
    BY <2>1, <2>2
  <2>4. ss[i] \in Seq(E)
    OBVIOUS
  <2>5. \A u, v \in Seq(E) : u \o v \in Seq(E)
    OBVIOUS
  <2> QED BY <1>8, <2>3, <2>4, <2>5, Zenon
<1>11. S = Nat
  <2> HIDE DEF S
  <2>1. S \in SUBSET Nat
    BY DEF S
  <2> QED BY <1>9, <1>10, <2>1, Induction
<1>12. C \in [1 .. n -> Seq(E)]
  <2>1. \A i \in 1 .. n : C[i] \in Seq(E)
    <3>1. n \in S
      <4> HIDE DEF S
      <4> QED BY <1>11
    <3>2. \A i \in 1 .. n : i <= n
      OBVIOUS
    <3> QED BY <3>1, <3>2
  <2>2. \A i \in 1 .. n : (IF i = 1 THEN ss[i] ELSE C[i - 1] \o ss[i]) \in Seq(E)
    BY <1>8, <2>1, Zenon
  <2>3. Body(C) \in [1 .. n -> Seq(E)]
    BY <2>2
  <2> QED BY <1>6, <2>3
<1> QED BY <1>7, <1>8, <1>12 DEF JoinedBy

\* What two sequences in a row are made of.
LEMMA ConcatRange ==
  ASSUME NEW E, NEW u \in Seq(E), NEW v \in Seq(E)
  PROVE  Range(u \o v) = Range(u) \cup Range(v)
<1>1. \A i \in 1 .. Len(u) : i \in 1 .. Len(u) + Len(v) /\ (u \o v)[i] = u[i]
  OBVIOUS
<1>2. \A i \in 1 .. Len(v) : /\ Len(u) + i \in 1 .. Len(u) + Len(v)
                             /\ (u \o v)[Len(u) + i] = v[i]
  OBVIOUS
<1>3. \A i \in 1 .. Len(u) + Len(v) :
        IF i <= Len(u) THEN i \in 1 .. Len(u) /\ (u \o v)[i] = u[i]
        ELSE i - Len(u) \in 1 .. Len(v) /\ (u \o v)[i] = v[i - Len(u)]
  OBVIOUS
<1>4. DOMAIN u = 1 .. Len(u) /\ DOMAIN v = 1 .. Len(v)
      /\ DOMAIN (u \o v) = 1 .. Len(u) + Len(v)
  OBVIOUS
<1>5. /\ Range(u) = {u[i] : i \in 1 .. Len(u)} /\ Range(v) = {v[i] : i \in 1 .. Len(v)}
      /\ Range(u \o v) = {(u \o v)[i] : i \in 1 .. Len(u) + Len(v)}
  BY <1>4, Zenon DEF Range
<1>6. ASSUME NEW x \in Range(u \o v) PROVE x \in Range(u) \cup Range(v)
  <2>1. PICK i \in 1 .. Len(u) + Len(v) : x = (u \o v)[i]
    BY <1>5
  <2> QED BY <1>3, <1>5, <2>1, Zenon
<1>7. Range(u) \subseteq Range(u \o v)
  BY <1>1, <1>5, Zenon
<1>8. Range(v) \subseteq Range(u \o v)
  BY <1>2, <1>5, Zenon
<1> QED BY <1>6, <1>7, <1>8

\* Its members are those of the sequences.
LEMMA FlatHas ==
  ASSUME NEW E, NEW n \in Nat, NEW ss \in [1 .. n -> Seq(E)]
  PROVE  /\ FlattenSeq(ss) \in Seq(E)
         /\ \A x : x \in Range(FlattenSeq(ss)) <=> \E i \in 1 .. n : x \in Range(ss[i])
<1>1. CASE n = 0
  <2>1. ss = <<>> /\ Len(ss) = 0 /\ 1 .. n = {}
    BY <1>1
  <2>2. FlattenSeq(ss) = ss
    BY <2>1, Zenon DEF FlattenSeq
  <2>3. DOMAIN <<>> = {} /\ <<>> \in Seq(E)
    OBVIOUS
  <2>4. Range(<<>>) = {}
    BY <2>3 DEF Range
  <2> QED BY <2>1, <2>2, <2>3, <2>4, Zenon
<1>2. CASE n # 0
  <2>1a. PICK f \in [1 .. n -> Seq(E)] : FlattenSeq(ss) = f[n] /\ JoinedBy(f, ss, n)
    BY <1>2, FlatIs
  <2>1. \A i \in 1 .. n : f[i] = IF i = 1 THEN ss[i] ELSE f[i - 1] \o ss[i]
    BY <2>1a DEF JoinedBy
  <2>2. \A u, v \in Seq(E) : Range(u \o v) = Range(u) \cup Range(v)
    BY ConcatRange
  <2> DEFINE Has(k) == \A x : x \in Range(f[k]) <=> \E i \in 1 .. k : x \in Range(ss[i])
             T == {k \in Nat : k + 1 <= n => Has(k + 1)}
  <2>3. 0 \in T
    <3>1. f[1] = ss[1] /\ 1 .. 0 + 1 = {1} /\ 0 + 1 = 1
      BY <1>2, <2>1
    <3> QED BY <3>1
  <2>4. ASSUME NEW k \in T PROVE k + 1 \in T
    <3>1. k \in Nat
      BY <2>4
    <3> DEFINE m == k + 1
               p == m + 1
    <3> SUFFICES ASSUME p <= n PROVE Has(p)
      BY <3>1
    <3>2. /\ m \in 1 .. n /\ p \in 1 .. n /\ p - 1 = m /\ p # 1
          /\ 1 .. p = (1 .. m) \cup {p}
      BY <3>1
    <3>3. Has(m)
      <4> HIDE DEF Has
      <4>1. m <= n
        BY <3>1
      <4> QED BY <2>4, <4>1
    <3> HIDE DEF m, p
    <3>4. f[p] = f[m] \o ss[p] /\ f[m] \in Seq(E) /\ ss[p] \in Seq(E)
      BY <2>1, <3>2
    <3>5. Range(f[p]) = Range(f[m]) \cup Range(ss[p])
      BY <2>2, <3>4
    <3> QED BY <3>2, <3>3, <3>5, Zenon
  <2>5. T = Nat
    <3> HIDE DEF T
    <3>1. T \in SUBSET Nat
      BY DEF T
    <3> QED BY <2>3, <2>4, <3>1, Induction
  <2>6. Has(n)
    <3>1. n - 1 \in T /\ (n - 1) + 1 = n /\ n <= n
      <4> HIDE DEF T
      <4> QED BY <1>2, <2>5
    <3> HIDE DEF Has
    <3> QED BY <3>1
  <2>7. n \in 1 .. n
    BY <1>2
  <2> QED BY <2>1a, <2>6, <2>7
<1> QED BY <1>1, <1>2

-----------------------------------------------------------------------------
(* The logs.  FoldLeft is defined by a recursive function on the sets of     *)
(* indices; its values for the first k lines, for each k, are the scan.      *)

\* What a line can be made of.
ScanState == [passed : BOOLEAN, failed : BOOLEAN, seen : BOOLEAN, error : Nat, at : Nat]

LEMMA ScannedType ==
  ASSUME NEW s \in ScanState, NEW line
  PROVE  Scanned(s, line) \in ScanState
BY DEF Scanned, ScanState

\* The states of a scan, line by line; the last is what FoldLeft computes.
LEMMA ScanSteps ==
  ASSUME NEW lines, NEW n \in Nat, DOMAIN lines = 1 .. n
  PROVE  \E G : /\ G[0] = ScanStart
                /\ \A k \in 1 .. n : G[k] = Scanned(G[k - 1], lines[k])
                /\ FoldLeft(Scanned, ScanStart, lines) = G[n]
<1> DEFINE Sets == SUBSET (1 .. n)
           Body(f) == [s \in Sets |-> IF s = {} THEN ScanStart
                         ELSE LET x == Max(s) IN Scanned(f[s \ {x}], lines[x])]
           C == CHOOSE f : f = Body(f)
           step == [p \in Nat \X ScanState |-> Scanned(p[2], lines[p[1]])]
<1>1. FoldLeft(Scanned, ScanStart, lines) = C[1 .. n]
  BY DEF FoldLeft, MapThenFoldSet
<1>2. step \in [Nat \X ScanState -> ScanState]
  BY ScannedType
<1>3. ScanStart \in ScanState
  BY DEF ScanStart, ScanState, NoError
<1> HIDE DEF step
<1>4a. PICK F \in [Sets -> ScanState] : BySets(F, n, ScanStart, step)
  BY <1>2, <1>3, DefinedBySets
<1>4. \A s \in Sets :
         F[s] = IF s = {} THEN ScanStart ELSE step[<<Max(s), F[s \ {Max(s)}]>>]
  BY <1>4a DEF BySets
<1>5. ASSUME NEW s \in Sets, s # {}
      PROVE  step[<<Max(s), F[s \ {Max(s)}]>>] = Scanned(F[s \ {Max(s)}], lines[Max(s)])
  <2>1. Max(s) \in s
    BY <1>5, MaxIs
  <2> DEFINE x == Max(s)
             y == F[s \ {x}]
  <2>2. x \in Nat /\ y \in ScanState
    <3>1. x \in 1 .. n /\ s \ {x} \in Sets
      BY <2>1
    <3> QED BY <1>4, <3>1
  <2> HIDE DEF x, y
  <2>3. <<x, y>> \in Nat \X ScanState
    BY <2>2
  <2>4. step[<<x, y>>] = Scanned(<<x, y>>[2], lines[<<x, y>>[1]])
    BY <2>3, Zenon DEF step
  <2>5. step[<<x, y>>] = Scanned(y, lines[x])
    BY <2>4
  <2> QED BY <2>5 DEF x, y
<1>6. F = Body(F)
  <2>1. \A s \in Sets : F[s] = Body(F)[s]
    <3> TAKE s \in Sets
    <3>1. Body(F)[s] = IF s = {} THEN ScanStart ELSE Scanned(F[s \ {Max(s)}], lines[Max(s)])
      BY Zenon
    <3> QED BY <1>4, <1>5, <3>1, Zenon
  <2>2. DOMAIN F = Sets
    OBVIOUS
  <2> QED BY <2>1, <2>2, Zenon
<1>7. C = Body(C)
  BY <1>6
<1> HIDE DEF C
<1>8. \A s \in Sets : C[s] = IF s = {} THEN ScanStart ELSE Scanned(C[s \ {Max(s)}], lines[Max(s)])
  BY <1>7, Zenon
<1> DEFINE G == [k \in 0 .. n |-> C[1 .. k]]
<1>9. G[0] = ScanStart
  <2>1. 1 .. 0 = {} /\ {} \in Sets /\ 0 \in 0 .. n
    OBVIOUS
  <2> QED BY <1>8, <2>1
<1>10. ASSUME NEW k \in 1 .. n PROVE G[k] = Scanned(G[k - 1], lines[k])
  <2>1. /\ 1 .. k \in Sets /\ k \in Nat /\ k # 0
        /\ k \in 0 .. n /\ k - 1 \in 0 .. n
    OBVIOUS
  <2>2. C[1 .. k] = Scanned(C[1 .. k - 1], lines[k])
    BY <1>8, <2>1, FirstNumbers
  <2>3. G[k] = C[1 .. k] /\ G[k - 1] = C[1 .. k - 1]
    BY <2>1
  <2> QED BY <2>2, <2>3
<1>11. G[n] = C[1 .. n]
  OBVIOUS
<1> HIDE DEF G
<1> QED BY <1>1, <1>9, <1>10, <1>11

\* Two lengths of logs that a test can have.
LEMMA ScanOne ==
  ASSUME NEW a PROVE FoldLeft(Scanned, ScanStart, <<a>>) = Scanned(ScanStart, a)
<1> DEFINE lines == <<a>>
<1>1. 1 \in Nat /\ DOMAIN lines = 1 .. 1 /\ lines[1] = a /\ 1 \in 1 .. 1 /\ 1 - 1 = 0
  OBVIOUS
<1> HIDE DEF lines
<1>2. PICK G : /\ G[0] = ScanStart
               /\ \A k \in 1 .. 1 : G[k] = Scanned(G[k - 1], lines[k])
               /\ FoldLeft(Scanned, ScanStart, lines) = G[1]
  BY <1>1, ScanSteps
<1>3. G[1] = Scanned(G[1 - 1], lines[1])
  BY <1>1, <1>2, Zenon
<1>4. FoldLeft(Scanned, ScanStart, lines) = Scanned(ScanStart, a)
  BY <1>1, <1>2, <1>3
<1> QED BY <1>4 DEF lines

LEMMA ScanTwo ==
  ASSUME NEW a, NEW b
  PROVE FoldLeft(Scanned, ScanStart, <<a, b>>) = Scanned(Scanned(ScanStart, a), b)
<1> DEFINE lines == <<a, b>>
<1>1. /\ 2 \in Nat /\ DOMAIN lines = 1 .. 2 /\ lines[1] = a /\ lines[2] = b
      /\ 1 \in 1 .. 2 /\ 2 \in 1 .. 2 /\ 1 - 1 = 0 /\ 2 - 1 = 1
  OBVIOUS
<1> HIDE DEF lines
<1>2. PICK G : /\ G[0] = ScanStart
               /\ \A k \in 1 .. 2 : G[k] = Scanned(G[k - 1], lines[k])
               /\ FoldLeft(Scanned, ScanStart, lines) = G[2]
  BY <1>1, ScanSteps
<1>3. G[1] = Scanned(G[1 - 1], lines[1]) /\ G[2] = Scanned(G[2 - 1], lines[2])
  BY <1>1, <1>2, Zenon
<1>4. FoldLeft(Scanned, ScanStart, lines) = Scanned(Scanned(ScanStart, a), b)
  BY <1>1, <1>2, <1>3
<1> QED BY <1>4 DEF lines

LEMMA Judged ==
  ASSUME NEW lines, NEW s, ReadLines(lines) = lines, FoldLeft(Scanned, ScanStart, lines) = s
  PROVE  CheckUvmLog(lines)
           = [raises |-> s.failed /\ s.error = 0, passed |-> s.passed /\ ~s.failed,
              mode |-> IF ~s.failed \/ s.error = 0 THEN "none"
                       ELSE IF lines[s.error] = "wallclock" THEN "timeout" ELSE "log"]
BY Zenon DEF CheckUvmLog, NoError

\* What check_ibex_uvm_log says of each way a simulation can end.
LEMMA Verdicts ==
  /\ UvmVerdict["pass"] = [raises |-> FALSE, passed |-> TRUE, mode |-> "none"]
  /\ UvmVerdict["badtrace"] = [raises |-> FALSE, passed |-> TRUE, mode |-> "none"]
  /\ UvmVerdict["fail"] = [raises |-> FALSE, passed |-> FALSE, mode |-> "log"]
  /\ UvmVerdict["timeout"] = [raises |-> FALSE, passed |-> FALSE, mode |-> "timeout"]
  /\ UvmVerdict["bare"] = [raises |-> TRUE, passed |-> FALSE, mode |-> "none"]
  /\ UvmVerdict["cut"] = [raises |-> FALSE, passed |-> FALSE, mode |-> "none"]
  /\ UvmVerdict["none"] = [raises |-> FALSE, passed |-> FALSE, mode |-> "none"]
<1>1. \A end \in Ends \cup {"none"} : UvmVerdict[end] = CheckUvmLog(LogLines(end))
  BY DEF UvmVerdict
<1>2. /\ ReadLines(<<"text", "passed">>) = <<"text", "passed">>
      /\ ReadLines(<<"text">>) = <<"text">>
  BY DEF ReadLines
<1>3. \A a \in {"error", "wallclock"} : ReadLines(<<a, "failed">>) = <<a, "failed">>
  <2> TAKE a \in {"error", "wallclock"}
  <2> DEFINE lines == <<a, "failed">>
  <2>1. {i \in 1 .. Len(lines) : lines[i] = "failed"} = {2} OBVIOUS
  <2>2. (CHOOSE i \in {2} : \A j \in {2} : i <= j) = 2 OBVIOUS
  <2>3. SubSeq(lines, 1, 2) = lines
    <3>1. lines \in Seq({a, "failed"}) /\ Len(lines) = 2 OBVIOUS
    <3>2. SubSeq(lines, 1, 2) \in Seq({a, "failed"}) /\ Len(SubSeq(lines, 1, 2)) = 2 BY <3>1
    <3>3. \A i \in 1 .. 2 : SubSeq(lines, 1, 2)[i] = lines[i] BY <3>1
    <3> HIDE DEF lines
    <3> QED BY <3>1, <3>2, <3>3
  <2> QED BY <2>1, <2>2, <2>3 DEF ReadLines
<1>4. ReadLines(<<"failed">>) = <<"failed">>
  <2> DEFINE lines == <<"failed">>
  <2>1. {i \in 1 .. Len(lines) : lines[i] = "failed"} = {1} OBVIOUS
  <2>2. (CHOOSE i \in {1} : \A j \in {1} : i <= j) = 1 OBVIOUS
  <2>3. SubSeq(lines, 1, 1) = lines
    <3>1. lines \in Seq({"failed"}) /\ Len(lines) = 1 OBVIOUS
    <3>2. SubSeq(lines, 1, 1) \in Seq({"failed"}) /\ Len(SubSeq(lines, 1, 1)) = 1 BY <3>1
    <3>3. \A i \in 1 .. 1 : SubSeq(lines, 1, 1)[i] = lines[i] BY <3>1
    <3> HIDE DEF lines
    <3> QED BY <3>1, <3>2, <3>3
  <2> QED BY <2>1, <2>2, <2>3 DEF ReadLines
<1>5. CheckUvmLog(<<"text", "passed">>) = [raises |-> FALSE, passed |-> TRUE, mode |-> "none"]
  <2>1. Scanned(ScanStart, "text") = [passed |-> FALSE, failed |-> FALSE, seen |-> FALSE, error |-> 0, at |-> 1 + 1]
    BY Zenon DEF Scanned, ScanStart, Markers, Results, NoError
  <2>2. Scanned([passed |-> FALSE, failed |-> FALSE, seen |-> FALSE, error |-> 0, at |-> 1 + 1], "passed")
          = [passed |-> TRUE, failed |-> FALSE, seen |-> TRUE, error |-> 0, at |-> 1 + 1 + 1]
    BY Zenon DEF Scanned, Markers, Results
  <2>3. FoldLeft(Scanned, ScanStart, <<"text", "passed">>) = [passed |-> TRUE, failed |-> FALSE, seen |-> TRUE, error |-> 0, at |-> 1 + 1 + 1]
    BY <2>1, <2>2, ScanTwo, Zenon
  <2>5. ReadLines(<<"text", "passed">>) = <<"text", "passed">> BY <1>2
  <2> DEFINE s == [passed |-> TRUE, failed |-> FALSE, seen |-> TRUE, error |-> 0, at |-> 1 + 1 + 1]
  <2>6. s.passed = TRUE /\ s.failed = FALSE /\ s.error = 0 BY Zenon
  <2>7. FoldLeft(Scanned, ScanStart, <<"text", "passed">>) = s BY <2>3, Zenon
  <2> HIDE DEF s
  <2> QED BY <2>5, <2>6, <2>7, Judged, Zenon
<1>6. CheckUvmLog(<<"text">>) = [raises |-> FALSE, passed |-> FALSE, mode |-> "none"]
  <2>1. Scanned(ScanStart, "text") = [passed |-> FALSE, failed |-> FALSE, seen |-> FALSE, error |-> 0, at |-> 1 + 1]
    BY Zenon DEF Scanned, ScanStart, Markers, Results, NoError
  <2>2. FoldLeft(Scanned, ScanStart, <<"text">>) = [passed |-> FALSE, failed |-> FALSE, seen |-> FALSE, error |-> 0, at |-> 1 + 1]
    BY <2>1, ScanOne, Zenon
  <2>5. ReadLines(<<"text">>) = <<"text">> BY <1>2
  <2> DEFINE s == [passed |-> FALSE, failed |-> FALSE, seen |-> FALSE, error |-> 0, at |-> 1 + 1]
  <2>6. s.passed = FALSE /\ s.failed = FALSE /\ s.error = 0 BY Zenon
  <2>7. FoldLeft(Scanned, ScanStart, <<"text">>) = s BY <2>2, Zenon
  <2> HIDE DEF s
  <2> QED BY <2>5, <2>6, <2>7, Judged, Zenon
<1>7. CheckUvmLog(<<"failed">>) = [raises |-> TRUE, passed |-> FALSE, mode |-> "none"]
  <2>1. Scanned(ScanStart, "failed") = [passed |-> FALSE, failed |-> TRUE, seen |-> TRUE, error |-> 0, at |-> 1 + 1]
    BY Zenon DEF Scanned, ScanStart, Markers, Results, NoError
  <2>2. FoldLeft(Scanned, ScanStart, <<"failed">>) = [passed |-> FALSE, failed |-> TRUE, seen |-> TRUE, error |-> 0, at |-> 1 + 1]
    BY <2>1, ScanOne, Zenon
  <2>5. ReadLines(<<"failed">>) = <<"failed">> BY <1>4
  <2> DEFINE s == [passed |-> FALSE, failed |-> TRUE, seen |-> TRUE, error |-> 0, at |-> 1 + 1]
  <2>6. s.passed = FALSE /\ s.failed = TRUE /\ s.error = 0 BY Zenon
  <2>7. FoldLeft(Scanned, ScanStart, <<"failed">>) = s BY <2>2, Zenon
  <2> HIDE DEF s
  <2> QED BY <2>5, <2>6, <2>7, Judged, Zenon
<1>8. CheckUvmLog(<<"error", "failed">>) = [raises |-> FALSE, passed |-> FALSE, mode |-> "log"]
  <2>1. Scanned(ScanStart, "error") = [passed |-> FALSE, failed |-> TRUE, seen |-> FALSE, error |-> 1, at |-> 1 + 1]
    BY Zenon DEF Scanned, ScanStart, Markers, Results, NoError
  <2>2. Scanned([passed |-> FALSE, failed |-> TRUE, seen |-> FALSE, error |-> 1, at |-> 1 + 1], "failed")
          = [passed |-> FALSE, failed |-> TRUE, seen |-> TRUE, error |-> 1, at |-> 1 + 1 + 1]
    BY Zenon DEF Scanned, Markers, Results
  <2>3. FoldLeft(Scanned, ScanStart, <<"error", "failed">>) = [passed |-> FALSE, failed |-> TRUE, seen |-> TRUE, error |-> 1, at |-> 1 + 1 + 1]
    BY <2>1, <2>2, ScanTwo, Zenon
  <2>4. <<"error", "failed">>[1] = "error" /\ 1 # 0 OBVIOUS
  <2>5. ReadLines(<<"error", "failed">>) = <<"error", "failed">> BY <1>3
  <2> DEFINE s == [passed |-> FALSE, failed |-> TRUE, seen |-> TRUE, error |-> 1, at |-> 1 + 1 + 1]
  <2>6. s.passed = FALSE /\ s.failed = TRUE /\ s.error = 1 BY Zenon
  <2>7. FoldLeft(Scanned, ScanStart, <<"error", "failed">>) = s BY <2>3, Zenon
  <2> HIDE DEF s
  <2> QED BY <2>5, <2>6, <2>7, <2>4, Judged, Zenon
<1>9. CheckUvmLog(<<"wallclock", "failed">>) = [raises |-> FALSE, passed |-> FALSE, mode |-> "timeout"]
  <2>1. Scanned(ScanStart, "wallclock") = [passed |-> FALSE, failed |-> TRUE, seen |-> FALSE, error |-> 1, at |-> 1 + 1]
    BY Zenon DEF Scanned, ScanStart, Markers, Results, NoError
  <2>2. Scanned([passed |-> FALSE, failed |-> TRUE, seen |-> FALSE, error |-> 1, at |-> 1 + 1], "failed")
          = [passed |-> FALSE, failed |-> TRUE, seen |-> TRUE, error |-> 1, at |-> 1 + 1 + 1]
    BY Zenon DEF Scanned, Markers, Results
  <2>3. FoldLeft(Scanned, ScanStart, <<"wallclock", "failed">>) = [passed |-> FALSE, failed |-> TRUE, seen |-> TRUE, error |-> 1, at |-> 1 + 1 + 1]
    BY <2>1, <2>2, ScanTwo, Zenon
  <2>4. <<"wallclock", "failed">>[1] = "wallclock" /\ 1 # 0 OBVIOUS
  <2>5. ReadLines(<<"wallclock", "failed">>) = <<"wallclock", "failed">> BY <1>3
  <2> DEFINE s == [passed |-> FALSE, failed |-> TRUE, seen |-> TRUE, error |-> 1, at |-> 1 + 1 + 1]
  <2>6. s.passed = FALSE /\ s.failed = TRUE /\ s.error = 1 BY Zenon
  <2>7. FoldLeft(Scanned, ScanStart, <<"wallclock", "failed">>) = s BY <2>3, Zenon
  <2> HIDE DEF s
  <2> QED BY <2>5, <2>6, <2>7, <2>4, Judged, Zenon
<1>10. /\ LogLines("pass") = <<"text", "passed">> /\ LogLines("badtrace") = <<"text", "passed">>
       /\ LogLines("fail") = <<"error", "failed">>
       /\ LogLines("timeout") = <<"wallclock", "failed">>
       /\ LogLines("bare") = <<"failed">>
       /\ LogLines("cut") = <<"text">> /\ LogLines("none") = <<"text">>
  BY DEF LogLines
<1> QED BY <1>1, <1>5, <1>6, <1>7, <1>8, <1>9, <1>10 DEF Ends

\* A trace is usable if it has an instruction before the ecall.
LEMMA Traces == HasTrace = Ends \ {"badtrace"}
<1>1. TraceUsable(<<"instr", "ecall">>)
  <2> DEFINE lines == <<"instr", "ecall">>
  <2>1. 1 \in 1 .. Len(lines) /\ lines[1] = "instr" /\ \A j \in 1 .. 1 : lines[j] # "ecall"
    OBVIOUS
  <2> QED BY <2>1 DEF TraceUsable
<1>2. ~TraceUsable(<<"text">>) BY DEF TraceUsable
<1> QED BY <1>1, <1>2 DEF HasTrace, TraceLines, Ends

\* What is read of a log, the lines up to the first that says FAILED.
LEMMA ReadLinesAre ==
  ASSUME NEW lines \in Seq(LogLine)
  PROVE  LET read == ReadLines(lines) IN
         /\ read \in Seq(LogLine) /\ Len(read) <= Len(lines)
         /\ \A i \in 1 .. Len(read) : read[i] = lines[i]
         /\ \/ /\ read = lines
               /\ \A i \in 1 .. Len(lines) : lines[i] # "failed"
            \/ /\ Len(read) \in 1 .. Len(lines) /\ lines[Len(read)] = "failed"
               /\ \A i \in 1 .. Len(read) - 1 : lines[i] # "failed"
<1> DEFINE read == ReadLines(lines)
           ends == {i \in 1 .. Len(lines) : lines[i] = "failed"}
           first == CHOOSE i \in ends : \A j \in ends : i <= j
<1>1. CASE ends = {}
  BY <1>1 DEF ReadLines
<1>2. CASE ends # {}
  <2>1. ends \in SUBSET Nat
    OBVIOUS
  <2>2. first \in ends /\ \A j \in ends : first <= j
    <3> HIDE DEF ends
    <3>1. \E i \in ends : \A j \in ends : i <= j
      BY <1>2, <2>1, LeastElement
    <3> QED BY <3>1
  <2>3. read = SubSeq(lines, 1, first)
    BY <1>2 DEF ReadLines
  <2> HIDE DEF first, read
  <2>4. /\ first \in 1 .. Len(lines) /\ lines[first] = "failed"
        /\ \A j \in 1 .. first - 1 : lines[j] # "failed"
    BY <2>2
  <2>5. /\ read \in Seq(LogLine) /\ Len(read) = first
        /\ \A i \in 1 .. first : read[i] = lines[i]
    BY <2>3, <2>4
  <2>6. /\ read \in Seq(LogLine) /\ Len(read) <= Len(lines)
        /\ \A i \in 1 .. Len(read) : read[i] = lines[i]
        /\ Len(read) \in 1 .. Len(lines) /\ lines[Len(read)] = "failed"
        /\ \A i \in 1 .. Len(read) - 1 : lines[i] # "failed"
    BY <2>4, <2>5
  <2> QED BY <2>6 DEF read
<1> QED BY <1>1, <1>2

\* A line that marks an error and comes before any result.
Marks(lines, i) ==
  lines[i] \in Markers /\ \A j \in 1 .. i - 1 : lines[j] \notin Results

\* What the scan knows after k lines.
ScanKnows(lines, s, k) ==
  /\ s \in ScanState /\ s.at = k + 1
  /\ s.passed <=> \E i \in 1 .. k : lines[i] = "passed"
  /\ s.seen <=> \E i \in 1 .. k : lines[i] \in Results
  /\ s.failed <=> \E i \in 1 .. k : lines[i] = "failed" \/ Marks(lines, i)
  /\ s.error \in 0 .. k
  /\ s.error = 0 => \A i \in 1 .. k : ~Marks(lines, i)
  /\ s.error # 0 => Marks(lines, s.error)

\* One more line.
LEMMA ScanKnowsMore ==
  ASSUME NEW lines, NEW k \in Nat, NEW s, ScanKnows(lines, s, k)
  PROVE  ScanKnows(lines, Scanned(s, lines[k + 1]), k + 1)
<1> DEFINE line == lines[k + 1]
           t == Scanned(s, line)
<1>1. Marks(lines, k + 1) <=> line \in Markers /\ ~s.seen
  BY DEF Marks, ScanKnows
<1>2. s \in ScanState /\ s.at = k + 1 /\ t \in ScanState
  BY ScannedType DEF ScanKnows
<1>3. /\ t.at = s.at + 1
      /\ t.passed <=> s.passed \/ line = "passed"
      /\ t.seen <=> s.seen \/ line \in Results
      /\ t.failed <=> s.failed \/ line = "failed" \/ Marks(lines, k + 1)
      /\ t.error = IF Marks(lines, k + 1) THEN k + 1 ELSE s.error
  <2> HIDE DEF line
  <2>1. /\ t.passed = (s.passed \/ line = "passed")
        /\ t.failed = (s.failed \/ (line \in Markers /\ ~s.seen) \/ line = "failed")
        /\ t.seen = (s.seen \/ line \in Results)
        /\ t.error = IF line \in Markers /\ ~s.seen THEN s.at ELSE s.error
        /\ t.at = s.at + 1
    BY Zenon DEF Scanned
  <2>2. t.error = IF Marks(lines, k + 1) THEN k + 1 ELSE s.error
    BY <1>1, <1>2, <2>1
  <2> QED BY <1>1, <2>1, <2>2, Zenon
<1> HIDE DEF t, line
<1>4. 1 .. k + 1 = (1 .. k) \cup {k + 1}
  OBVIOUS
<1>5. /\ t.at = (k + 1) + 1
      /\ t.passed <=> \E i \in 1 .. k + 1 : lines[i] = "passed"
      /\ t.seen <=> \E i \in 1 .. k + 1 : lines[i] \in Results
  BY <1>2, <1>3, <1>4 DEF ScanKnows, line
<1>6. t.failed <=> \E i \in 1 .. k + 1 : lines[i] = "failed" \/ Marks(lines, i)
  BY <1>3, <1>4 DEF ScanKnows, line
<1>7. /\ t.error \in 0 .. k + 1
      /\ t.error = 0 => \A i \in 1 .. k + 1 : ~Marks(lines, i)
      /\ t.error # 0 => Marks(lines, t.error)
  <2>1. s.error \in 0 .. k
    BY DEF ScanKnows
  <2>2. CASE Marks(lines, k + 1)
    BY <1>3, <2>2
  <2>3. CASE ~Marks(lines, k + 1)
    BY <1>3, <1>4, <2>1, <2>3 DEF ScanKnows
  <2> QED BY <2>2, <2>3
<1> QED BY <1>2, <1>5, <1>6, <1>7 DEF ScanKnows, t, line

\* The end of the scan, of any log.
LEMMA ScanEnds ==
  ASSUME NEW lines, NEW n \in Nat, DOMAIN lines = 1 .. n
  PROVE  ScanKnows(lines, FoldLeft(Scanned, ScanStart, lines), n)
<1>1. PICK G : /\ G[0] = ScanStart
               /\ \A k \in 1 .. n : G[k] = Scanned(G[k - 1], lines[k])
               /\ FoldLeft(Scanned, ScanStart, lines) = G[n]
  BY ScanSteps
<1> DEFINE T == {k \in Nat : k <= n => ScanKnows(lines, G[k], k)}
<1>2. 0 \in T
  <2>1. ScanKnows(lines, ScanStart, 0)
    BY DEF ScanKnows, ScanStart, ScanState, NoError
  <2> QED BY <1>1, <2>1
<1>3. ASSUME NEW k \in T PROVE k + 1 \in T
  <2>1. k \in Nat
    BY <1>3
  <2>2. ASSUME k + 1 <= n PROVE ScanKnows(lines, G[k + 1], k + 1)
    <3>1. k + 1 \in 1 .. n /\ (k + 1) - 1 = k /\ ScanKnows(lines, G[k], k)
      BY <1>3, <2>1, <2>2
    <3>2. G[k + 1] = Scanned(G[k], lines[k + 1])
      BY <1>1, <3>1
    <3> QED BY <2>1, <3>1, <3>2, ScanKnowsMore
  <2> QED BY <2>1, <2>2
<1>4. T = Nat
  <2>1. T \in SUBSET Nat
    OBVIOUS
  <2> HIDE DEF T
  <2> QED BY <1>2, <1>3, <2>1, Induction
<1>5. n \in T
  BY <1>4
<1> QED BY <1>1, <1>5

\* The verdict on any log.
LEMMA LogIsJudged ==
  ASSUME NEW lines \in Seq(LogLine)
  PROVE  /\ CheckUvmLog(lines).passed <=> Passes(lines)
         /\ CheckUvmLog(lines).raises <=>
              /\ \E i \in 1 .. Len(lines) : lines[i] = "failed"
              /\ \A i \in 1 .. Len(lines) :
                   (\A j \in 1 .. i - 1 : lines[j] \notin Results) => lines[i] \notin Markers
<1> DEFINE n == Len(lines)
           read == ReadLines(lines)
           m == Len(read)
           s == FoldLeft(Scanned, ScanStart, read)
<1>1. n \in Nat /\ \A i \in 1 .. n : lines[i] \in LogLine
  BY ElementOfSeq
<1>2. /\ read \in Seq(LogLine) /\ m <= n
      /\ \A i \in 1 .. m : read[i] = lines[i]
      /\ \/ /\ read = lines
            /\ \A i \in 1 .. n : lines[i] # "failed"
         \/ /\ m \in 1 .. n /\ lines[m] = "failed"
            /\ \A i \in 1 .. m - 1 : lines[i] # "failed"
  BY ReadLinesAre
<1>3. m \in Nat /\ DOMAIN read = 1 .. m
  BY <1>2
<1>4. ScanKnows(read, s, m)
  BY <1>3, ScanEnds
<1>5. /\ CheckUvmLog(lines).passed <=> s.passed /\ ~s.failed
      /\ CheckUvmLog(lines).raises <=> s.failed /\ s.error = 0
  BY Zenon DEF CheckUvmLog, NoError
<1> HIDE DEF s, m, read, n
<1>6. \A i \in 1 .. m : Marks(read, i) <=> Marks(lines, i)
  <2> TAKE i \in 1 .. m
  <2>1. \A j \in 1 .. i - 1 : read[j] = lines[j]
    BY <1>2, <1>3
  <2> QED BY <1>2, <2>1 DEF Marks
<1>7. ASSUME NEW i \in 1 .. n, Marks(lines, i) PROVE i \in 1 .. m
  <2>1. CASE read = lines
    BY <2>1 DEF m, n
  <2>2. CASE m \in 1 .. n /\ lines[m] = "failed"
    <3>1. m \notin 1 .. i - 1
      BY <1>7, <2>2 DEF Marks, Results
    <3> QED BY <1>1, <1>3, <2>2, <3>1
  <2> QED BY <1>2, <2>1, <2>2
<1>8. (\E i \in 1 .. m : Marks(read, i)) <=> (\E i \in 1 .. n : Marks(lines, i))
  <2>1. \A i \in 1 .. m : i \in 1 .. n
    BY <1>1, <1>2, <1>3
  <2> QED BY <1>6, <1>7, <2>1
<1>9. (\E i \in 1 .. m : read[i] = "failed") <=> (\E i \in 1 .. n : lines[i] = "failed")
  <2>1. CASE read = lines
    BY <2>1 DEF m, n
  <2>2. CASE m \in 1 .. n /\ lines[m] = "failed"
    <3>1. m \in 1 .. m
      BY <1>1, <2>2
    <3> QED BY <1>2, <2>2, <3>1
  <2> QED BY <1>2, <2>1, <2>2
<1>10. s.failed <=> \/ \E i \in 1 .. n : lines[i] = "failed"
                    \/ \E i \in 1 .. n : Marks(lines, i)
  BY <1>4, <1>8, <1>9 DEF ScanKnows
<1>11. s.error = 0 <=> \A i \in 1 .. n : ~Marks(lines, i)
  <2>1. s.error = 0 <=> \A i \in 1 .. m : ~Marks(read, i)
    BY <1>4 DEF ScanKnows
  <2> QED BY <1>8, <2>1
<1>12. s.passed /\ ~s.failed <=> Passes(lines)
  <2>1. ASSUME s.passed, ~s.failed PROVE Passes(lines)
    <3> DEFINE T == {i \in 1 .. n : lines[i] = "passed"}
    <3>1. \A i \in 1 .. n : lines[i] # "failed" /\ ~Marks(lines, i)
      BY <1>10, <2>1
    <3>2. read = lines /\ m = n
      <4>1. read = lines
        BY <1>2, <3>1
      <4> QED BY <4>1 DEF m, n
    <3>3. T \in SUBSET Nat /\ T # {}
      BY <1>4, <2>1, <3>2 DEF ScanKnows
    <3> HIDE DEF T
    <3>4. PICK i \in T : \A j \in T : i <= j
      BY <3>3, LeastElement
    <3>5. i \in 1 .. n /\ lines[i] = "passed"
      BY DEF T
    <3>6. \A j \in 1 .. i - 1 : j \in 1 .. n /\ lines[j] \notin Results
      <4> TAKE j \in 1 .. i - 1
      <4>1. j \in 1 .. n /\ ~(i <= j)
        BY <1>1, <3>5
      <4>2. lines[j] # "passed"
        BY <3>4, <4>1 DEF T
      <4> QED BY <3>1, <4>1, <4>2 DEF Results
    <3>7. \A j \in 1 .. i - 1 : lines[j] = "text"
      <4> TAKE j \in 1 .. i - 1
      <4>1. \A k \in 1 .. j - 1 : k \in 1 .. i - 1
        BY <1>1, <3>5
      <4>2. lines[j] \notin Markers
        BY <3>1, <3>6, <4>1 DEF Marks
      <4>3. lines[j] \in LogLine /\ lines[j] \notin Results
        BY <1>1, <3>6
      <4> QED BY <4>2, <4>3 DEF LogLine, Markers, Results
    <3> QED BY <3>1, <3>5, <3>7 DEF Passes, n
  <2>2. ASSUME Passes(lines) PROVE s.passed /\ ~s.failed
    <3>1. PICK i \in 1 .. n : /\ lines[i] = "passed"
                              /\ \A j \in 1 .. i - 1 : lines[j] = "text"
                              /\ \A j \in 1 .. n : lines[j] # "failed"
      BY <2>2 DEF Passes, n
    <3>2. read = lines /\ m = n
      <4>1. read = lines
        BY <1>2, <3>1
      <4> QED BY <4>1 DEF m, n
    <3>3. s.passed
      BY <1>4, <3>1, <3>2 DEF ScanKnows
    <3>4. ASSUME NEW j \in 1 .. n PROVE ~Marks(lines, j)
      <4>1. CASE j < i
        BY <1>1, <3>1, <4>1 DEF Marks, Markers
      <4>2. CASE j = i
        BY <3>1, <4>2 DEF Marks, Markers
      <4>3. CASE i < j
        <5>1. i \in 1 .. j - 1
          BY <1>1, <4>3
        <5> QED BY <3>1, <5>1 DEF Marks, Results
      <4> QED BY <1>1, <4>1, <4>2, <4>3
    <3> QED BY <1>10, <3>1, <3>3, <3>4
  <2> QED BY <2>1, <2>2
<1>13. CheckUvmLog(lines).raises <=>
         /\ \E i \in 1 .. n : lines[i] = "failed"
         /\ \A i \in 1 .. n :
              (\A j \in 1 .. i - 1 : lines[j] \notin Results) => lines[i] \notin Markers
  BY <1>5, <1>10, <1>11 DEF Marks
<1> QED BY <1>5, <1>12, <1>13 DEF n

-----------------------------------------------------------------------------
(* The targets and the rules.                                               *)

Yaml(t) == <<"yaml", t>>
Log(t) == <<"log", t>>
Regr == Of("regr")

LEMMA Targets ==
  /\ \A s \in Script : Of(s) \in Target /\ Of(s)[1] = s /\ Of(s) \notin TestTarget
  /\ \A t \in Test : /\ Yaml(t) \in TestTarget /\ Yaml(t) \in Target
                     /\ Yaml(t)[1] = "yaml" /\ Yaml(t)[2] = t
                     /\ Log(t) \in TestTarget /\ Log(t) \in Target
                     /\ Log(t)[1] = "log" /\ Log(t)[2] = t
                     /\ <<"bin", t>> \in TestTarget /\ <<"bin", t>> \in Target
                     /\ <<"asm", t>> \in TestTarget
  /\ \A x \in Target : \/ \E s \in Script : x = Of(s)
                       \/ \E t \in Test : x \in {<<"asm", t>>, <<"bin", t>>, Log(t), Yaml(t)}
BY RegressionAssumption DEF Target, TestTarget, Of, Yaml, Log

LEMMA Rules ==
  /\ Needs(Of("core")) = {} /\ Needs(Of("tb")) = {} /\ Needs(Of("ig")) = {Of("core")}
  /\ Needs(Of("fcov")) = {Yaml(t) : t \in Test} /\ Needs(Of("cov")) = {Of("fcov")}
  /\ Needs(Regr) = {Of("cov")} \cup {Yaml(t) : t \in Test}
  /\ \A t \in Test : /\ Needs(<<"asm", t>>) = {Of("ig")}
                     /\ Needs(<<"bin", t>>) = {<<"asm", t>>} \cap Target
                     /\ Needs(Log(t)) = {Of("tb"), <<"bin", t>>}
                     /\ Needs(Yaml(t)) = {Log(t)}
BY DEF Needs, Of, Yaml, Log, Regr

\* What a target is made from is a target, and not itself.
LEMMA NeedsAreOthers == \A x \in Target : Needs(x) \subseteq Target /\ x \notin Needs(x)
<1> SUFFICES ASSUME NEW x \in Target PROVE Needs(x) \subseteq Target /\ x \notin Needs(x)
  OBVIOUS
<1>1. CASE \E s \in Script : x = Of(s)
  <2> PICK s \in Script : x = Of(s) BY <1>1
  <2>1. s \in {"core", "ig", "tb", "fcov", "cov", "regr"} BY RegressionAssumption
  <2>2. Needs(x) \subseteq Target
    <3> DEFINE yamls == {Yaml(t) : t \in Test}
    <3>5. yamls \subseteq Target
      <4>1. \A t \in Test : Yaml(t) \in Target BY Targets
      <4> QED BY <4>1, Zenon
    <3>6. Needs(Of("fcov")) = yamls /\ Needs(Regr) = {Of("cov")} \cup yamls BY Rules
    <3> HIDE DEF yamls
    <3>1. CASE s \in {"core", "tb", "ig"} BY <3>1, Rules, Targets, RegressionAssumption
    <3>2. CASE s = "fcov" BY <3>2, <3>5, <3>6
    <3>3. CASE s = "cov" BY <3>3, Rules, Targets, RegressionAssumption
    <3>4. CASE s = "regr" BY <3>4, <3>5, <3>6, Targets, RegressionAssumption DEF Regr
    <3> QED BY <2>1, <3>1, <3>2, <3>3, <3>4
  <2>3. x \notin Needs(x) BY <2>1, Rules, Targets, RegressionAssumption DEF Regr, Of, Yaml
  <2> QED BY <2>2, <2>3
<1>2. CASE \E t \in Test : x \in {<<"asm", t>>, <<"bin", t>>, Log(t), Yaml(t)}
  <2> PICK t \in Test : x \in {<<"asm", t>>, <<"bin", t>>, Log(t), Yaml(t)} BY <1>2
  <2>1. CASE x = <<"asm", t>>
    <3>1. Needs(x) = {Of("ig")} BY <2>1, Rules
    <3> QED BY <3>1, <2>1, Targets, RegressionAssumption DEF Of
  <2>2. CASE x = <<"bin", t>>
    <3>1. Needs(x) = {<<"asm", t>>} \cap Target BY <2>2, Rules
    <3> QED BY <3>1, <2>2
  <2>3. CASE x = Log(t)
    <3>1. Needs(x) = {Of("tb"), <<"bin", t>>} BY <2>3, Rules
    <3>2. Needs(x) \subseteq Target BY <3>1, Targets, RegressionAssumption
    <3>3. x \notin Needs(x) BY <3>1, <2>3 DEF Of, Log
    <3> QED BY <3>2, <3>3
  <2>4. CASE x = Yaml(t)
    <3>1. Needs(x) = {Log(t)} BY <2>4, Rules
    <3> QED BY <3>1, <2>4, Targets DEF Log, Yaml
  <2> QED BY <2>1, <2>2, <2>3, <2>4
<1> QED BY <1>1, <1>2, Targets

\* A kept target is not old, and what it is made from is kept; one whose
\* prerequisites are all kept is kept unless it is old itself.
LEMMA Kept ==
  /\ UpToDate \cap old = {}
  /\ \A x \in UpToDate : x \in Target /\ Needs(x) \subseteq UpToDate
  /\ \A x \in Target : Needs(x) \subseteq UpToDate /\ x \notin old => x \in UpToDate
<1>1. UpToDate \cap old = {} /\ \A x \in UpToDate : x \in Target /\ Needs(x) \subseteq UpToDate
  BY DEF UpToDate
<1>2. ASSUME NEW x \in Target, Needs(x) \subseteq UpToDate, x \notin old PROVE x \in UpToDate
  <2> DEFINE K == UpToDate \cup {x}
  <2>1. K \in SUBSET (Target \ old) BY <1>1, <1>2
  <2>2. \A y \in K : Needs(y) \subseteq K BY <1>1, <1>2
  <2> QED BY <2>1, <2>2 DEF UpToDate
<1> QED BY <1>1, <1>2

-----------------------------------------------------------------------------
(* The invariant.                                                           *)

MakeOK ==
  make \in [phase : {"off", "create", "on", "failing"},
            exit : {"none", "ok", "failed", "killed"},
            cov : BOOLEAN, starts : 0 .. MaxMakes, edits : 0 .. MaxEdits]

TargetsOK ==
  st \in [Target -> {"unseen", "kept", "running", "made", "failed"}] /\ old \subseteq Target

Records ==
  [state : {"absent", "torn", "whole"}, passed : {"none", "no", "yes"},
   mode : {"none", "timeout", "file", "log"}]
Histories == [sims : 0 .. 2, judged : BOOLEAN, cut : BOOLEAN]

TestsOK ==
  /\ trr \in [Test -> Records]
  /\ log \in [Test -> Ends \cup {"none"}]
  /\ asm \subseteq Test
  /\ report \in [Test -> {"none", "PASS", "FAILED", "FAILED {T}"}]
  /\ hist \in [Test -> Histories]

\* make has an exit status only after it has ended.
ExitAfterEnd == make.exit # "none" => make.phase = "off"

NoHistory(h) == h.sims = 0 /\ ~h.judged /\ ~h.cut

\* Until the metadata is there nothing is made and no test has a history.
BeforeMetadata ==
  md.state = "absent" =>
    /\ old = Target /\ \A t \in Test : NoHistory(hist[t])
    /\ \A x \in Target : st[x] # "running"
    /\ make.phase \in {"off", "create"}

\* What is running or finished is made from what is finished.
MadeInOrder ==
  \A x \in Target : st[x] \in {"running", "made", "kept"} => \A y \in Needs(x) : Finished(y)

\* What is finished is not old, but for an assembly or a log whose maker failed
\* quietly.
FinishedIsUpToDate ==
  make.phase # "off" => \A x \in Target : Finished(x) /\ x[1] \notin {"asm", "log"} => x \notin old

\* The report that is made, or is next to be made, is old.
ReportIsDue ==
  st[Regr] = "running" \/ (st[Regr] = "unseen" /\ \A y \in Needs(Regr) : Finished(y))
    => Regr \in old

\* No script of a test runs that could not load its record.
RunsLoaded ==
  \A t \in Test : md.state # "absent" /\ ~Loadable(t) =>
    \A x \in TestTarget \cap Target : x[2] = t => st[x] # "running"

\* Something of the test is still to be made, and with it the report.
Behind(t) ==
  \E x \in TestTarget \cap Target :
    x[2] = t /\ x \in old /\ ~Finished(x) /\ (x[1] = "asm" => ~Loadable(t))

\* A report that is not old says of all tests that they passed, as their
\* records do if nothing of the test is to be made; one that is being written
\* says what they say.
ReportIsCurrent ==
  /\ Regr \notin old =>
       \A t \in Test : report[t] = "PASS" /\ ((Loadable(t) /\ trr[t].passed = "yes") \/ Behind(t))
  /\ st[Regr] = "running" /\ at["regr"] \in {"writing", "committed"} /\ AllRecorded =>
       \A t \in Test : report[t] = Verdict(t)

NotSimulated(t) ==
  hist[t].sims = 0 =>
    /\ Log(t) \in old /\ st[Log(t)] \in {"unseen", "failed"}
    /\ trr[t].passed # "yes" /\ trr[t].mode = "none" /\ ~hist[t].judged

\* A record that says something of a test that was simulated once says it of
\* the log that is there, and that log is not being written.
SimulatedOnce(t) ==
  hist[t].sims = 1 =>
    /\ trr[t].passed = "yes" => log[t] = "pass" /\ st[Log(t)] # "running"
    /\ trr[t].mode = "timeout" => log[t] \in {"cut", "timeout", "none"} /\ st[Log(t)] # "running"
    /\ hist[t].judged => /\ Loadable(t) /\ log[t] = "pass" => trr[t].passed = "yes"
                         /\ st[Log(t)] # "running"

TestInv(t) == NotSimulated(t) /\ SimulatedOnce(t)

RegInv ==
  /\ MakeOK /\ TargetsOK /\ TestsOK
  /\ MetadataImpliesTests /\ ExitAfterEnd /\ BeforeMetadata
  /\ MadeInOrder /\ FinishedIsUpToDate /\ RunsLoaded /\ ReportIsDue /\ ReportIsCurrent
  /\ \A t \in Test : TestInv(t)
  /\ PassIsEarned

LEMMA Initially == Init => RegInv
<1> SUFFICES ASSUME Init PROVE RegInv
  OBVIOUS
<1> USE DEF Init
<1>1. MakeOK BY RegressionAssumption DEF MakeOK
<1>2. TargetsOK BY DEF TargetsOK
<1>3. TestsOK BY DEF TestsOK, Records, Histories, NoRecord, Record
<1>4. md.state = "absent" BY DEF LockInit, File
<1>5. MetadataImpliesTests /\ ExitAfterEnd BY <1>4 DEF MetadataImpliesTests, ExitAfterEnd
<1>6. BeforeMetadata BY DEF BeforeMetadata, NoHistory
<1>7. MadeInOrder /\ FinishedIsUpToDate BY DEF MadeInOrder, FinishedIsUpToDate
<1>7a. RunsLoaded BY <1>4 DEF RunsLoaded
<1>8. Regr \in Target /\ \A t \in Test : Log(t) \in Target
  BY Targets, RegressionAssumption DEF Regr
<1>9. ReportIsDue /\ ReportIsCurrent BY <1>8 DEF ReportIsDue, ReportIsCurrent
<1>10. \A t \in Test : TestInv(t)
  BY <1>8 DEF TestInv, NotSimulated, SimulatedOnce, NoRecord, Record
<1>11. PassIsEarned BY DEF PassIsEarned
<1> QED BY <1>1, <1>2, <1>3, <1>5, <1>6, <1>7, <1>7a, <1>9, <1>10, <1>11 DEF RegInv

-----------------------------------------------------------------------------
(* What a step of make or a script may do.                                  *)

\* To the targets: a target is begun only when what it is made from is
\* finished, nothing begins before there is metadata, and no script of a test
\* before its record can be loaded.
StMoves ==
  \A x \in Target : st'[x] # st[x] =>
    /\ md.state # "absent" /\ make.phase \in {"on", "failing"}
    /\ st[x] \in {"unseen", "running"} /\ st'[x] \in {"running", "made", "failed"}
    /\ st[x] = "unseen" => \A y \in Needs(x) : Finished(y)
    /\ st[x] = "unseen" /\ x \in TestTarget =>
         st'[x] # "made" /\ (st'[x] = "running" => Loadable(x[2]))

\* To what is old: a target grows old by what it is made from, and ceases to be
\* by being made, or the report is old.
OldMoves ==
  /\ old' \subseteq Target
  /\ \A x \in old' \ old : \E y \in Needs(x) : ~Finished(y)
  /\ \A x \in Target : st'[x] = "made" /\ st[x] # "made" =>
       /\ x[1] \in {"asm", "log"} \/ x \notin old'
       /\ x \in Needs(Regr) \/ x[1] = "log" => Regr \in old'
       /\ \A y \in Users(x) : x[1] = "bin" => y \in old'
  /\ \A x \in old \ old' : st'[x] = "made" \/ Regr \in old'
  /\ Regr \in old \ old' => /\ st[Regr] = "running" /\ st'[Regr] = "made"
                            /\ at["regr"] = "committed" /\ AllRecorded
                            /\ \A t \in Test : report[t] = "PASS"
                            /\ UNCHANGED <<trr, report>>
  /\ \A t \in Test : Log(t) \in old \ old' => st[Log(t)] = "running"
  /\ md.state = "absent" => old' = old

\* To a test: nothing, or it gets a record, is started, is simulated or is
\* checked.
NewTest(t) ==
  /\ md.state = "absent" /\ trr'[t] = NewRecord
  /\ UNCHANGED <<log, hist, st, old>>

TestBegins(t) ==
  /\ md.state # "absent" /\ st[Log(t)] # "running"
  /\ log'[t] = log[t] /\ trr'[t] = trr[t]
  /\ hist'[t] = [sims |-> IF hist[t].sims < 2 THEN hist[t].sims + 1 ELSE 2,
                 judged |-> FALSE, cut |-> hist[t].cut]

TestSimulated(t) ==
  /\ st[Log(t)] = "running" /\ st'[Log(t)] = "made" /\ hist'[t] = hist[t]
  /\ \/ log'[t] \in Ends \cup {"none"} /\ trr'[t] = trr[t]
     \/ log'[t] = "cut" /\ trr'[t] = [trr[t] EXCEPT !.mode = "timeout"]

TestChecked(t) ==
  /\ st[Yaml(t)] = "running" /\ st'[Yaml(t)] = "made"
  /\ st'[Log(t)] = st[Log(t)] /\ log'[t] = log[t]
  /\ hist'[t] = [hist[t] EXCEPT !.judged = TRUE]
  /\ trr'[t] = Compare(trr[t], log[t])

TestMoves ==
  \A t \in Test :
    \/ /\ trr'[t] = trr[t] /\ log'[t] = log[t] /\ hist'[t] = hist[t]
       /\ st'[Log(t)] \in {st[Log(t)], "failed"}
    \/ NewTest(t) \/ TestBegins(t) \/ TestSimulated(t) \/ TestChecked(t)

\* To the report: it is written by its script, as the last thing, unless a
\* record cannot be loaded.
ReportMoves ==
  \/ /\ report' = report
     /\ st'[Regr] = "running" /\ at'["regr"] \in {"writing", "committed"} =>
          st[Regr] = "running" /\ at["regr"] \in {"writing", "committed"}
  \/ /\ st[Regr] = "running" /\ UNCHANGED <<st, old, trr>>
     /\ \/ AllRecorded /\ report' = [t \in Test |-> Verdict(t)]
        \/ ~AllRecorded /\ report' = report

Moves == StMoves /\ OldMoves /\ TestMoves /\ ReportMoves

\* The steps that only begin or end a target, without a trace in a test.
LEMMA QuietMoves ==
  ASSUME RegInv, NEW x \in Target, NEW v \in {"running", "failed"},
         make.phase \in {"on", "failing"},
         st[x] = "running" \/ MustMake(x),
         x \in TestTarget /\ v = "running" => x[1] # "log" /\ Loadable(x[2]),
         x = Regr /\ v = "running" => at'["regr"] = "idle",
         x # Regr \/ v # "running" => at' = at \/ at'["regr"] = at["regr"],
         st' = [st EXCEPT ![x] = v], UNCHANGED <<old, testVars>>
  PROVE  Moves
<1> USE DEF RegInv, TargetsOK
<1>1. md.state # "absent" BY DEF BeforeMetadata
<1>2. StMoves BY <1>1 DEF StMoves, MustMake
<1>3. OldMoves BY <1>1 DEF OldMoves, testVars
<1>4. ASSUME NEW t \in Test PROVE st'[Log(t)] \in {st[Log(t)], "failed"}
  <2>1. Log(t) \in Target /\ Log(t) \in TestTarget /\ Log(t)[1] = "log" BY Targets
  <2>2. CASE x = Log(t) BY <2>1, <2>2
  <2>3. CASE x # Log(t) BY <2>1, <2>3
  <2> QED BY <2>2, <2>3
<1>5. TestMoves BY <1>4 DEF TestMoves, testVars
<1>6. ReportMoves BY Targets, RegressionAssumption DEF ReportMoves, testVars, Regr
<1> QED BY <1>2, <1>3, <1>5, <1>6 DEF Moves

\* A target that was written: nobody who uses it was finished.
LEMMA WroteMoves ==
  ASSUME RegInv, NEW x \in Target,
         st[x] = "running" \/ (MustMake(x) /\ x \notin TestTarget),
         make.phase \in {"on", "failing"},
         st' = [st EXCEPT ![x] = "made"], old' = Wrote(x)
  PROVE  /\ StMoves
         /\ old' \subseteq Target
         /\ \A y \in old' \ old : \E z \in Needs(y) : ~Finished(z)
         /\ \A y \in Target : st'[y] = "made" /\ st[y] # "made" =>
              /\ y = x /\ y \notin old' /\ Users(y) \subseteq old'
              /\ y \in Needs(Regr) => Regr \in old'
         /\ \A y \in old \ old' : y = x
         /\ md.state # "absent"
<1> USE DEF RegInv, TargetsOK
<1>1. md.state # "absent" BY DEF BeforeMetadata, MustMake
<1>2. StMoves BY <1>1 DEF StMoves, MustMake
<1>3. ~Finished(x) BY DEF Finished, MustMake
<1>4. old' \subseteq Target BY DEF Wrote, Users
<1>5. \A y \in old' \ old : \E z \in Needs(y) : ~Finished(z) BY <1>3 DEF Wrote, Users
<1>6. x \notin old' BY NeedsAreOthers DEF Wrote, Users
<1>7. x \in Needs(Regr) => Regr \in old'
  BY Targets, RegressionAssumption DEF Wrote, Users, Regr
<1>8. Users(x) \subseteq old' /\ \A y \in old \ old' : y = x BY DEF Wrote
<1>9. \A y \in Target : st'[y] = "made" /\ st[y] # "made" => y = x OBVIOUS
<1> QED BY <1>1, <1>2, <1>4, <1>5, <1>6, <1>7, <1>8, <1>9

\* If it is not the report and not a log, and no test changes with it.
LEMMA WroteQuietly ==
  ASSUME RegInv, NEW x \in Target,
         st[x] = "running" \/ (MustMake(x) /\ x \notin TestTarget),
         make.phase \in {"on", "failing"},
         st' = [st EXCEPT ![x] = "made"], old' = Wrote(x),
         \A t \in Test : x # Log(t), x[1] # "log",
         x = Regr => /\ st[x] = "running" /\ at["regr"] = "committed" /\ AllRecorded
                     /\ \A t \in Test : report[t] = "PASS",
         at' = at, UNCHANGED testVars
  PROVE  Moves
<1> USE DEF RegInv, TargetsOK
<1>1. /\ StMoves
      /\ old' \subseteq Target
      /\ \A y \in old' \ old : \E z \in Needs(y) : ~Finished(z)
      /\ \A y \in Target : st'[y] = "made" /\ st[y] # "made" =>
           /\ y = x /\ y \notin old' /\ Users(y) \subseteq old'
           /\ y \in Needs(Regr) => Regr \in old'
      /\ \A y \in old \ old' : y = x
      /\ md.state # "absent"
  BY WroteMoves
<1>2. Regr \in Target BY Targets, RegressionAssumption DEF Regr
<1>3. OldMoves BY <1>1, <1>2, Targets DEF OldMoves, testVars
<1>4. TestMoves BY Targets DEF TestMoves, testVars
<1>5. ReportMoves BY <1>2 DEF ReportMoves, testVars
<1> QED BY <1>1, <1>3, <1>4, <1>5 DEF Moves

LEMMA ScriptMoves ==
  ASSUME RegInv, LockInv, NEW s \in Script,
         Stamp(s) \/ StartScript(s) \/ ScriptStep(s) \/ ScriptDone(s) \/ ScriptFails(s)
           \/ FailsEarly(s)
  PROVE  Moves
<1> USE DEF RegInv, TargetsOK
<1>1. /\ Of(s) \in Target /\ Of(s)[1] = s /\ Of(s) \notin TestTarget
      /\ \A t \in Test : Of(s) # Log(t) /\ Of(s) # Yaml(t)
      /\ Of(s)[1] # "log"
      /\ Of(s) = Regr <=> s = "regr"
  <2>1. Of(s) \in Target /\ Of(s)[1] = s /\ Of(s) \notin TestTarget BY Targets
  <2>2. \A t \in Test : Of(s) # Log(t) /\ Of(s) # Yaml(t) BY <2>1, Targets
  <2>3. Of(s) = Regr => s = "regr" BY <2>1, Targets, RegressionAssumption DEF Regr
  <2>4. s = "regr" => Of(s) = Regr BY DEF Regr
  <2>5. Of(s)[1] # "log" BY <2>1, RegressionAssumption
  <2> QED BY <2>1, <2>2, <2>3, <2>4, <2>5
<1>2. CASE Stamp(s)
  <2>1. Of(s) # Regr BY <1>1, <1>2 DEF Stamp, StampOnly
  <2>2. make.phase \in {"on", "failing"} BY <1>2 DEF Stamp, MustMake
  <2> QED BY <1>1, <1>2, <2>1, <2>2, WroteQuietly DEF Stamp, lockVars
<1>3. CASE StartScript(s)
  <2>1. at \in [Script -> Places] BY DEF LockInv, LockTypeOK
  <2>2. at' = [at EXCEPT ![s] = "idle"] BY <1>3 DEF StartScript, Launch
  <2>3. s = "regr" => at'["regr"] = "idle" BY <2>1, <2>2
  <2>4. s # "regr" => at'["regr"] = at["regr"] BY <2>1, <2>2, RegressionAssumption
  <2>5. make.phase \in {"on", "failing"} BY <1>3 DEF StartScript, MustMake
  <2> QED BY <1>1, <1>3, <2>3, <2>4, <2>5, QuietMoves DEF StartScript
<1>4. CASE ScriptStep(s)
  <2>1. UNCHANGED <<st, old, trr, log, asm, hist>> BY <1>4 DEF ScriptStep
  <2>2. StMoves /\ OldMoves /\ TestMoves BY <2>1 DEF StMoves, OldMoves, TestMoves
  <2> SUFFICES ReportMoves
    BY <2>2 DEF Moves
  <2>3. CASE s = "regr" /\ at[s] = "holding"
    BY <1>1, <1>4, <2>1, <2>3 DEF ScriptStep, Collect, Running, ReportMoves
  <2>4. CASE ~(s = "regr" /\ at[s] = "holding")
    <3>1. report' = report BY <1>4, <2>4 DEF ScriptStep, Collect
    <3>2. at \in [Script -> Places] BY DEF LockInv, LockTypeOK
    <3>3. s # "regr" => at'["regr"] = at["regr"]
      BY <1>4, <3>2, RegressionAssumption
      DEF ScriptStep, LockStep, Open, Acquire, GiveUp, Truncate, Commit
    <3>4. s = "regr" => (at'["regr"] \in {"writing", "committed"} => at["regr"] = "writing")
      BY <1>4, <2>4, <3>2
      DEF ScriptStep, LockStep, Open, Acquire, GiveUp, Truncate, Commit
    <3> QED BY <2>1, <3>1, <3>3, <3>4 DEF ReportMoves
  <2> QED BY <2>3, <2>4
<1>5. CASE ScriptDone(s)
  <2>1. s = "regr" => AllRecorded /\ \A t \in Test : report[t] = "PASS"
    BY <1>5 DEF ScriptDone, Succeeds
  <2> QED BY <1>1, <1>5, <2>1, WroteQuietly DEF ScriptDone, Running, lockVars
<1>6. CASE ScriptFails(s)
  BY <1>1, <1>6, QuietMoves DEF ScriptFails, Running, Fail, lockVars
<1>7. CASE FailsEarly(s)
  BY <1>1, <1>7, QuietMoves DEF FailsEarly, Running, Fail, lockVars
<1> QED BY <1>2, <1>3, <1>4, <1>5, <1>6, <1>7

LEMMA StartTestMoves ==
  ASSUME RegInv, NEW x \in Target, StartTest(x) PROVE Moves
<1> USE DEF RegInv, TargetsOK
<1>1. x # Regr BY Targets, RegressionAssumption DEF StartTest, Regr
<1>2. make.phase \in {"on", "failing"} /\ MustMake(x) BY DEF StartTest, MustMake
<1>3. at' = at BY DEF StartTest, lockVars
<1>4. CASE ~(x[1] = "log" /\ CanStart(x))
  <2>1. UNCHANGED <<old, testVars>> BY <1>4 DEF StartTest, testVars
  <2>2. \/ st' = [st EXCEPT ![x] = "running"] /\ x[1] # "log" /\ Loadable(x[2])
        \/ st' = [st EXCEPT ![x] = "failed"]
    BY <1>4 DEF StartTest, Fail, CanStart
  <2>3. CASE st' = [st EXCEPT ![x] = "running"] /\ x[1] # "log" /\ Loadable(x[2])
    BY <1>1, <1>2, <1>3, <2>1, <2>3, QuietMoves
  <2>4. CASE st' = [st EXCEPT ![x] = "failed"]
    BY <1>1, <1>2, <1>3, <2>1, <2>4, QuietMoves
  <2> QED BY <2>2, <2>3, <2>4
<1>5. CASE x[1] = "log" /\ CanStart(x)
  <2>1. PICK t \in Test : x = Log(t)
    BY <1>5, RegressionAssumption DEF StartTest, TestTarget, Log
  <2>2. x[2] = t BY <2>1, Targets
  <2>3. st' = [st EXCEPT ![x] = "running"] BY <1>5 DEF StartTest
  <2>4. md.state # "absent" /\ Loadable(x[2])
    BY <1>5, <2>1, Targets DEF CanStart, Readable
  <2>5. StMoves BY <1>2, <2>3, <2>4 DEF StMoves, MustMake
  <2>6. OldMoves BY <2>3, <2>4 DEF OldMoves, StartTest
  <2>7. ASSUME NEW u \in Test
        PROVE  \/ /\ trr'[u] = trr[u] /\ log'[u] = log[u] /\ hist'[u] = hist[u]
                  /\ st'[Log(u)] \in {st[Log(u)], "failed"}
               \/ TestBegins(u)
    <3>1. log' = log /\ trr' = trr BY DEF StartTest
    <3>2. hist' = [hist EXCEPT ![t].sims = IF @ < 2 THEN @ + 1 ELSE 2, ![t].judged = FALSE]
      BY <1>5, <2>2 DEF StartTest
    <3>3. CASE u = t
      <4>1. st[x] = "unseen" BY <1>2 DEF MustMake
      <4>2. hist[t] \in Histories BY DEF TestsOK
      <4>3. hist'[t] = [hist[t] EXCEPT !.sims = IF @ < 2 THEN @ + 1 ELSE 2, !.judged = FALSE]
        BY <3>2 DEF TestsOK
      <4>4. hist'[t] = [sims |-> IF hist[t].sims < 2 THEN hist[t].sims + 1 ELSE 2,
                        judged |-> FALSE, cut |-> hist[t].cut]
        BY <4>2, <4>3 DEF Histories
      <4> QED BY <2>1, <2>4, <3>1, <3>3, <4>1, <4>4 DEF TestBegins
    <3>4. CASE u # t
      <4>1. Log(u) # x BY <2>2, <3>4, Targets
      <4>2. st'[Log(u)] = st[Log(u)] BY <2>3, <4>1, Targets
      <4> QED BY <3>1, <3>2, <3>4, <4>2 DEF TestsOK
    <3> QED BY <3>3, <3>4
  <2>8. TestMoves BY <2>7 DEF TestMoves
  <2>9. ReportMoves
    BY <1>1, <1>3, <2>3, Targets, RegressionAssumption DEF ReportMoves, StartTest, Regr
  <2> QED BY <2>5, <2>6, <2>8, <2>9 DEF Moves
<1> QED BY <1>4, <1>5

LEMMA TestStepMoves ==
  ASSUME RegInv, NEW t \in Test, TestStep(t) PROVE Moves
<1> USE DEF RegInv, TargetsOK
<1>1. at' = at
  BY DEF TestStep, Generated, NotGenerated, Compiled, NotCompiled, Simulated, NotStarted,
         Checked, NotChecked, lockVars
<1>2. /\ \A u \in Test : /\ Log(u) # <<"asm", t>> /\ Log(u) # <<"bin", t>> /\ Log(u) # Yaml(t)
                         /\ Log(u) = Log(t) => u = t
      /\ Regr \notin TestTarget
      /\ <<"asm", t>> \in TestTarget /\ <<"bin", t>> \in TestTarget /\ Yaml(t) \in TestTarget
      /\ Yaml(t) \in Target /\ Log(t) \in Target /\ Regr \in Target
      /\ Log(t) # Regr /\ Yaml(t) # Regr /\ Yaml(t)[1] = "yaml" /\ Log(t)[1] = "log"
  <2>1. \A u \in Test : Log(u) # <<"asm", t>> /\ Log(u) # <<"bin", t>> /\ Log(u) # Yaml(t)
    BY DEF Log, Yaml
  <2>2. \A u \in Test : Log(u) = Log(t) => u = t
    <3>1. \A u \in Test : Log(u)[2] = u BY Targets
    <3> QED BY <3>1
  <2>3. Regr \notin TestTarget BY Targets, RegressionAssumption DEF Regr
  <2> QED BY <2>1, <2>2, <2>3, Targets, RegressionAssumption DEF Regr
<1>3. CASE \E ok \in BOOLEAN : Generated(t, ok)
  <2> DEFINE x == <<"asm", t>>
  <2> PICK ok \in BOOLEAN : Generated(t, ok) BY <1>3
  <2>1. /\ x \in Target /\ make.phase \in {"on", "failing"} /\ st[x] = "running"
        /\ st' = [st EXCEPT ![x] = "made"] /\ UNCHANGED <<trr, log, report, hist>>
    BY DEF Generated, Running
  <2>2. md.state # "absent" BY <2>1 DEF BeforeMetadata
  <2>3. StMoves BY <2>1, <2>2 DEF StMoves
  <2>4. TestMoves BY <1>2, <2>1, Targets DEF TestMoves
  <2>5. ReportMoves BY <1>1, <1>2, <2>1 DEF ReportMoves
  <2>6. OldMoves
    <3>1. x # Regr BY <1>2
    <3>2. x \notin Needs(Regr) BY Rules, Targets DEF Of, Yaml
    <3>3. x[1] = "asm" /\ \A y \in Target : st'[y] = "made" /\ st[y] # "made" => y = x
      BY <2>1
    <3>4. CASE old' = old BY <2>1, <2>2, <3>4, <3>2, <3>3, <1>2 DEF OldMoves
    <3>5. CASE old' = Wrote(x)
      <4>1. /\ old' \subseteq Target
            /\ \A y \in old' \ old : \E z \in Needs(y) : ~Finished(z)
            /\ \A y \in old \ old' : y = x
        BY <2>1, <3>5, WroteMoves
      <4> QED BY <1>2, <2>1, <2>2, <3>1, <3>2, <3>3, <4>1 DEF OldMoves
    <3> QED BY <3>4, <3>5 DEF Generated
  <2> QED BY <2>3, <2>4, <2>5, <2>6 DEF Moves
<1>4. CASE Compiled(t)
  <2>1. /\ Running(<<"bin", t>>) /\ old' = Wrote(<<"bin", t>>)
        /\ st' = [st EXCEPT ![<<"bin", t>>] = "made"] /\ UNCHANGED testVars
    BY <1>4 DEF Compiled
  <2>2. <<"bin", t>> # Regr /\ <<"bin", t>>[1] # "log" BY <1>2
  <2> HIDE DEF RegInv
  <2> QED BY <1>1, <1>2, <2>1, <2>2, WroteQuietly DEF Running
<1>5. ASSUME NEW x \in {<<"asm", t>>, <<"bin", t>>, Yaml(t)},
             Running(x), Fail(x), UNCHANGED <<lockVars, old, testVars>>
      PROVE  Moves
  <2>1. x \in Target /\ x[1] # "log" /\ x # Regr BY <1>2, <1>5, Targets DEF Running
  <2>2. st' = [st EXCEPT ![x] = "failed"] /\ st[x] = "running" /\ make.phase \in {"on", "failing"}
    BY <1>5 DEF Fail, Running
  <2> QED BY <1>1, <1>5, <2>1, <2>2, QuietMoves
<1>6. CASE NotGenerated(t) \/ NotCompiled(t) \/ NotChecked(t)
  BY <1>5, <1>6 DEF NotGenerated, NotCompiled, NotChecked, Yaml
<1>7. CASE Checked(t)
  <2>1. /\ Running(Yaml(t)) /\ st' = [st EXCEPT ![Yaml(t)] = "made"] /\ old' = Wrote(Yaml(t))
        /\ trr' = [trr EXCEPT ![t] = Compare(@, log[t])]
        /\ hist' = [hist EXCEPT ![t].judged = TRUE] /\ UNCHANGED <<log, report>>
    BY <1>7 DEF Checked, Yaml
  <2>2. /\ StMoves
        /\ old' \subseteq Target
        /\ \A y \in old' \ old : \E z \in Needs(y) : ~Finished(z)
        /\ \A y \in Target : st'[y] = "made" /\ st[y] # "made" =>
             /\ y = Yaml(t) /\ y \notin old' /\ Users(y) \subseteq old'
             /\ y \in Needs(Regr) => Regr \in old'
        /\ \A y \in old \ old' : y = Yaml(t)
        /\ md.state # "absent"
    BY <1>2, <2>1, WroteMoves DEF Running
  <2>3. OldMoves BY <1>2, <2>1, <2>2 DEF OldMoves
  <2>4. ReportMoves BY <1>1, <1>2, <2>1 DEF ReportMoves
  <2>5. ASSUME NEW u \in Test
        PROVE  \/ /\ trr'[u] = trr[u] /\ log'[u] = log[u] /\ hist'[u] = hist[u]
                  /\ st'[Log(u)] \in {st[Log(u)], "failed"}
               \/ TestChecked(u)
    <3>1. st'[Log(u)] = st[Log(u)] BY <1>2, <2>1, Targets
    <3>2. CASE u = t BY <2>1, <3>1, <3>2 DEF TestChecked, TestsOK, Running
    <3>3. CASE u # t BY <2>1, <3>1, <3>3 DEF TestsOK
    <3> QED BY <3>2, <3>3
  <2>6. TestMoves BY <2>5 DEF TestMoves
  <2> QED BY <2>2, <2>3, <2>4, <2>6 DEF Moves
\* The simulation is over, whether there was one or not.
<1>8. ASSUME Running(Log(t)), st' = [st EXCEPT ![Log(t)] = "made"],
             old' \in {Wrote(Yaml(t)), Wrote(Yaml(t)) \ {Log(t)}},
             UNCHANGED <<hist, report>>,
             \A u \in Test \ {t} : trr'[u] = trr[u] /\ log'[u] = log[u],
             \/ log'[t] \in Ends \cup {"none"} /\ trr'[t] = trr[t]
             \/ log'[t] = "cut" /\ trr'[t] = [trr[t] EXCEPT !.mode = "timeout"]
      PROVE  Moves
  <2>1. st[Log(t)] = "running" /\ make.phase \in {"on", "failing"} BY <1>8 DEF Running
  <2>2. md.state # "absent" BY <1>2, <2>1 DEF BeforeMetadata
  <2>3. StMoves BY <1>8, <2>1, <2>2 DEF StMoves
  <2>4. ~Finished(Yaml(t)) BY <1>2, <2>1, Rules DEF MadeInOrder, Finished
  <2>5. \A y \in old' \ old : \E z \in Needs(y) : ~Finished(z)
    BY <1>8, <2>4 DEF Wrote, Users
  <2>6. Yaml(t) \in Needs(Regr) BY Rules
  <2>7. Regr \in old' BY <1>2, <1>8, <2>6 DEF Wrote, Users
  <2>8. \A u \in Test : Log(u) \in old \ old' => u = t BY <1>2, <1>8 DEF Wrote
  <2>9. OldMoves
    <3>1. old' \subseteq Target BY <1>2, <1>8 DEF Wrote, Users
    <3>2. \A y \in Target : st'[y] = "made" /\ st[y] # "made" => y = Log(t) BY <1>8
    <3>3. \A u \in Test : Log(u) \in old \ old' => st[Log(u)] = "running"
      BY <2>1, <2>8
    <3> QED BY <1>2, <2>2, <2>5, <2>7, <3>1, <3>2, <3>3 DEF OldMoves
  <2>10. ReportMoves BY <1>1, <1>2, <1>8 DEF ReportMoves
  <2>11. ASSUME NEW u \in Test
         PROVE  \/ /\ trr'[u] = trr[u] /\ log'[u] = log[u] /\ hist'[u] = hist[u]
                   /\ st'[Log(u)] \in {st[Log(u)], "failed"}
                \/ TestSimulated(u)
    <3>1. CASE u = t BY <1>2, <1>8, <2>1, <3>1 DEF TestSimulated
    <3>2. CASE u # t
      <4>1. st'[Log(u)] = st[Log(u)] BY <1>2, <1>8, <3>2, Targets
      <4> QED BY <1>8, <3>2, <4>1
    <3> QED BY <3>1, <3>2
  <2>12. TestMoves BY <2>11 DEF TestMoves
  <2> QED BY <2>3, <2>9, <2>10, <2>12 DEF Moves
<1>9. ASSUME NEW end \in Ends, Simulated(t, end) PROVE Moves
  <2>1. /\ Running(Log(t)) /\ st' = [st EXCEPT ![Log(t)] = "made"]
        /\ old' = Wrote(Yaml(t)) \ {Log(t)} /\ UNCHANGED <<hist, report>>
    BY <1>9 DEF Simulated, Yaml, Log
  <2>2. /\ log' = [log EXCEPT ![t] = end]
        /\ trr' = IF end = "cut" THEN [trr EXCEPT ![t].mode = "timeout"] ELSE trr
    BY <1>9 DEF Simulated
  <2>3. \A u \in Test \ {t} : trr'[u] = trr[u] /\ log'[u] = log[u] BY <2>2 DEF TestsOK
  <2>4. log'[t] = end BY <2>2 DEF TestsOK
  <2>5. trr'[t] = IF end = "cut" THEN [trr[t] EXCEPT !.mode = "timeout"] ELSE trr[t]
    BY <2>2 DEF TestsOK
  <2> HIDE DEF RegInv, TargetsOK
  <2> QED BY <1>8, <2>1, <2>3, <2>4, <2>5
<1>10. CASE NotStarted(t)
  <2>1. /\ Running(Log(t)) /\ st' = [st EXCEPT ![Log(t)] = "made"]
        /\ old' = Wrote(Yaml(t)) /\ UNCHANGED <<trr, hist, report>>
    BY <1>10 DEF NotStarted, Yaml, Log
  <2>2. log' = log \/ log' = [log EXCEPT ![t] = IF @ \in HasTrace THEN "cut" ELSE "none"]
    BY <1>10 DEF NotStarted
  <2>3. \A u \in Test \ {t} : log'[u] = log[u] BY <2>2 DEF TestsOK
  <2>4. log'[t] \in Ends \cup {"none"} BY <2>2 DEF TestsOK, Ends
  <2> HIDE DEF RegInv, TargetsOK
  <2> QED BY <1>8, <2>1, <2>3, <2>4
<1> QED BY <1>3, <1>4, <1>6, <1>7, <1>9, <1>10 DEF TestStep

\* The steps that make or end, and those that create the metadata, move nothing.
LEMMA StillMoves ==
  ASSUME RegInv, UNCHANGED <<st, old, testVars, at>> PROVE Moves
<1>1. StMoves BY DEF StMoves
<1>2. OldMoves BY DEF OldMoves, RegInv, TargetsOK
<1>3. TestMoves BY DEF TestMoves, testVars
<1>4. ReportMoves BY DEF ReportMoves, testVars
<1> QED BY <1>1, <1>2, <1>3, <1>4 DEF Moves

LEMMA CreateMoves ==
  ASSUME RegInv, NEW t \in Test, CreateRecord(t) PROVE Moves
<1> USE DEF CreateRecord
<1>1. StMoves BY DEF StMoves
<1>2. OldMoves BY DEF OldMoves, RegInv, TargetsOK
<1>3. \A u \in Test : NewTest(u) \/ (trr'[u] = trr[u] /\ log'[u] = log[u] /\ hist'[u] = hist[u])
  BY DEF NewTest, RegInv, TestsOK
<1>4. TestMoves BY <1>3 DEF TestMoves
<1>5. ReportMoves BY DEF ReportMoves, lockVars
<1> QED BY <1>1, <1>2, <1>4, <1>5 DEF Moves

LEMMA WorkMoves == RegInv /\ LockInv /\ Work => Moves
<1> SUFFICES ASSUME RegInv, LockInv, Work PROVE Moves
  OBVIOUS
<1>1. CASE CreateMetadata
  BY <1>1, StillMoves DEF CreateMetadata, OpenNew, WriteNew
<1>2. CASE End BY <1>2, StillMoves DEF End, lockVars
<1> QED
  BY <1>1, <1>2, CreateMoves, StartTestMoves, ScriptMoves, TestStepMoves DEF Work

-----------------------------------------------------------------------------
(* The types, and what only concerns make and the metadata.                 *)

\* Every step of the regression is one of the locked metadata, or none.
LEMMA LockSimulated == [Next]_vars => [LockNext]_lockVars
<1> SUFFICES ASSUME [Next]_vars PROVE [LockNext]_lockVars
  OBVIOUS
<1>1. CASE Work
  <2>1. ASSUME NEW t \in Test, CreateRecord(t) \/ TestStep(t) PROVE UNCHANGED lockVars
    BY <2>1 DEF CreateRecord, TestStep, Generated, NotGenerated, Compiled, NotCompiled,
                Simulated, NotStarted, Checked, NotChecked
  <2>2. CASE CreateMetadata BY <2>2 DEF CreateMetadata, LockNext
  <2>3. ASSUME NEW x \in Target, StartTest(x) PROVE UNCHANGED lockVars
    BY <2>3 DEF StartTest
  <2>4. ASSUME NEW s \in Script,
               Stamp(s) \/ ScriptDone(s) \/ ScriptFails(s) \/ FailsEarly(s)
        PROVE  UNCHANGED lockVars
    BY <2>4 DEF Stamp, ScriptDone, ScriptFails, FailsEarly
  <2>5. ASSUME NEW s \in Script, StartScript(s) PROVE LockNext
    BY <2>5 DEF StartScript, LockNext
  <2>6. ASSUME NEW s \in Script, ScriptStep(s) PROVE LockNext
    BY <2>6 DEF ScriptStep, LockNext
  <2>7. CASE End BY <2>7 DEF End
  <2> QED BY <1>1, <2>1, <2>2, <2>3, <2>4, <2>5, <2>6, <2>7 DEF Work
<1>2. CASE Start BY <1>2 DEF Start
<1>3. CASE Edit BY <1>3 DEF Edit
<1>4. CASE Kill BY <1>4 DEF Kill, LockNext
<1>5. CASE UNCHANGED vars BY <1>5 DEF vars
<1> QED BY <1>1, <1>2, <1>3, <1>4, <1>5 DEF Next

\* The metadata never goes away.
LEMMA MetadataStays == LockInv /\ [LockNext]_lockVars => (md.state # "absent" => md'.state # "absent")
BY DEF LockInv, LockTypeOK, LockNext, LockStep, lockVars, OpenNew, WriteNew, Launch, Open, Acquire,
       GiveUp, Truncate, Commit, KillScripts, File

\* The count of simulations.
LEMMA Counted ==
  \A n \in 0 .. 2 : LET m == IF n < 2 THEN n + 1 ELSE 2
                    IN m \in 0 .. 2 /\ m # 0 /\ (m = 1 => n = 0)
OBVIOUS

LEMMA CompareType ==
  ASSUME NEW r \in Records, NEW end \in Ends \cup {"none"}
  PROVE  /\ Compare(r, end) \in Records
         /\ Compare(r, end).state = r.state
<1>1. UvmVerdict[end].mode \in {"none", "timeout", "log"} BY Verdicts DEF Ends
<1> QED BY <1>1 DEF Compare, Records

\* What a kill leaves of a test.
LeftFacts(t, left) ==
  /\ left.trr \in Records /\ left.log \in Ends \cup {"none"}
  /\ left.trr.state \in {trr[t].state, "torn"}
  /\ \A x \in left.made : x \in {Log(t), Yaml(t)} /\ st[x] = "running"
  /\ left.trr # trr[t] =>
       md.state = "absent" \/ \E x \in TestTarget \cap Target : x[2] = t /\ st[x] = "running"
  /\ st[Log(t)] = "running" =>
       /\ left.trr.passed \in {trr[t].passed, "none"}
       /\ left.trr.mode = "timeout" => trr[t].mode = "timeout" \/ left.log \in {"cut", "none"}
  /\ st[Log(t)] # "running" =>
       /\ left.log = log[t]
       /\ \/ left.trr \in {trr[t], TornRecord}
          \/ st[Yaml(t)] = "running" /\ left.trr = Compare(trr[t], log[t])

LEMMA LeftIs ==
  ASSUME RegInv, NEW t \in Test, NEW left \in LeftOf(t) PROVE LeftFacts(t, left)
<1>1. trr[t] \in Records /\ log[t] \in Ends \cup {"none"} BY DEF RegInv, TestsOK
<1>2. /\ Log(t) \in Target /\ Log(t) \in TestTarget /\ Log(t)[2] = t
      /\ Yaml(t) \in Target /\ Yaml(t) \in TestTarget /\ Yaml(t)[2] = t
      /\ \A k \in {"asm", "bin"} : <<k, t>> \in TestTarget /\ <<k, t>>[2] = t
  BY Targets
<1>3. Begun("log", t) <=> st[Log(t)] = "running" BY <1>2 DEF Begun, Log
<1>4. Begun("yaml", t) <=> st[Yaml(t)] = "running" BY <1>2 DEF Begun, Yaml
<1>5. TornRecord \in Records /\ TornRecord.state = "torn" /\ TornRecord.passed = "none"
      /\ TornRecord.mode = "none"
  BY DEF TornRecord, Record, Records
<1>6. CASE Begun("log", t)
  <2> DEFINE killed == [trr[t] EXCEPT !.mode = "timeout"]
  <2>1. left \in SimulationCut(t) BY <1>6 DEF LeftOf
  <2>2. killed \in Records /\ killed.state = trr[t].state /\ killed.passed = trr[t].passed
    BY <1>1 DEF Records
  <2>2a. killed.mode = "timeout" /\ killed # TornRecord BY <1>1, <1>5 DEF Records
  <2>2b. left \in   {Leaves(r, log[t], {}) : r \in {trr[t], TornRecord}}
               \cup {Leaves(r, "none", {}) : r \in {trr[t], TornRecord, killed}}
               \cup {Leaves(r, end, {<<"log", t>>}) : r \in {trr[t], TornRecord}, end \in Ends}
               \cup {Leaves(killed, "cut", {<<"log", t>>})}
    BY <2>1 DEF SimulationCut
  <2> HIDE DEF killed
  <2>3. /\ left.trr \in {trr[t], TornRecord, killed}
        /\ left.log \in Ends \cup {"none"} /\ left.made \subseteq {Log(t)}
        /\ left.trr = killed => left.log \in {"cut", "none"} \/ killed = trr[t]
    <3>1. CASE \E r \in {trr[t], TornRecord} : left = Leaves(r, log[t], {})
      BY <1>1, <2>2a, <3>1 DEF Leaves
    <3>2. CASE \E r \in {trr[t], TornRecord, killed} : left = Leaves(r, "none", {})
      BY <2>2a, <3>2 DEF Leaves
    <3>3. CASE \E r \in {trr[t], TornRecord}, end \in Ends :
                 left = Leaves(r, end, {<<"log", t>>})
      BY <2>2a, <3>3 DEF Leaves, Log
    <3>4. CASE left = Leaves(killed, "cut", {<<"log", t>>})
      BY <3>4 DEF Leaves, Log, Ends
    <3> QED BY <2>2b, <3>1, <3>2, <3>3, <3>4
  <2> QED BY <1>1, <1>2, <1>3, <1>5, <1>6, <2>2, <2>2a, <2>3 DEF LeftFacts
<1>7. CASE Begun("yaml", t) /\ ~Begun("log", t)
  <2> DEFINE new == Compare(trr[t], log[t])
  <2>1. left \in CheckCut(t) BY <1>7 DEF LeftOf
  <2>2. new \in Records /\ new.state = trr[t].state BY <1>1, CompareType
  <2>3. /\ left.trr \in {trr[t], TornRecord, new}
        /\ left.log = log[t] /\ left.made \subseteq {Yaml(t)}
    BY <2>1 DEF CheckCut, Leaves, Yaml
  <2> HIDE DEF new
  <2> QED BY <1>1, <1>2, <1>3, <1>4, <1>5, <1>7, <2>2, <2>3 DEF LeftFacts, new
<1>8. CASE ~Begun("log", t) /\ ~Begun("yaml", t)
  <2>1. /\ left.trr \in {trr[t], TornRecord} /\ left.log = log[t] /\ left.made = {}
        /\ \/ left.trr = trr[t] \/ Begun("asm", t) \/ Begun("bin", t) \/ md.state = "absent"
    BY <1>8 DEF LeftOf, Leaves
  <2> QED BY <1>1, <1>2, <1>3, <1>5, <1>8, <2>1 DEF LeftFacts, Begun
<1> QED BY <1>6, <1>7, <1>8

\* A kill leaves that of each test.
KilledTests(left) ==
  /\ \A t \in Test : /\ LeftFacts(t, left[t])
                     /\ trr'[t] = left[t].trr /\ log'[t] = left[t].log
                     /\ hist'[t] = [hist[t] EXCEPT !.cut =
                          @ \/ (md.state # "absent" /\ left[t].trr.state = "torn")]
  /\ old' = LET made == UNION {left[t].made : t \in Test}
            IN (UNION {Users(x) : x \in made})
               \cup ((old \cup {x \in Target : st[x] = "running"}) \ made)

LEMMA KillLeaves ==
  RegInv /\ Kill =>
    /\ \E left : KilledTests(left)
    /\ trr' = [t \in Test |-> trr'[t]] /\ log' = [t \in Test |-> log'[t]]
    /\ hist' = [t \in Test |-> hist'[t]]
<1> SUFFICES ASSUME RegInv, Kill
             PROVE  /\ \E left : KilledTests(left)
                    /\ trr' = [t \in Test |-> trr'[t]] /\ log' = [t \in Test |-> log'[t]]
                    /\ hist' = [t \in Test |-> hist'[t]]
  OBVIOUS
<1>1. PICK left \in EachOf([t \in Test |-> LeftOf(t)]) :
        /\ trr' = [t \in Test |-> left[t].trr]
        /\ log' = [t \in Test |-> left[t].log]
        /\ hist' = [t \in Test |-> [hist[t] EXCEPT !.cut =
                      @ \/ (md.state # "absent" /\ left[t].trr.state = "torn")]]
        /\ old' = LET made == UNION {left[t].made : t \in Test}
                  IN (UNION {Users(x) : x \in made})
                     \cup ((old \cup {x \in Target : st[x] = "running"}) \ made)
  BY DEF Kill
<1>2. \A t \in Test : left[t] \in LeftOf(t) BY <1>1 DEF EachOf
<1>3. \A t \in Test : LeftFacts(t, left[t]) BY <1>2, LeftIs
<1>4. KilledTests(left) BY <1>1, <1>3 DEF KilledTests
<1> QED BY <1>1, <1>4

\* The types are kept by every step.
LEMMA TargetTypes == RegInv /\ [Next]_vars => TargetsOK'
<1> SUFFICES ASSUME RegInv, [Next]_vars PROVE TargetsOK'
  OBVIOUS
<1> USE DEF RegInv, TargetsOK
<1>1. \A x \in Target : Wrote(x) \subseteq Target BY DEF Wrote, Users
<1>2. ASSUME NEW t \in Test, CreateRecord(t) \/ TestStep(t) PROVE TargetsOK'
  <2>1. Yaml(t) \in Target BY Targets
  <2> QED
    BY <1>1, <1>2, <2>1 DEF CreateRecord, TestStep, Generated, NotGenerated, Compiled, NotCompiled,
       Simulated, NotStarted, Checked, NotChecked, Fail, Running, Yaml
<1>3. CASE CreateMetadata BY <1>3 DEF CreateMetadata
<1>4. ASSUME NEW x \in Target, StartTest(x) PROVE TargetsOK'
  BY <1>4 DEF StartTest, Fail
<1>5. ASSUME NEW s \in Script,
             Stamp(s) \/ StartScript(s) \/ ScriptStep(s) \/ ScriptDone(s) \/ ScriptFails(s)
               \/ FailsEarly(s)
      PROVE  TargetsOK'
  BY <1>1, <1>5, Targets
  DEF Stamp, StartScript, ScriptStep, ScriptDone, ScriptFails, FailsEarly, Fail
<1>6. CASE End BY <1>6 DEF End
<1>7. CASE Start BY <1>7 DEF Start
<1>8. CASE Edit BY <1>8, Targets, RegressionAssumption DEF Edit
<1>9. CASE Kill
  <2>1. st' = [x \in Target |-> "unseen"] BY <1>9 DEF Kill
  <2>2. \A x : Users(x) \subseteq Target BY DEF Users
  <2>3. PICK left : KilledTests(left) BY <1>9, KillLeaves
  <2>4. old' \subseteq Target BY <2>2, <2>3 DEF KilledTests
  <2> QED BY <2>1, <2>4
<1>10. CASE UNCHANGED vars BY <1>10 DEF vars
<1> QED BY <1>2, <1>3, <1>4, <1>5, <1>6, <1>7, <1>8, <1>9, <1>10 DEF Next, Work

LEMMA TestTypes == RegInv /\ [Next]_vars => TestsOK'
<1> SUFFICES ASSUME RegInv, [Next]_vars PROVE TestsOK'
  OBVIOUS
<1> USE DEF RegInv, TestsOK
<1>1. ASSUME NEW t \in Test, CreateRecord(t) PROVE TestsOK'
  <2>1. NewRecord \in Records BY DEF NewRecord, Record, Records
  <2> QED BY <1>1, <2>1 DEF CreateRecord
<1>2. ASSUME NEW t \in Test, TestStep(t) PROVE TestsOK'
  <2>1. CASE \E ok \in BOOLEAN : Generated(t, ok) BY <2>1 DEF Generated
  <2>2. CASE NotGenerated(t) \/ Compiled(t) \/ NotCompiled(t) \/ NotChecked(t)
    BY <2>2 DEF NotGenerated, Compiled, NotCompiled, NotChecked, testVars
  <2>3. ASSUME NEW end \in Ends, Simulated(t, end) PROVE TestsOK'
    <3>1. log' \in [Test -> Ends \cup {"none"}] BY <2>3 DEF Simulated
    <3>2. trr' \in [Test -> Records] BY <2>3 DEF Simulated, Records
    <3> QED BY <2>3, <3>1, <3>2 DEF Simulated
  <2>4. CASE Checked(t)
    <3>1. Compare(trr[t], log[t]) \in Records BY CompareType
    <3>2. hist' \in [Test -> Histories] BY <2>4 DEF Checked, Histories
    <3> QED BY <2>4, <3>1, <3>2 DEF Checked
  <2>5. CASE NotStarted(t)
    <3>1. log' \in [Test -> Ends \cup {"none"}] BY <2>5 DEF NotStarted, Ends
    <3> QED BY <2>5, <3>1 DEF NotStarted
  <2> QED BY <1>2, <2>1, <2>2, <2>3, <2>4, <2>5 DEF TestStep
<1>3. CASE CreateMetadata BY <1>3 DEF CreateMetadata, testVars
<1>4. ASSUME NEW x \in Target, StartTest(x) PROVE TestsOK'
  <2>1. CASE x[1] = "log" /\ CanStart(x)
    <3> DEFINE i == x[2]
               m == IF hist[i].sims < 2 THEN hist[i].sims + 1 ELSE 2
    <3>1. i \in Test /\ hist[i] \in Histories BY <1>4 DEF StartTest, TestTarget
    <3>2. hist[i].sims \in 0 .. 2 BY <3>1 DEF Histories
    <3>3. m \in 0 .. 2 BY <3>2, Counted, Zenon
    <3>4. hist' = [hist EXCEPT ![i].sims = IF @ < 2 THEN @ + 1 ELSE 2, ![i].judged = FALSE]
      BY <1>4, <2>1 DEF StartTest
    <3>5. hist' = [hist EXCEPT ![i] = [hist[i] EXCEPT !.sims = m, !.judged = FALSE]]
      BY <3>1, <3>4
    <3> HIDE DEF m
    <3>6. [hist[i] EXCEPT !.sims = m, !.judged = FALSE] \in Histories
      BY <3>1, <3>3 DEF Histories
    <3>7. hist' \in [Test -> Histories] BY <3>5, <3>6
    <3> QED BY <1>4, <3>7 DEF StartTest
  <2>2. CASE ~(x[1] = "log" /\ CanStart(x)) BY <1>4, <2>2 DEF StartTest
  <2> QED BY <2>1, <2>2
<1>5. ASSUME NEW s \in Script,
             Stamp(s) \/ StartScript(s) \/ ScriptStep(s) \/ ScriptDone(s) \/ ScriptFails(s)
               \/ FailsEarly(s)
      PROVE  TestsOK'
  <2>1. \A t \in Test : Verdict(t) \in {"PASS", "FAILED", "FAILED {T}"} BY DEF Verdict
  <2>2. CASE ScriptStep(s)
    <3>1. report' = [t \in Test |-> Verdict(t)] \/ report' = report
      BY <2>2 DEF ScriptStep, Collect
    <3>2. report' \in [Test -> {"none", "PASS", "FAILED", "FAILED {T}"}] BY <2>1, <3>1
    <3> QED BY <2>2, <3>2 DEF ScriptStep
  <2> QED
    BY <1>5, <2>2
    DEF Stamp, StartScript, ScriptDone, ScriptFails, FailsEarly, testVars
<1>6. CASE End BY <1>6 DEF End, testVars
<1>7. CASE Start \/ Edit BY <1>7 DEF Start, Edit, testVars
<1>8. CASE Kill
  <2>1. PICK left : KilledTests(left) BY <1>8, KillLeaves
  <2>2. \A t \in Test : trr'[t] \in Records /\ log'[t] \in Ends \cup {"none"}
    BY <2>1 DEF KilledTests, LeftFacts
  <2>3. \A t \in Test : hist'[t] \in Histories
    <3> TAKE t \in Test
    <3> DEFINE torn == md.state # "absent" /\ left[t].trr.state = "torn"
    <3>1. hist'[t] = [hist[t] EXCEPT !.cut = @ \/ torn] BY <2>1 DEF KilledTests
    <3>2. torn \in BOOLEAN OBVIOUS
    <3> HIDE DEF torn
    <3>3. (hist[t].cut \/ torn) \in BOOLEAN OBVIOUS
    <3> QED BY <3>1, <3>3 DEF Histories
  <2>4. /\ trr' \in [Test -> Records] /\ log' \in [Test -> Ends \cup {"none"}]
        /\ hist' \in [Test -> Histories]
    BY <1>8, <2>2, <2>3, KillLeaves
  <2> QED BY <1>8, <2>4 DEF Kill
<1>9. CASE UNCHANGED vars BY <1>9 DEF vars, testVars
<1> QED BY <1>1, <1>2, <1>3, <1>4, <1>5, <1>6, <1>7, <1>8, <1>9 DEF Next, Work

\* What make does with itself while it works.
MakeMoves ==
  /\ MakeOK' /\ make.phase # "off"
  /\ make'.phase = "off" =>
       /\ UNCHANGED <<st, old, testVars>>
       /\ make'.exit = "ok" => make.phase = "on" /\ \A x \in Target : Finished(x)
  /\ make'.phase # "off" => make'.exit = make.exit
  /\ make'.phase \in {"on", "failing"} => make.phase \in {"on", "failing"} \/ md'.state = "whole"
  /\ md.state = "absent" /\ md'.state # "absent" => AllRecorded /\ UNCHANGED trr

LEMMA WorkMakes == RegInv /\ Work => MakeMoves
<1> SUFFICES ASSUME RegInv, Work PROVE MakeMoves
  OBVIOUS
<1> USE DEF RegInv, MakeOK
<1>1. ASSUME NEW x, make.phase \in {"on", "failing"}, Fail(x), UNCHANGED md PROVE MakeMoves
  BY <1>1 DEF Fail, MakeMoves
<1>2. ASSUME UNCHANGED <<md, make>>, make.phase # "off" PROVE MakeMoves
  BY <1>2 DEF MakeMoves, ExitAfterEnd
<1>3. ASSUME NEW t \in Test, CreateRecord(t) PROVE MakeMoves
  BY <1>2, <1>3 DEF CreateRecord, lockVars
<1>4. ASSUME NEW t \in Test, TestStep(t) PROVE MakeMoves
  BY <1>1, <1>2, <1>4 DEF TestStep, Generated, NotGenerated, Compiled, NotCompiled,
       Simulated, NotStarted, Checked, NotChecked, Running, lockVars
<1>5. CASE CreateMetadata
  <2>1. CASE AllRecorded /\ OpenNew /\ UNCHANGED make
    BY <1>5, <2>1 DEF CreateMetadata, MakeMoves, testVars
  <2>2. CASE WriteNew /\ make' = [make EXCEPT !.phase = "on"]
    BY <1>5, <2>2 DEF CreateMetadata, MakeMoves, WriteNew, File
  <2> QED BY <1>5, <2>1, <2>2 DEF CreateMetadata
<1>6. ASSUME NEW x \in Target, StartTest(x) PROVE MakeMoves
  BY <1>1, <1>2, <1>6 DEF StartTest, MustMake, lockVars
<1>7. ASSUME NEW s \in Script, Stamp(s) \/ StartScript(s) \/ ScriptDone(s) PROVE MakeMoves
  BY <1>2, <1>7 DEF Stamp, StartScript, ScriptDone, MustMake, Running, Launch, lockVars
<1>8. ASSUME NEW s \in Script, ScriptFails(s) \/ FailsEarly(s) PROVE MakeMoves
  BY <1>1, <1>8 DEF ScriptFails, FailsEarly, Running, lockVars
<1>9. ASSUME NEW s \in Script, ScriptStep(s) PROVE MakeMoves
  <2>1. md.state # "absent" BY <1>9 DEF ScriptStep, Running, BeforeMetadata
  <2> QED BY <1>9, <2>1 DEF ScriptStep, Running, MakeMoves
<1>10. CASE End BY <1>10 DEF End, MakeMoves, lockVars
<1> QED BY <1>3, <1>4, <1>5, <1>6, <1>7, <1>8, <1>9, <1>10 DEF Work

-----------------------------------------------------------------------------
(* The steps of make and its scripts keep the invariant.                    *)

LEMMA WorkKeepsOrder ==
  RegInv /\ Moves /\ TargetsOK' /\ make.phase # "off" =>
    (MadeInOrder /\ FinishedIsUpToDate /\ ReportIsDue)'
<1> SUFFICES ASSUME RegInv, Moves, TargetsOK', make.phase # "off"
             PROVE  (MadeInOrder /\ FinishedIsUpToDate /\ ReportIsDue)'
  OBVIOUS
<1> USE DEF RegInv, TargetsOK, Moves
<1>1. \A x \in Target : Finished(x) => Finished(x)' BY DEF StMoves, Finished
<1>2. \A x \in Target : st'[x] \in {"running", "made", "kept"} =>
        \A y \in Needs(x) : Finished(y)
  BY DEF StMoves, MadeInOrder
<1>3. MadeInOrder' BY <1>1, <1>2, NeedsAreOthers DEF MadeInOrder
<1>4. FinishedIsUpToDate'
  <2> SUFFICES ASSUME NEW x \in Target, Finished(x)', x[1] \notin {"asm", "log"}
               PROVE  x \notin old'
    BY DEF FinishedIsUpToDate
  <2>1. CASE Finished(x)
    <3>1. x \notin old BY <2>1 DEF FinishedIsUpToDate
    <3>2. \A y \in Needs(x) : Finished(y) BY <2>1 DEF MadeInOrder, Finished
    <3> QED BY <3>1, <3>2 DEF OldMoves
  <2>2. CASE ~Finished(x)
    <3>1. st'[x] = "made" /\ st[x] # "made" BY <2>2 DEF StMoves, Finished
    <3> QED BY <3>1 DEF OldMoves
  <2> QED BY <2>1, <2>2
<1>5. ReportIsDue'
  <2>1. Regr \in Target BY Targets, RegressionAssumption DEF Regr
  <2>2. CASE st'[Regr] = "running"
    <3>1. Regr \in old BY <2>1, <2>2 DEF StMoves, ReportIsDue
    <3> QED BY <2>2, <3>1 DEF OldMoves, ReportIsDue
  <2>3. CASE st'[Regr] = "unseen" /\ \A y \in Needs(Regr) : Finished(y)'
    <3>1. st[Regr] = "unseen" BY <2>1, <2>3 DEF StMoves
    <3>2. CASE \A y \in Needs(Regr) : Finished(y)
      BY <2>3, <3>1, <3>2 DEF OldMoves, ReportIsDue
    <3>3. CASE \E y \in Needs(Regr) : ~Finished(y)
      <4>1. PICK y \in Needs(Regr) : ~Finished(y) BY <3>3
      <4>2. y \in Target BY <2>1, NeedsAreOthers
      <4>3. st'[y] = "made" /\ st[y] # "made" BY <2>3, <4>1, <4>2 DEF StMoves, Finished
      <4> QED BY <4>2, <4>3 DEF OldMoves, ReportIsDue
    <3> QED BY <3>2, <3>3
  <2> QED BY <2>2, <2>3 DEF ReportIsDue
<1> QED BY <1>3, <1>4, <1>5

\* Once there is metadata no record is lost or found again but by a kill.
LEMMA RecordsStay ==
  ASSUME RegInv, Moves, md.state # "absent", NEW t \in Test
  PROVE  trr'[t].state = trr[t].state /\ hist'[t].cut = hist[t].cut
<1>1. trr[t] \in Records /\ log[t] \in Ends \cup {"none"} /\ hist[t] \in Histories
  BY DEF RegInv, TestsOK
<1>2. Compare(trr[t], log[t]).state = trr[t].state BY <1>1, CompareType
<1>3. [trr[t] EXCEPT !.mode = "timeout"].state = trr[t].state BY <1>1 DEF Records
<1>4. [hist[t] EXCEPT !.judged = TRUE].cut = hist[t].cut BY <1>1 DEF Histories
<1>5. CASE TestBegins(t) BY <1>5 DEF TestBegins
<1>6. CASE TestSimulated(t) BY <1>3, <1>6 DEF TestSimulated
<1>7. CASE TestChecked(t) BY <1>2, <1>4, <1>7 DEF TestChecked
<1> QED BY <1>5, <1>6, <1>7 DEF Moves, TestMoves, NewTest

LEMMA WorkKeepsLoaded == RegInv /\ Moves => RunsLoaded'
<1> SUFFICES ASSUME RegInv, Moves, NEW t \in Test, ~Loadable(t)',
                    NEW x \in TestTarget \cap Target, x[2] = t, st'[x] = "running"
             PROVE  FALSE
  BY DEF RunsLoaded
<1>1. md.state # "absent" BY DEF RegInv, Moves, StMoves, BeforeMetadata
<1>2. ~Loadable(t) BY <1>1, RecordsStay DEF Loadable
<1>3. st[x] # "running" BY <1>1, <1>2 DEF RegInv, RunsLoaded
<1> QED BY <1>2, <1>3 DEF Moves, StMoves, RegInv, TargetsOK

\* Who is behind stays so, or makes the report due.
LEMMA StaysBehind ==
  ASSUME RegInv, Moves, TargetsOK', md.state # "absent", NEW t \in Test, Behind(t)
  PROVE  Regr \in old' \/ Behind(t)'
<1> USE DEF RegInv, TargetsOK, Moves
<1> SUFFICES ASSUME Regr \notin old' PROVE Behind(t)'
  OBVIOUS
<1>1. PICK x \in TestTarget \cap Target :
        x[2] = t /\ x \in old /\ ~Finished(x) /\ (x[1] = "asm" => ~Loadable(t))
  BY DEF Behind
<1>2. Loadable(t)' <=> Loadable(t) BY RecordsStay DEF Loadable
<1>3. CASE ~Finished(x)'
  <2>1. st'[x] # "made" BY <1>3 DEF Finished
  <2>2. x \in old' BY <1>1, <2>1 DEF OldMoves
  <2> QED BY <1>1, <1>2, <1>3, <2>2 DEF Behind
<1>4. CASE Finished(x)'
  <2>1. st'[x] = "made" /\ st[x] # "made" /\ st[x] = "running"
    BY <1>1, <1>4 DEF Finished, StMoves
  <2>2. x[1] \in {"asm", "bin", "log", "yaml"} /\ x = <<x[1], t>> BY <1>1 DEF TestTarget
  <2>3. x[1] # "asm" BY <1>1, <2>1 DEF RunsLoaded
  <2>4. x[1] # "yaml"
    <3>1. Yaml(t) \in Needs(Regr) BY Rules
    <3> QED BY <2>1, <2>2, <3>1 DEF OldMoves, Yaml
  <2>5. x[1] # "log" BY <2>1 DEF OldMoves
  <2>6. x = <<"bin", t>> BY <2>2, <2>3, <2>4, <2>5
  <2>7. /\ Log(t) \in Target /\ Log(t) \in TestTarget /\ Log(t)[1] = "log" /\ Log(t)[2] = t
        /\ x \in Needs(Log(t))
    <3>1. Needs(Log(t)) = {Of("tb"), <<"bin", t>>} BY Rules
    <3> QED BY <2>6, <3>1, Targets
  <2>8. Log(t) \in old' BY <2>1, <2>6, <2>7 DEF OldMoves, Users
  <2>9. ~Finished(Log(t)) BY <1>1, <2>7 DEF MadeInOrder, Finished
  <2>10. ~Finished(Log(t))' BY <2>7, <2>9 DEF Finished, StMoves, OldMoves
  <2> QED BY <2>7, <2>8, <2>10 DEF Behind
<1> QED BY <1>3, <1>4

LEMMA WorkKeepsReport ==
  RegInv /\ Moves /\ TargetsOK' /\ TestsOK' => ReportIsCurrent'
<1> SUFFICES ASSUME RegInv, Moves, TargetsOK', TestsOK' PROVE ReportIsCurrent'
  OBVIOUS
<1> USE DEF RegInv, TargetsOK, TestsOK, Moves
<1>1. Regr \in Target /\ \A t \in Test : Yaml(t) \in Needs(Regr)
  BY Targets, RegressionAssumption, Rules DEF Regr
<1>2. \A t \in Test : /\ Yaml(t) \in Target /\ Log(t) \in Target /\ Log(t)[1] = "log"
  BY Targets
<1>2a. \A t \in Test : Log(t) \in Needs(Yaml(t))
  <2> TAKE t \in Test
  <2>1. Needs(Yaml(t)) = {Log(t)} BY Rules
  <2> QED BY <2>1
\* While the report is made or up to date the records of the tests stay.
<1>3. ASSUME st[Regr] = "running", NEW t \in Test PROVE trr'[t] = trr[t]
  <2>1. md.state # "absent" BY <1>1, <1>3 DEF BeforeMetadata
  <2>2. Finished(Yaml(t)) BY <1>1, <1>3 DEF MadeInOrder
  <2>3. Finished(Log(t)) BY <1>2, <1>2a, <2>2 DEF MadeInOrder, Finished
  <2> QED
    BY <2>1, <2>2, <2>3
    DEF TestMoves, NewTest, TestBegins, TestSimulated, TestChecked, Finished
<1>4. ASSUME Regr \notin old', NEW t \in Test
      PROVE  report'[t] = "PASS" /\ ((Loadable(t)' /\ trr'[t].passed = "yes") \/ Behind(t)')
  <2>1. CASE Regr \in old
    <3>1. /\ st[Regr] = "running" /\ at["regr"] = "committed" /\ AllRecorded
          /\ report[t] = "PASS" /\ UNCHANGED <<trr, report>>
      BY <1>4, <2>1 DEF OldMoves
    <3>2. report[t] = Verdict(t) BY <3>1 DEF ReportIsCurrent
    <3>3. trr[t].passed = "yes" BY <3>1, <3>2 DEF Verdict
    <3> QED BY <3>1, <3>3 DEF AllRecorded, Loadable
  <2>2. CASE Regr \notin old
    <3>1. report[t] = "PASS" /\ ((Loadable(t) /\ trr[t].passed = "yes") \/ Behind(t))
      BY <2>2 DEF ReportIsCurrent
    <3>2. md.state # "absent" BY <1>1, <2>2 DEF BeforeMetadata
    <3>3. report' = report BY <2>2 DEF ReportMoves, ReportIsDue
    <3>4. ~TestChecked(t) BY <1>1, <1>2, <1>4 DEF TestChecked, OldMoves
    <3>5. ~TestSimulated(t) BY <1>2, <1>4 DEF TestSimulated, OldMoves
    <3>6. trr'[t] = trr[t] BY <3>2, <3>4, <3>5 DEF TestMoves, NewTest, TestBegins
    <3>7. CASE Loadable(t) /\ trr[t].passed = "yes" BY <3>1, <3>3, <3>6, <3>7 DEF Loadable
    <3>8. CASE Behind(t)
      <4>1. Behind(t)' BY <1>4, <3>2, <3>8, StaysBehind
      <4> QED BY <3>1, <3>3, <4>1
    <3> QED BY <3>1, <3>7, <3>8
  <2> QED BY <2>1, <2>2
<1>5. ASSUME st'[Regr] = "running", at'["regr"] \in {"writing", "committed"}, AllRecorded',
             NEW t \in Test
      PROVE  report'[t] = Verdict(t)'
  <2>1. CASE report' = report /\ st[Regr] = "running" /\ at["regr"] \in {"writing", "committed"}
    <3>1. \A u \in Test : trr'[u] = trr[u] BY <1>3, <2>1
    <3>2. AllRecorded BY <1>5, <3>1 DEF AllRecorded, Loadable
    <3>3. report[t] = Verdict(t) BY <2>1, <3>2 DEF ReportIsCurrent
    <3> QED BY <2>1, <3>1, <3>3 DEF Verdict
  <2>2. CASE trr' = trr /\ report' = [u \in Test |-> Verdict(u)]
    BY <2>2 DEF Verdict
  <2>3. CASE trr' = trr /\ ~AllRecorded
    BY <1>5, <2>3 DEF AllRecorded, Loadable
  <2> QED BY <1>5, <2>1, <2>2, <2>3 DEF ReportMoves
<1> QED BY <1>4, <1>5 DEF ReportIsCurrent

\* What check_logs makes of a record.
LEMMA Compared ==
  ASSUME NEW r \in Records, NEW end \in Ends \cup {"none"}
  PROVE  /\ Compare(r, end).passed = "yes" => r.passed = "yes" \/ end = "pass"
         /\ Compare(r, end).mode = "timeout" => r.mode = "timeout" \/ end = "timeout"
         /\ end = "pass" /\ r.mode # "timeout" => Compare(r, end).passed = "yes"
<1> USE DEF Records
<1>1. UvmVerdict[end].passed = TRUE => end \in {"pass", "badtrace"} BY Verdicts DEF Ends
<1>2. UvmVerdict[end].passed = TRUE \/ UvmVerdict[end].passed = FALSE BY Verdicts DEF Ends
<1>3. UvmVerdict[end].mode = "timeout" => end = "timeout" BY Verdicts DEF Ends
<1>4. UvmVerdict["pass"].passed = TRUE BY Verdicts
<1>5. CASE r.mode = "timeout" BY <1>5 DEF Compare
<1>6. CASE r.mode # "timeout" /\ end \notin HasTrace
  BY <1>6, Traces DEF Compare, Ends
<1>7. CASE r.mode # "timeout" /\ end \in HasTrace /\ UvmVerdict[end].passed = TRUE
  BY <1>1, <1>7, Traces DEF Compare
<1>8. CASE r.mode # "timeout" /\ end \in HasTrace /\ UvmVerdict[end].passed = FALSE
  BY <1>3, <1>4, <1>8 DEF Compare
<1> QED BY <1>2, <1>5, <1>6, <1>7, <1>8

LEMMA WorkKeepsTests ==
  RegInv /\ Moves /\ TargetsOK' /\ TestsOK' => (\A t \in Test : TestInv(t))'
<1> SUFFICES ASSUME RegInv, Moves, TargetsOK', TestsOK', NEW t \in Test
             PROVE  TestInv(t)'
  OBVIOUS
<1>1. /\ Log(t) \in Target /\ Yaml(t) \in Target /\ Needs(Yaml(t)) = {Log(t)}
  BY Targets, Rules
<1>2. /\ TestInv(t) /\ BeforeMetadata /\ MadeInOrder
      /\ StMoves /\ OldMoves /\ TestMoves
  BY DEF RegInv, Moves
<1>2a. /\ hist[t] \in Histories
       /\ trr[t] \in Records
       /\ log[t] \in Ends \cup {"none"}
       /\ st' \in [Target -> {"unseen", "kept", "running", "made", "failed"}]
       /\ old \subseteq Target
  BY DEF RegInv, TestsOK, TargetsOK
<1>3. Log(t) \in old \ old' => st[Log(t)] = "running" BY <1>2 DEF OldMoves
<1>4. CASE /\ trr'[t] = trr[t] /\ log'[t] = log[t] /\ hist'[t] = hist[t]
           /\ st'[Log(t)] \in {st[Log(t)], "failed"}
  <2>1. hist[t].sims = 0 => st'[Log(t)] \in {"unseen", "failed"}
    BY <1>1, <1>2, <1>4 DEF TestInv, NotSimulated
  <2>2. NotSimulated(t)' BY <1>2, <1>3, <1>4, <2>1 DEF TestInv, NotSimulated
  <2>3. SimulatedOnce(t)' BY <1>2, <1>4 DEF TestInv, SimulatedOnce, Loadable
  <2> QED BY <2>2, <2>3 DEF TestInv
<1>5. CASE NewTest(t)
  <2>1. hist[t].sims = 0 /\ Log(t) \in old BY <1>1, <1>2, <1>5 DEF NewTest, BeforeMetadata, NoHistory
  <2> QED BY <1>2, <1>5, <2>1 DEF TestInv, NotSimulated, SimulatedOnce, NewTest, NewRecord, Record
<1>6. CASE TestBegins(t)
  <2>1. hist'[t].sims # 0 /\ ~hist'[t].judged /\ (hist'[t].sims = 1 => hist[t].sims = 0)
    <3>1. hist[t].sims \in 0 .. 2 BY <1>2a DEF Histories
    <3>2. /\ hist'[t].judged = FALSE
          /\ hist'[t].sims = IF hist[t].sims < 2 THEN hist[t].sims + 1 ELSE 2
      BY <1>6 DEF TestBegins
    <3> QED BY <3>1, <3>2, Counted, Zenon
  <2>2. NotSimulated(t)' BY <2>1 DEF NotSimulated
  <2>3. SimulatedOnce(t)'
    BY <1>2, <1>6, <2>1 DEF TestInv, NotSimulated, SimulatedOnce, TestBegins
  <2> QED BY <2>2, <2>3 DEF TestInv
<1>7. CASE TestSimulated(t)
  <2>1. hist[t].sims # 0 BY <1>2, <1>7 DEF TestInv, NotSimulated, TestSimulated
  <2>2. NotSimulated(t)' BY <1>7, <2>1 DEF NotSimulated, TestSimulated
  <2>3. hist[t].sims = 1 => trr[t].passed # "yes" /\ trr[t].mode # "timeout" /\ ~hist[t].judged
    BY <1>2, <1>7 DEF TestInv, SimulatedOnce, TestSimulated
  <2>4. /\ hist'[t] = hist[t] /\ st'[Log(t)] = "made" /\ trr'[t].passed = trr[t].passed
        /\ trr'[t].mode = "timeout" => trr[t].mode = "timeout" \/ log'[t] = "cut"
    BY <1>2a, <1>7 DEF TestSimulated, Records
  <2>5. SimulatedOnce(t)' BY <2>3, <2>4 DEF SimulatedOnce
  <2> QED BY <2>2, <2>5 DEF TestInv
<1>8. CASE TestChecked(t)
  <2>1. Finished(Log(t)) BY <1>1, <1>2, <1>8 DEF TestChecked, MadeInOrder
  <2>2. hist[t].sims # 0 BY <1>2, <2>1 DEF TestInv, NotSimulated, Finished
  <2>3. hist'[t].sims = hist[t].sims BY <1>2a, <1>8 DEF TestChecked, Histories
  <2>4. NotSimulated(t)' BY <2>2, <2>3 DEF NotSimulated
  <2>5. SimulatedOnce(t)'
    <3> DEFINE r == trr[t]
    <3>1. /\ Compare(r, log[t]).passed = "yes" => r.passed = "yes" \/ log[t] = "pass"
          /\ Compare(r, log[t]).mode = "timeout" => r.mode = "timeout" \/ log[t] = "timeout"
          /\ log[t] = "pass" /\ r.mode # "timeout" => Compare(r, log[t]).passed = "yes"
      BY <1>2a, Compared
    <3>2. trr'[t] = Compare(r, log[t]) /\ log'[t] = log[t] /\ st'[Log(t)] # "running"
      BY <1>8, <2>1 DEF TestChecked, Finished
    <3> QED BY <1>2, <2>3, <3>1, <3>2 DEF TestInv, SimulatedOnce
  <2> QED BY <2>4, <2>5 DEF TestInv
<1> QED BY <1>4, <1>5, <1>6, <1>7, <1>8, <1>2 DEF TestMoves

LEMMA WorkKeepsInvariant == RegInv /\ LockInv /\ LockInv' /\ Work => RegInv'
<1> SUFFICES ASSUME RegInv, LockInv, LockInv', Work PROVE RegInv'
  OBVIOUS
<1>1. Moves BY WorkMoves
<1>2. MakeMoves BY WorkMakes
<1>3. TargetsOK' /\ TestsOK' BY TargetTypes, TestTypes DEF Next
<1>4. MakeOK' /\ make.phase # "off" BY <1>2 DEF MakeMoves
<1>5. (MadeInOrder /\ FinishedIsUpToDate /\ ReportIsDue /\ RunsLoaded)'
  BY <1>1, <1>3, <1>4, WorkKeepsOrder, WorkKeepsLoaded
<1>6. ReportIsCurrent' BY <1>1, <1>3, WorkKeepsReport
<1>7. (\A t \in Test : TestInv(t))' BY <1>1, <1>3, WorkKeepsTests
<1>8. make.exit = "none" BY <1>4 DEF RegInv, ExitAfterEnd, MakeOK
<1>9. ExitAfterEnd' BY <1>2, <1>8 DEF ExitAfterEnd, MakeMoves
<1>10. md.state # "absent" => md'.state # "absent"
  <2>1. [LockNext]_lockVars BY LockSimulated DEF Next
  <2> QED BY <2>1, MetadataStays
<1>11. MetadataImpliesTests'
  <2> SUFFICES ASSUME md'.state # "absent", NEW t \in Test
               PROVE  trr'[t].state # "absent" /\ (Loadable(t)' <=> ~hist'[t].cut)
    BY DEF MetadataImpliesTests
  <2>1. CASE md.state = "absent"
    <3>1. trr[t].state = "whole" /\ trr' = trr
      BY <1>2, <2>1 DEF MakeMoves, AllRecorded, Loadable
    <3>2. ~hist[t].cut BY <2>1 DEF RegInv, BeforeMetadata, NoHistory
    <3>3. hist'[t] = hist[t]
      <4>1. Log(t) \in Target /\ Yaml(t) \in Target BY Targets
      <4> QED
        BY <1>1, <2>1, <4>1
        DEF RegInv, BeforeMetadata, Moves, TestMoves, NewTest, TestBegins, TestSimulated, TestChecked
    <3> QED BY <3>1, <3>2, <3>3 DEF Loadable
  <2>2. CASE md.state # "absent"
    <3>1. trr[t].state # "absent" /\ (Loadable(t) <=> ~hist[t].cut)
      BY <2>2 DEF RegInv, MetadataImpliesTests
    <3> QED BY <1>1, <2>2, <3>1, RecordsStay DEF Loadable
  <2> QED BY <2>1, <2>2
<1>12. BeforeMetadata'
  <2> SUFFICES ASSUME md'.state = "absent" PROVE BeforeMetadata'
    BY DEF BeforeMetadata
  <2>1. md.state = "absent" BY <1>10
  <2>2. /\ old = Target /\ \A t \in Test : NoHistory(hist[t])
        /\ \A x \in Target : st[x] # "running"
        /\ make.phase \in {"off", "create"}
    BY <2>1 DEF RegInv, BeforeMetadata
  <2>3. \A x \in Target : st'[x] = st[x] BY <1>1, <2>1 DEF Moves, StMoves
  <2>4. old' = Target BY <1>1, <2>1, <2>2 DEF Moves, OldMoves
  <2>5. \A t \in Test : hist'[t] = hist[t]
    <3> TAKE t \in Test
    <3>1. Log(t) \in Target /\ Yaml(t) \in Target BY Targets
    <3> QED
      BY <1>1, <2>1, <2>2, <2>3, <3>1
      DEF Moves, TestMoves, NewTest, TestBegins, TestSimulated, TestChecked
  <2>6. make'.phase \in {"off", "create"} BY <1>2, <2>2 DEF MakeMoves, MakeOK
  <2> QED BY <2>2, <2>3, <2>4, <2>5, <2>6 DEF BeforeMetadata
\* make ends well only when all is finished; then the report is not old.
<1>13. PassIsEarned'
  <2> SUFFICES ASSUME make'.exit = "ok", NEW t \in Test
               PROVE  /\ Loadable(t)' /\ trr'[t].passed = "yes" /\ report'[t] = "PASS"
                      /\ hist'[t].sims = 1 => log'[t] = "pass"
    BY DEF PassIsEarned
  <2>1. make'.phase = "off" BY <1>9 DEF ExitAfterEnd
  <2>2. /\ UNCHANGED testVars /\ make.phase = "on" /\ \A x \in Target : Finished(x)
    BY <1>2, <2>1 DEF MakeMoves
  <2>3. Regr \in Target /\ Regr[1] \notin {"asm", "log"} BY Targets, RegressionAssumption DEF Regr
  <2>4. Regr \notin old BY <2>2, <2>3 DEF RegInv, FinishedIsUpToDate
  <2>5. report[t] = "PASS" /\ Loadable(t) /\ trr[t].passed = "yes"
    BY <2>2, <2>4 DEF RegInv, ReportIsCurrent, Behind
  <2>6. hist[t].sims = 1 => log[t] = "pass" BY <2>5 DEF RegInv, TestInv, SimulatedOnce
  <2> QED BY <2>2, <2>5, <2>6 DEF testVars, Loadable
<1> QED
  BY <1>3, <1>4, <1>5, <1>6, <1>7, <1>9, <1>11, <1>12, <1>13 DEF RegInv

-----------------------------------------------------------------------------
(* The steps between the runs of make, and the theorems.                    *)

LEMMA StartKeepsInvariant == RegInv /\ Start => RegInv'
<1> SUFFICES ASSUME RegInv, Start PROVE RegInv'
  OBVIOUS
<1>1. TargetsOK' /\ TestsOK' BY TargetTypes, TestTypes DEF Next
<1>2. UNCHANGED <<md, at, old, trr, log, asm, report, hist>>
  BY DEF Start, lockVars, testVars
<1>3. MakeOK'
  <2>1. make.starts \in 0 .. MaxMakes /\ make.starts < MaxMakes BY DEF RegInv, MakeOK, Start
  <2>2. make.starts + 1 \in 0 .. MaxMakes BY <2>1, RegressionAssumption
  <2> QED BY <2>2 DEF RegInv, MakeOK, Start
<1>4. /\ make'.exit = "none" /\ make'.phase # "off"
      /\ make'.phase \in {"on", "failing"} <=> md.state # "absent"
      /\ make'.phase \in {"create", "on"}
  BY DEF RegInv, MakeOK, Start
<1>5. \A x \in Target : st'[x] = IF x \in UpToDate THEN "kept" ELSE "unseen"
  BY DEF Start
<1>6. \A x \in Target : Finished(x)' <=> x \in UpToDate BY <1>5 DEF Finished
<1>7. MadeInOrder'
  BY <1>5, <1>6, Kept, NeedsAreOthers DEF MadeInOrder
<1>8. FinishedIsUpToDate' BY <1>2, <1>6, Kept DEF FinishedIsUpToDate
<1>9. Regr \in Target BY Targets, RegressionAssumption DEF Regr
<1>10. ReportIsDue'
  <2> SUFFICES ASSUME st'[Regr] = "unseen", \A y \in Needs(Regr) : Finished(y)'
               PROVE  Regr \in old'
    BY <1>5, <1>9 DEF ReportIsDue
  <2>1. Needs(Regr) \subseteq UpToDate BY <1>6, <1>9, NeedsAreOthers
  <2>2. Regr \notin UpToDate BY <1>5, <1>9
  <2> QED BY <1>2, <1>9, <2>1, <2>2, Kept
<1>10a. \A t \in Test : Behind(t) => Behind(t)'
  BY <1>2, <1>6, Kept DEF Behind, Loadable
<1>11. ReportIsCurrent' BY <1>2, <1>5, <1>9, <1>10a DEF RegInv, ReportIsCurrent, Loadable
<1>11a. RunsLoaded' BY <1>5 DEF RunsLoaded
<1>12. \A t \in Test : TestInv(t)'
  <2> TAKE t \in Test
  <2>1. Log(t) \in Target BY Targets
  <2>2. TestInv(t) BY DEF RegInv
  <2>3. Log(t) \in old => st'[Log(t)] = "unseen" BY <1>5, <2>1, Kept
  <2>4. st'[Log(t)] # "running" BY <1>5, <2>1
  <2> QED BY <1>2, <2>2, <2>3, <2>4 DEF TestInv, NotSimulated, SimulatedOnce, Loadable
<1>13. (MetadataImpliesTests /\ ExitAfterEnd /\ BeforeMetadata /\ PassIsEarned)'
  BY <1>2, <1>4, <1>5
  DEF RegInv, MetadataImpliesTests, ExitAfterEnd, BeforeMetadata, PassIsEarned, Loadable
<1> QED
  BY <1>1, <1>3, <1>7, <1>8, <1>10, <1>11, <1>11a, <1>12, <1>13 DEF RegInv

LEMMA EditKeepsInvariant == RegInv /\ Edit => RegInv'
<1> SUFFICES ASSUME RegInv, Edit PROVE RegInv'
  OBVIOUS
<1>1. TargetsOK' /\ TestsOK' BY TargetTypes, TestTypes DEF Next
<1>2. /\ UNCHANGED <<md, at, st, trr, log, asm, report, hist>>
      /\ old' = old \cup {Of("tb")} /\ Of("tb") \in Target
      /\ make'.phase = "off" /\ make'.exit = make.exit
  BY Targets, RegressionAssumption DEF Edit, lockVars, testVars, RegInv, MakeOK
<1>3. MakeOK' BY RegressionAssumption DEF RegInv, MakeOK, Edit
<1>4. (MetadataImpliesTests /\ ExitAfterEnd /\ PassIsEarned)'
  BY <1>2 DEF RegInv, MetadataImpliesTests, ExitAfterEnd, PassIsEarned, Loadable
<1>5. BeforeMetadata' BY <1>2 DEF RegInv, BeforeMetadata
<1>6. MadeInOrder' BY <1>2 DEF RegInv, MadeInOrder, Finished
<1>7. FinishedIsUpToDate' BY <1>2 DEF FinishedIsUpToDate
<1>8. ReportIsDue' BY <1>2 DEF RegInv, ReportIsDue, Finished
<1>8a. RunsLoaded' BY <1>2 DEF RegInv, RunsLoaded, Loadable
<1>8b. \A t \in Test : Behind(t) => Behind(t)' BY <1>2 DEF Behind, Finished, Loadable
<1>9. ReportIsCurrent'
  BY <1>2, <1>8b DEF RegInv, ReportIsCurrent, Verdict, Loadable, AllRecorded
<1>10. \A t \in Test : TestInv(t)'
  BY <1>2 DEF RegInv, TestInv, NotSimulated, SimulatedOnce, Loadable
<1> QED
  BY <1>1, <1>3, <1>4, <1>5, <1>6, <1>7, <1>8, <1>8a, <1>9, <1>10 DEF RegInv

\* A report that is up to date still is after a kill, or a test is behind.
LEMMA KillKeepsReport ==
  ASSUME RegInv, NEW left, KilledTests(left), \A x \in Target : st'[x] = "unseen",
         report' = report, Regr \notin old', NEW t \in Test
  PROVE  report'[t] = "PASS" /\ ((Loadable(t)' /\ trr'[t].passed = "yes") \/ Behind(t)')
<1> USE DEF RegInv, TargetsOK
<1> DEFINE made == UNION {left[u].made : u \in Test}
           running == {x \in Target : st[x] = "running"}
<1>1. \A u \in Test : LeftFacts(u, left[u]) BY DEF KilledTests
<1>2. \A x \in made : \E u \in Test : x \in {Log(u), Yaml(u)} /\ x \in left[u].made
  BY <1>1 DEF LeftFacts
<1>3. old' = (UNION {Users(x) : x \in made}) \cup ((old \cup running) \ made)
  BY DEF KilledTests
<1>4. /\ \A u \in Test : /\ Yaml(u) \in TestTarget \cap Target /\ Log(u) \in TestTarget \cap Target
                         /\ Yaml(u)[2] = u /\ Log(u)[2] = u /\ Yaml(u) \in Users(Log(u))
                         /\ Regr \in Users(Yaml(u)) /\ Yaml(u)[1] = "yaml" /\ Log(u)[1] = "log"
                         /\ Regr \notin {Log(u), Yaml(u)}
      /\ Regr \in Target
  <2>1. Regr \in Target /\ \A u \in Test : Regr \notin {Log(u), Yaml(u)}
    BY Targets, RegressionAssumption DEF Regr
  <2>2. ASSUME NEW u \in Test PROVE Yaml(u) \in Users(Log(u)) /\ Regr \in Users(Yaml(u))
    <3>1. Needs(Yaml(u)) = {Log(u)} /\ Yaml(u) \in Needs(Regr) BY Rules
    <3> QED BY <2>1, <3>1, Targets DEF Users
  <2> QED BY <2>1, <2>2, Targets
<1> HIDE DEF made
<1>5. Regr \notin made BY <1>2, <1>4
<1>6. Regr \notin old BY <1>3, <1>5
<1>7. \A u \in Test : Yaml(u) \notin made BY <1>3, <1>4
<1>8. report[t] = "PASS" /\ ((Loadable(t) /\ trr[t].passed = "yes") \/ Behind(t))
  BY <1>6 DEF ReportIsCurrent
<1>9. md.state # "absent" BY <1>4, <1>6 DEF BeforeMetadata
<1>10. \A x \in made : x[1] = "log" BY <1>2, <1>4, <1>7
<1>11. trr'[t] = left[t].trr BY DEF KilledTests
<1> SUFFICES ASSUME ~(Loadable(t)' /\ trr'[t].passed = "yes") PROVE Behind(t)'
  BY <1>8
<1>12. \A x \in Target : ~Finished(x)' BY DEF Finished
<1>13. CASE Log(t) \in made
  <2>1. Yaml(t) \in old' BY <1>3, <1>4, <1>7, <1>13
  <2> QED BY <1>4, <1>12, <2>1 DEF Behind
<1>14. ASSUME NEW x \in TestTarget \cap Target, x[2] = t, Log(t) \notin made,
              x \in old \/ st[x] = "running", x[1] = "asm" => ~Loadable(t)'
       PROVE  Behind(t)'
  <2>1. x \notin made
    <3> SUFFICES ASSUME x \in made PROVE FALSE
      OBVIOUS
    <3>1. PICK u \in Test : x = Log(u) BY <1>2, <1>7
    <3>2. u = t BY <1>4, <1>14, <3>1
    <3> QED BY <1>14, <3>1, <3>2
  <2>2. x \in old' BY <1>3, <1>14, <2>1
  <2> QED BY <1>12, <1>14, <2>2 DEF Behind
<1>15. CASE Log(t) \notin made /\ \E x \in TestTarget \cap Target : x[2] = t /\ st[x] = "running"
  <2>1. PICK x \in TestTarget \cap Target : x[2] = t /\ st[x] = "running" BY <1>15
  <2>2. CASE x[1] # "asm" \/ ~Loadable(t)' BY <1>14, <1>15, <2>1, <2>2
  <2>3. CASE x[1] = "asm" /\ Loadable(t)'
    <3>1. Loadable(t) BY <1>9, <2>1 DEF RunsLoaded
    <3>2. CASE Behind(t)
      <4>1. PICK y \in TestTarget \cap Target : y[2] = t /\ y \in old /\ y[1] # "asm"
        BY <3>1, <3>2 DEF Behind
      <4> QED BY <1>14, <1>15, <4>1
    <3>3. CASE trr[t].passed = "yes"
      <4>1. CASE st[Log(t)] = "running" \/ st[Yaml(t)] = "running"
        BY <1>4, <1>14, <1>15, <4>1
      <4>2. CASE st[Log(t)] # "running" /\ st[Yaml(t)] # "running"
        <5>1. left[t].trr \in {trr[t], TornRecord} BY <1>1, <4>2 DEF LeftFacts
        <5>2. left[t].trr = trr[t]
          BY <1>11, <2>3, <5>1 DEF Loadable, TornRecord, Record
        <5> QED BY <1>11, <2>3, <3>3, <5>2
      <4> QED BY <4>1, <4>2
    <3> QED BY <1>8, <3>2, <3>3
  <2> QED BY <2>2, <2>3
<1>16. CASE /\ Log(t) \notin made
            /\ \A x \in TestTarget \cap Target : x[2] = t => st[x] # "running"
  <2>1. trr'[t] = trr[t] BY <1>1, <1>9, <1>11, <1>16 DEF LeftFacts
  <2>2. Behind(t) BY <1>8, <2>1 DEF Loadable
  <2>3. PICK x \in TestTarget \cap Target : x[2] = t /\ x \in old /\ (x[1] = "asm" => ~Loadable(t))
    BY <2>2 DEF Behind
  <2>4. Loadable(t)' <=> Loadable(t) BY <2>1 DEF Loadable
  <2> QED BY <1>14, <1>16, <2>3, <2>4
<1> QED BY <1>13, <1>15, <1>16

LEMMA KillKeepsTests ==
  ASSUME RegInv, TestsOK', NEW left, KilledTests(left), \A x \in Target : st'[x] = "unseen",
         NEW t \in Test
  PROVE  TestInv(t)'
<1>1. /\ LeftFacts(t, left[t]) /\ trr'[t] = left[t].trr /\ log'[t] = left[t].log
  BY DEF KilledTests
<1>2. hist'[t].sims = hist[t].sims /\ hist'[t].judged = hist[t].judged
  <2>1. hist[t] \in Histories BY DEF RegInv, TestsOK
  <2>2. hist'[t] = [hist[t] EXCEPT !.cut =
                      @ \/ (md.state # "absent" /\ left[t].trr.state = "torn")]
    BY DEF KilledTests
  <2> QED BY <2>1, <2>2 DEF Histories
<1>3. /\ Log(t) \in Target /\ Yaml(t) \in Target /\ Log(t)[2] = t /\ Yaml(t)[2] = t
      /\ Needs(Yaml(t)) = {Log(t)}
  BY Targets, Rules
<1>4. TestInv(t) /\ trr[t] \in Records /\ log[t] \in Ends \cup {"none"}
  BY DEF RegInv, TestsOK
<1>5. st[Yaml(t)] = "running" => Finished(Log(t)) BY <1>3 DEF RegInv, MadeInOrder
<1>6. TornRecord.passed = "none" /\ TornRecord.mode = "none" /\ TornRecord.state = "torn"
  BY DEF TornRecord, Record
<1>7. st'[Log(t)] = "unseen" BY <1>3
<1>8. NotSimulated(t)'
  <2> SUFFICES ASSUME hist[t].sims = 0
               PROVE  /\ Log(t) \in old' /\ trr'[t].passed # "yes" /\ trr'[t].mode = "none"
                      /\ ~hist'[t].judged
    BY <1>2, <1>7 DEF NotSimulated
  <2>1. /\ Log(t) \in old /\ st[Log(t)] \in {"unseen", "failed"}
        /\ trr[t].passed # "yes" /\ trr[t].mode = "none" /\ ~hist[t].judged
    BY <1>4 DEF TestInv, NotSimulated
  <2>2. left[t].trr \in {trr[t], TornRecord} BY <1>1, <1>5, <2>1 DEF LeftFacts, Finished
  <2>3. Log(t) \in old'
    <3>1. \A u \in Test : Log(t) \notin left[u].made
      BY <2>1 DEF KilledTests, LeftFacts
    <3> QED BY <2>1, <3>1 DEF KilledTests
  <2> QED BY <1>1, <1>2, <1>6, <2>1, <2>2, <2>3
<1>9. SimulatedOnce(t)'
  <2> SUFFICES ASSUME hist[t].sims = 1
               PROVE  /\ trr'[t].passed = "yes" => log'[t] = "pass"
                      /\ trr'[t].mode = "timeout" => log'[t] \in {"cut", "timeout", "none"}
                      /\ hist[t].judged /\ Loadable(t)' /\ log'[t] = "pass" => trr'[t].passed = "yes"
    BY <1>2, <1>7 DEF SimulatedOnce
  <2>1. /\ trr[t].passed = "yes" => log[t] = "pass" /\ st[Log(t)] # "running"
        /\ trr[t].mode = "timeout" => log[t] \in {"cut", "timeout", "none"} /\ st[Log(t)] # "running"
        /\ hist[t].judged => /\ Loadable(t) /\ log[t] = "pass" => trr[t].passed = "yes"
                             /\ st[Log(t)] # "running"
    BY <1>4 DEF TestInv, SimulatedOnce
  <2>2. CASE st[Log(t)] = "running" BY <1>1, <2>1, <2>2 DEF LeftFacts
  <2>3. CASE st[Log(t)] # "running" /\ left[t].trr = trr[t]
    BY <1>1, <2>1, <2>3 DEF LeftFacts, Loadable
  <2>4. CASE st[Log(t)] # "running" /\ left[t].trr = TornRecord
    BY <1>1, <1>6, <2>4 DEF LeftFacts, Loadable
  <2>5. CASE st[Log(t)] # "running" /\ left[t].trr = Compare(trr[t], log[t])
    <3> DEFINE r == trr[t]
    <3>1. /\ Compare(r, log[t]).passed = "yes" => r.passed = "yes" \/ log[t] = "pass"
          /\ Compare(r, log[t]).mode = "timeout" => r.mode = "timeout" \/ log[t] = "timeout"
          /\ log[t] = "pass" /\ r.mode # "timeout" => Compare(r, log[t]).passed = "yes"
      BY <1>4, Compared
    <3>2. log'[t] = log[t] BY <1>1, <2>5 DEF LeftFacts
    <3> QED BY <1>1, <2>1, <2>5, <3>1, <3>2
  <2> QED BY <1>1, <2>2, <2>3, <2>4, <2>5 DEF LeftFacts
<1> QED BY <1>8, <1>9 DEF TestInv

LEMMA KillKeepsInvariant == RegInv /\ LockInv /\ Kill => RegInv'
<1> SUFFICES ASSUME RegInv, LockInv, Kill PROVE RegInv'
  OBVIOUS
<1>1. TargetsOK' /\ TestsOK' BY TargetTypes, TestTypes DEF Next
<1>2. PICK left : KilledTests(left) BY KillLeaves
<1>3. /\ report' = report /\ \A x \in Target : st'[x] = "unseen"
      /\ make'.phase = "off" /\ make'.exit = "killed"
      /\ md'.state = "absent" <=> md.state = "absent"
      /\ \A s \in Script : at'[s] = "idle"
  BY DEF Kill, KillScripts, File, RegInv, MakeOK
<1>4. MakeOK' BY DEF RegInv, MakeOK, Kill
<1>5. MetadataImpliesTests'
  <2> SUFFICES ASSUME md.state # "absent", NEW t \in Test
               PROVE  trr'[t].state # "absent" /\ (Loadable(t)' <=> ~hist'[t].cut)
    BY <1>3 DEF MetadataImpliesTests
  <2> DEFINE torn == md.state # "absent" /\ left[t].trr.state = "torn"
  <2>1. /\ trr'[t] = left[t].trr /\ LeftFacts(t, left[t])
        /\ hist'[t] = [hist[t] EXCEPT !.cut = @ \/ torn]
    BY <1>2 DEF KilledTests
  <2>2. torn <=> left[t].trr.state = "torn" OBVIOUS
  <2> HIDE DEF torn
  <2>3. hist'[t].cut <=> hist[t].cut \/ torn
    <3>1. hist[t] \in Histories BY DEF RegInv, TestsOK
    <3>2. [hist[t] EXCEPT !.cut = @ \/ torn].cut = (hist[t].cut \/ torn)
      BY <3>1, Zenon DEF Histories
    <3> QED BY <2>1, <3>2, Zenon
  <2>4. trr[t].state # "absent" /\ (Loadable(t) <=> ~hist[t].cut) /\ trr[t] \in Records
    BY DEF RegInv, MetadataImpliesTests, TestsOK
  <2> QED BY <2>1, <2>2, <2>3, <2>4 DEF LeftFacts, Loadable, Records
<1>6. (ExitAfterEnd /\ PassIsEarned /\ RunsLoaded)'
  BY <1>3 DEF ExitAfterEnd, PassIsEarned, RunsLoaded
<1>7. BeforeMetadata'
  <2> SUFFICES ASSUME md.state = "absent" PROVE BeforeMetadata'
    BY <1>3 DEF BeforeMetadata
  <2>1. /\ old = Target /\ \A x \in Target : st[x] # "running"
        /\ \A t \in Test : NoHistory(hist[t])
    BY DEF RegInv, BeforeMetadata
  <2>2. ASSUME NEW t \in Test, NEW x \in left[t].made PROVE FALSE
    <3>1. LeftFacts(t, left[t]) BY <1>2 DEF KilledTests
    <3>2. x \in {Log(t), Yaml(t)} /\ st[x] = "running" BY <3>1 DEF LeftFacts
    <3> QED BY <2>1, <3>2, Targets
  <2>3. Target \subseteq old' BY <1>2, <2>1, <2>2 DEF KilledTests
  <2>4. ASSUME NEW t \in Test
        PROVE  NoHistory(hist'[t])
    <3> DEFINE torn == md.state # "absent" /\ left[t].trr.state = "torn"
    <3>1. hist'[t] = [hist[t] EXCEPT !.cut = @ \/ torn] BY <1>2 DEF KilledTests
    <3>2. torn = FALSE OBVIOUS
    <3>3. hist[t] \in Histories BY DEF RegInv, TestsOK
    <3> HIDE DEF torn
    <3>4. (hist[t].cut \/ torn) = FALSE BY <2>1, <3>2 DEF NoHistory
    <3>5. hist'[t] = [hist[t] EXCEPT !.cut = FALSE] BY <3>1, <3>4, Zenon
    <3>6. /\ hist'[t].sims = hist[t].sims /\ hist'[t].judged = hist[t].judged
          /\ hist'[t].cut = FALSE
      BY <3>3, <3>5, Zenon DEF Histories
    <3> QED BY <2>1, <3>6 DEF NoHistory
  <2> QED BY <1>1, <1>3, <2>1, <2>3, <2>4 DEF BeforeMetadata, TargetsOK
<1>8. MadeInOrder' BY <1>3 DEF MadeInOrder
<1>9. FinishedIsUpToDate' BY <1>3 DEF FinishedIsUpToDate
<1>10. Regr \in Target /\ Of("cov") \in Target /\ Of("cov") \in Needs(Regr)
  BY Targets, Rules, RegressionAssumption DEF Regr
<1>11. ReportIsDue' BY <1>3, <1>10 DEF ReportIsDue, Finished
<1>12. ReportIsCurrent'
  <2>1. st'[Regr] # "running" BY <1>3, <1>10
  <2> QED BY <1>2, <1>3, <2>1, KillKeepsReport DEF ReportIsCurrent
<1>13. \A t \in Test : TestInv(t)' BY <1>1, <1>2, <1>3, KillKeepsTests
<1> QED
  BY <1>1, <1>4, <1>5, <1>6, <1>7, <1>8, <1>9, <1>11, <1>12, <1>13 DEF RegInv

LEMMA StepKeepsInvariant == RegInv /\ LockInv /\ LockInv' /\ [Next]_vars => RegInv'
<1> SUFFICES ASSUME RegInv, LockInv, LockInv', [Next]_vars PROVE RegInv'
  OBVIOUS
<1>1. CASE UNCHANGED vars
  <2>1. UNCHANGED <<md, lock, at, copy, recorded, make, st, old, trr, log, asm, report, hist>>
    BY <1>1 DEF vars, lockVars
  <2>2. (MakeOK /\ TargetsOK /\ TestsOK)' BY <2>1 DEF RegInv, MakeOK, TargetsOK, TestsOK
  <2>3. (MetadataImpliesTests /\ ExitAfterEnd /\ BeforeMetadata /\ PassIsEarned)'
    BY <2>1 DEF RegInv, MetadataImpliesTests, ExitAfterEnd, BeforeMetadata, PassIsEarned, Loadable
  <2>4. (MadeInOrder /\ FinishedIsUpToDate /\ RunsLoaded /\ ReportIsDue)'
    BY <2>1 DEF RegInv, MadeInOrder, FinishedIsUpToDate, RunsLoaded, ReportIsDue, Finished, Loadable
  <2>4a. ReportIsCurrent'
    BY <2>1 DEF RegInv, ReportIsCurrent, Behind, Finished, Loadable, AllRecorded, Verdict
  <2>5. \A t \in Test : TestInv(t)'
    BY <2>1 DEF RegInv, TestInv, NotSimulated, SimulatedOnce, Loadable
  <2> QED BY <2>2, <2>3, <2>4, <2>4a, <2>5 DEF RegInv
<1> QED
  BY <1>1, WorkKeepsInvariant, StartKeepsInvariant, EditKeepsInvariant, KillKeepsInvariant DEF Next

\* The regression uses the metadata as scripts that take the lock do.
THEOREM UsesTheLock == Spec => LockSpec
<1>1. Init => LockInit BY DEF Init
<1>2. [Next]_vars => [LockNext]_lockVars BY LockSimulated
<1> QED BY <1>1, <1>2, PTL DEF Spec, LockSpec

\* So no field is lost in a regression either.
THEOREM NothingLostHolds == Spec => []NothingLost
BY UsesTheLock, FieldsKept, PTL

\* The invariant of the regression: what is finished and up to date, what the
\* records say of the logs, and what the metadata holds.
THEOREM InvariantHolds == Spec => [](LockInv /\ RegInv)
<1>1. Spec => []LockInv BY UsesTheLock, LockInvariantHolds, PTL
<1>2. Init => RegInv BY Initially
<1>3. RegInv /\ LockInv /\ LockInv' /\ [Next]_vars => RegInv' BY StepKeepsInvariant
<1> QED BY <1>1, <1>2, <1>3, PTL DEF Spec

\* make, the targets, the records and the metadata keep their types.
THEOREM TypesHold == Spec => []TypeOK
<1>1. LockInv /\ RegInv => TypeOK
  BY DEF LockInv, RegInv, TypeOK, MakeOK, TargetsOK, TestsOK, Records, Histories
<1> QED BY <1>1, InvariantHolds, PTL

\* However make is killed, a metadata.pickle that is there has a record of each
\* test beside it, which can be loaded unless a kill has cut its export short;
\* then it cannot be loaded ever again.
THEOREM MetadataIsWhole == Spec => []MetadataImpliesTests
<1>1. RegInv => MetadataImpliesTests BY DEF RegInv
<1> QED BY <1>1, InvariantHolds, PTL

\* For any set of tests, what check_logs has said of a test that was simulated
\* once is what its log says, as long as its record can be loaded.
THEOREM VerdictHolds == Spec => []VerdictIsOfItsLog
<1>1. TestsOK /\ (\A t \in Test : TestInv(t)) => VerdictIsOfItsLog
  BY DEF TestInv, SimulatedOnce, VerdictIsOfItsLog
<1>2. RegInv => VerdictIsOfItsLog BY <1>1 DEF RegInv
<1> QED BY <1>2, InvariantHolds, PTL

\* For any set of tests and any number of starts, kills and edits, make ends
\* well only if all tests were found passed and reported so.
THEOREM PassHolds == Spec => []PassIsEarned
<1>1. RegInv => PassIsEarned BY DEF RegInv
<1> QED BY <1>1, InvariantHolds, PTL

\* What the recipes are handed is never half made: as long as make works, what
\* a target that runs is made from is finished, and apart from an assembly or a
\* log whose maker failed quietly it is not old.
THEOREM MadeFromTheNew ==
  Spec => [](make.phase # "off" =>
               \A x \in Target : st[x] = "running" =>
                 \A y \in Needs(x) :
                   Finished(y) /\ (y[1] \notin {"asm", "log"} => y \notin old))
<1>1. RegInv => (make.phase # "off" =>
                  \A x \in Target : st[x] = "running" =>
                    \A y \in Needs(x) :
                      Finished(y) /\ (y[1] \notin {"asm", "log"} => y \notin old))
  BY NeedsAreOthers DEF RegInv, MadeInOrder, FinishedIsUpToDate
<1> QED BY <1>1, InvariantHolds, PTL

-----------------------------------------------------------------------------
(* The tools, and a configuration: what is computed from any version of a  *)
(* tool, and from any configuration that is accepted.                      *)

\* A longer number to join makes a larger one.
LEMMA JoinedIsMonotone ==
  ASSUME NEW m \in Nat, NEW n \in Nat, NEW k \in Nat, n < k
  PROVE  Joined(m, n) < Joined(m, k)
<1>1. /\ m * 10 \in Nat /\ m * 100 \in Nat /\ m * 1000 \in Nat /\ m * 10000 \in Nat
      /\ m * 10 <= m * 100 /\ m * 100 <= m * 1000 /\ m * 1000 <= m * 10000
  OBVIOUS
<1> QED BY <1>1 DEF Joined

\* What is joined is a number.
LEMMA JoinedIsNumber ==
  ASSUME NEW m \in Nat, NEW n \in Nat
  PROVE  Joined(m, n) \in Nat
BY DEF Joined

\* A service pack weighs more than any patch of two digits.
LEMMA ServicePacksWeigh ==
  ASSUME NEW s \in Nat, NEW t \in Nat, NEW p \in 0 .. 99, NEW q \in 0 .. 99
  PROVE  s * 100 + p < t * 100 + q <=> s < t \/ (s = t /\ p < q)
<1>1. ASSUME s < t PROVE s * 100 + 100 <= t * 100
  BY <1>1
<1>2. ASSUME t < s PROVE t * 100 + 100 <= s * 100
  BY <1>2
<1> QED BY <1>1, <1>2

\* A missing number is zero: numbers that are compared with them are the same
\* with and without.
LEMMA OlderByParts ==
  ASSUME NEW v \in Seq(Nat), NEW w \in Seq(Nat), NEW x \in Seq(Nat), NEW y \in Seq(Nat),
         \A i \in Nat \ {0} : PartOf(v, i) = PartOf(x, i) /\ PartOf(w, i) = PartOf(y, i),
         OlderThan(v, w)
  PROVE  OlderThan(x, y)
<1>1. PICK i \in 1 .. Len(v) + Len(w) :
        /\ PartOf(v, i) < PartOf(w, i)
        /\ \A j \in 1 .. i - 1 : PartOf(v, j) = PartOf(w, j)
  BY DEF OlderThan
<1>2. Len(v) \in Nat /\ Len(w) \in Nat /\ Len(x) \in Nat /\ Len(y) \in Nat
  OBVIOUS
<1>3. i \in Nat \ {0} /\ PartOf(x, i) < PartOf(y, i)
  BY <1>1, <1>2
<1>4. PartOf(x, i) \in Nat
  BY <1>2, <1>3 DEF PartOf
<1>5. i <= Len(y)
  BY <1>2, <1>3, <1>4 DEF PartOf
<1>6. \A j \in 1 .. i - 1 : PartOf(x, j) = PartOf(y, j)
  <2> TAKE j \in 1 .. i - 1
  <2>1. j \in Nat \ {0}
    BY <1>3
  <2> QED BY <1>1, <2>1
<1>7. i \in 1 .. Len(x) + Len(y)
  BY <1>2, <1>3, <1>5
<1> QED BY <1>3, <1>6, <1>7 DEF OlderThan

\* Of a short release what is appended to the month has three digits or one.
LEMMA ShortIs ==
  ASSUME NEW v \in VcsVersion, Short(v)
  PROVE  /\ v.sp # 0 => /\ v.sp * 100 + v.patch \in 100 .. 999
                        /\ Joined(v.month, v.sp * 100 + v.patch)
                             = v.month * 1000 + (v.sp * 100 + v.patch)
         /\ v.sp = 0 => /\ v.sp * 100 + v.patch \in 0 .. 9
                        /\ Joined(v.month, v.sp * 100 + v.patch)
                             = v.month * 10 + (v.sp * 100 + v.patch)
<1>1. v.sp \in 0 .. 99 /\ v.patch \in 0 .. 99 /\ v.month \in 1 .. 12 BY DEF VcsVersion
<1>2. CASE v.sp = 0 BY <1>1, <1>2 DEF Short, Joined
<1>3. CASE v.sp # 0
  <2>1. v.sp \in 1 .. 9 BY <1>1, <1>3 DEF Short
  <2>2. v.sp * 100 + v.patch \in 100 .. 999 BY <1>1, <2>1
  <2> QED BY <1>1, <1>3, <2>2 DEF Joined
<1> QED BY <1>2, <1>3

\* So of one year those with a service pack have the larger number, and among
\* those with or without one the later months.
LEMMA OneYearOrder ==
  ASSUME NEW v \in VcsVersion, NEW w \in VcsVersion, Short(v), Short(w), v.month # w.month
  PROVE  Joined(v.month, v.sp * 100 + v.patch) < Joined(w.month, w.sp * 100 + w.patch)
         <=> IF (v.sp = 0) # (w.sp = 0) THEN v.sp = 0 ELSE v.month < w.month
<1> DEFINE m == v.sp * 100 + v.patch
           n == w.sp * 100 + w.patch
           p == Joined(v.month, m)
           q == Joined(w.month, n)
<1>1. v.month \in 1 .. 12 /\ w.month \in 1 .. 12 BY DEF VcsVersion
<1>2. /\ v.sp # 0 => m \in 100 .. 999 /\ p = v.month * 1000 + m
      /\ v.sp = 0 => m \in 0 .. 9 /\ p = v.month * 10 + m
      /\ w.sp # 0 => n \in 100 .. 999 /\ q = w.month * 1000 + n
      /\ w.sp = 0 => n \in 0 .. 9 /\ q = w.month * 10 + n
  BY ShortIs
<1> SUFFICES p < q <=> IF (v.sp = 0) # (w.sp = 0) THEN v.sp = 0 ELSE v.month < w.month
  OBVIOUS
<1> HIDE DEF m, n, p, q
<1>3. CASE v.sp = 0 /\ w.sp = 0
  BY <1>1, <1>2, <1>3
<1>4. CASE v.sp # 0 /\ w.sp # 0
  <2>1. m \in 100 .. 999 /\ p = v.month * 1000 + m /\ n \in 100 .. 999 /\ q = w.month * 1000 + n
    BY <1>2, <1>4
  <2>2. ASSUME v.month < w.month PROVE p < q
    <3>1. v.month * 1000 + 1000 <= w.month * 1000 BY <1>1, <2>2
    <3> QED BY <1>1, <2>1, <3>1
  <2>3. ASSUME w.month < v.month PROVE ~(p < q)
    <3>1. w.month * 1000 + 1000 <= v.month * 1000 BY <1>1, <2>3
    <3> QED BY <1>1, <2>1, <3>1
  <2> QED BY <1>1, <1>4, <2>2, <2>3
<1>5. CASE v.sp = 0 /\ w.sp # 0
  <2>1. m \in 0 .. 9 /\ p = v.month * 10 + m /\ n \in 100 .. 999 /\ q = w.month * 1000 + n
    BY <1>2, <1>5
  <2>2. p < 1000 BY <1>1, <2>1
  <2>3. q > 1000 BY <1>1, <2>1
  <2> QED BY <1>1, <1>5, <2>1, <2>2, <2>3
<1>6. CASE v.sp # 0 /\ w.sp = 0
  <2>1. m \in 100 .. 999 /\ p = v.month * 1000 + m /\ n \in 0 .. 9 /\ q = w.month * 10 + n
    BY <1>2, <1>6
  <2>2. p > 1000 BY <1>1, <2>1
  <2>3. q < 1000 BY <1>1, <2>1
  <2> QED BY <1>1, <1>6, <2>1, <2>2, <2>3
<1> QED BY <1>3, <1>4, <1>5, <1>6

\* What the number made of a release of VCS tells.
LEMMA VcsOrderIs ==
  ASSUME NEW v \in VcsVersion, NEW w \in VcsVersion, Told(v, w)
  PROVE  OlderThan(<<v.year, Joined(v.month, v.sp * 100 + v.patch)>>,
                   <<w.year, Joined(w.month, w.sp * 100 + w.patch)>>)
         <=> ~CountsAsRecent(v, w)
<1> DEFINE m == v.sp * 100 + v.patch
           n == w.sp * 100 + w.patch
           p == Joined(v.month, m)
           q == Joined(w.month, n)
<1>1. /\ v.year \in Nat /\ v.month \in Nat /\ v.sp \in Nat /\ v.patch \in Nat
      /\ w.year \in Nat /\ w.month \in Nat /\ w.sp \in Nat /\ w.patch \in Nat
  BY DEF VcsVersion
<1>2. m \in Nat /\ n \in Nat
  BY <1>1
<1>3. p \in Nat /\ q \in Nat
  BY <1>1, <1>2, JoinedIsNumber
<1>4. OlderThan(<<v.year, p>>, <<w.year, q>>)
        <=> v.year < w.year \/ (v.year = w.year /\ p < q)
  <2> HIDE DEF p, q
  <2> DEFINE a == <<v.year, p>>
             b == <<w.year, q>>
  <2>1. Len(a) = 2 /\ Len(b) = 2
    OBVIOUS
  <2>2. /\ PartOf(a, 1) = v.year /\ PartOf(b, 1) = w.year
        /\ PartOf(a, 2) = p /\ PartOf(b, 2) = q
        /\ \A i \in Nat : i > 2 => PartOf(a, i) = 0 /\ PartOf(b, i) = 0
    BY DEF PartOf
  <2> HIDE DEF a, b
  <2>3. ASSUME OlderThan(a, b)
        PROVE  v.year < w.year \/ (v.year = w.year /\ p < q)
    <3>1. PICK i \in 1 .. 4 : /\ PartOf(a, i) < PartOf(b, i)
                              /\ \A j \in 1 .. i - 1 : PartOf(a, j) = PartOf(b, j)
      BY <2>1, <2>3 DEF OlderThan
    <3>2. i = 1 \/ i = 2
      BY <2>2, <3>1
    <3> QED BY <2>2, <3>1, <3>2
  <2>4. ASSUME v.year < w.year \/ (v.year = w.year /\ p < q)
        PROVE  OlderThan(a, b)
    <3>1. CASE v.year < w.year
      BY <2>1, <2>2, <3>1 DEF OlderThan
    <3>2. CASE v.year = w.year /\ p < q
      <4>1. \A j \in 1 .. 2 - 1 : PartOf(a, j) = PartOf(b, j)
        BY <2>2, <3>2
      <4> QED BY <2>1, <2>2, <3>2, <4>1 DEF OlderThan
    <3> QED BY <2>4, <3>1, <3>2
  <2> QED BY <2>3, <2>4 DEF a, b
<1>5. ASSUME v.month = w.month PROVE p < q <=> m < n
  BY <1>1, <1>2, <1>3, <1>5, JoinedIsMonotone
<1>6. v.patch \in 0 .. 99 /\ w.patch \in 0 .. 99
  BY DEF VcsVersion
<1>7. m < n <=> v.sp < w.sp \/ (v.sp = w.sp /\ v.patch < w.patch)
  BY <1>1, <1>6, ServicePacksWeigh
<1>7a. ASSUME OneYear(v, w)
       PROVE  p < q <=> IF (v.sp = 0) # (w.sp = 0) THEN v.sp = 0 ELSE v.month < w.month
  BY <1>7a, OneYearOrder DEF Told, OneYear
<1> HIDE DEF m, n, p, q
<1>8. OlderThan(<<v.year, p>>, <<w.year, q>>) <=> ~CountsAsRecent(v, w)
  <2>1. CASE OneYear(v, w)
    <3>1. p < q <=> ~CountsAsRecent(v, w)
      BY <1>1, <1>7a, <2>1 DEF VcsOlder, OneYear, CountsAsRecent
    <3> QED BY <1>1, <1>4, <2>1, <3>1 DEF OneYear
  <2>2. CASE ~OneYear(v, w)
    <3>1. ~CountsAsRecent(v, w) <=> VcsOlder(v, w) BY <2>2 DEF CountsAsRecent
    <3> QED BY <1>1, <1>4, <1>5, <1>7, <2>2, <3>1 DEF VcsOlder, OneYear
  <2> QED BY <2>1, <2>2
<1> QED BY <1>8 DEF p, q, m, n

\* What a version of numbers consists of.
LEMMA NumberedFacts ==
  ASSUME NEW v \in Numbered
  PROVE  /\ v.parts \in Seq(Nat) /\ v.parts # <<>> /\ v.cruft \in BOOLEAN
         /\ v # NoVersion
BY DEF Numbered, NoVersion

\* A release of VCS is not the missing version.
LEMMA ReleaseIsAVersion ==
  ASSUME NEW v \in VcsVersion
  PROVE  v # NoVersion
<1>1. "year" \in DOMAIN v /\ "year" \notin DOMAIN NoVersion
  BY DEF VcsVersion, NoVersion
<1> QED BY <1>1

\* What to_semver makes of a version, by tool.
LEMMA SemverOf ==
  ASSUME NEW tool, NEW fromReq \in BOOLEAN
  PROVE  /\ ToSemver(tool, NoVersion, fromReq) = NoNumbers
         /\ tool = "vcs" =>
              \A v \in VcsVersion :
                ToSemver(tool, v, fromReq) =
                  IF v.cruft /\ fromReq THEN NoNumbers
                  ELSE <<v.year, Joined(v.month, v.sp * 100 + v.patch)>>
         /\ tool = "vivado" =>
              \A v \in VersionsOf(tool) :
                ToSemver(tool, v, fromReq)
                  = <<v.parts[1], v.parts[2], PartOf(v.parts, 3)>>
         /\ tool \in {"verible", "ninja"} =>
              \A v \in VersionsOf(tool) : ToSemver(tool, v, fromReq) = v.parts
         /\ tool \notin {"vcs", "vivado", "verible", "ninja"} =>
              \A v \in Numbered :
                ToSemver(tool, v, fromReq) = IF v.cruft THEN NoNumbers ELSE v.parts
<1>1. ToSemver(tool, NoVersion, fromReq) = NoNumbers
  <2>1. CASE tool = "vcs"
    BY <2>1 DEF ToSemver, VcsSemver
  <2>2. CASE tool # "vcs"
    BY <2>2 DEF ToSemver
  <2> QED BY <2>1, <2>2
<1>2. ASSUME tool = "vcs", NEW v \in VcsVersion
      PROVE  ToSemver(tool, v, fromReq) =
               IF v.cruft /\ fromReq THEN NoNumbers
               ELSE <<v.year, Joined(v.month, v.sp * 100 + v.patch)>>
  BY <1>2, ReleaseIsAVersion DEF ToSemver, VcsSemver
<1>3. ASSUME tool = "vivado", NEW v \in VersionsOf(tool)
      PROVE  ToSemver(tool, v, fromReq)
               = <<v.parts[1], v.parts[2], PartOf(v.parts, 3)>>
  <2>1. v \in Numbered /\ Len(v.parts) \in 2 .. 3 /\ ~v.cruft
    BY <1>3 DEF VersionsOf
  <2> QED BY <1>3, <2>1, NumberedFacts DEF ToSemver
<1>4. ASSUME tool = "verible", NEW v \in VersionsOf(tool)
      PROVE  ToSemver(tool, v, fromReq) = v.parts
  <2>1. v \in Numbered /\ Len(v.parts) = 3 /\ v.cruft
    BY <1>4 DEF VersionsOf
  <2> QED BY <1>4, <2>1, NumberedFacts DEF ToSemver
<1>5. ASSUME tool = "ninja", NEW v \in VersionsOf(tool)
      PROVE  ToSemver(tool, v, fromReq) = v.parts
  <2>1. v \in Numbered /\ Len(v.parts) = 3
    BY <1>5 DEF VersionsOf
  <2>2. v.parts \in Seq(Nat)
    BY <2>1, NumberedFacts
  <2>3. SubSeq(v.parts, 1, 3) = v.parts
    BY <2>1, <2>2
  <2>4. v # NoVersion /\ Len(v.parts) >= 3
    BY <2>1, NumberedFacts
  <2>5. ToSemver(tool, v, fromReq) = SubSeq(v.parts, 1, 3)
    BY <1>5, <2>4 DEF ToSemver
  <2> QED BY <2>3, <2>5
<1>6. ASSUME tool \notin {"vcs", "vivado", "verible", "ninja"}, NEW v \in Numbered
      PROVE  ToSemver(tool, v, fromReq) = IF v.cruft THEN NoNumbers ELSE v.parts
  BY <1>6, NumberedFacts DEF ToSemver
<1> QED BY <1>1, <1>2, <1>3, <1>4, <1>5, <1>6

\* The parts of a version of three numbers.
LEMMA PartOfThree ==
  ASSUME NEW a, NEW b, NEW c, NEW i \in Nat \ {0}
  PROVE  PartOf(<<a, b, c>>, i) =
           IF i = 1 THEN a ELSE IF i = 2 THEN b ELSE IF i = 3 THEN c ELSE 0
<1>1. Len(<<a, b, c>>) = 3
  OBVIOUS
<1>2. CASE i <= 3
  BY <1>1, <1>2 DEF PartOf
<1>3. CASE i > 3
  BY <1>1, <1>3 DEF PartOf
<1> QED BY <1>2, <1>3

\* The parts of a version by its length.
LEMMA PartOfShort ==
  ASSUME NEW s \in Seq(Nat), NEW n \in Nat, Len(s) = n, NEW i \in Nat \ {0}
  PROVE  /\ i <= n => PartOf(s, i) = s[i] /\ s[i] \in Nat
         /\ i > n => PartOf(s, i) = 0
BY DEF PartOf

\* Padding a version of two numbers with a zero changes no comparison.
LEMMA PaddedOrder ==
  ASSUME NEW v \in Seq(Nat), NEW w \in Seq(Nat),
         Len(v) = 2 \/ Len(v) = 3, Len(w) = 2 \/ Len(w) = 3
  PROVE  OlderThan(<<v[1], v[2], PartOf(v, 3)>>, <<w[1], w[2], PartOf(w, 3)>>)
         <=> OlderThan(v, w)
<1> DEFINE Padded(s) == <<s[1], s[2], PartOf(s, 3)>>
<1>1. ASSUME NEW s \in Seq(Nat), Len(s) = 2 \/ Len(s) = 3
      PROVE  /\ Padded(s) \in Seq(Nat)
             /\ \A i \in Nat \ {0} : PartOf(Padded(s), i) = PartOf(s, i)
  <2>1. ASSUME NEW n \in {2, 3}, Len(s) = n
        PROVE  /\ s[1] = PartOf(s, 1) /\ s[2] = PartOf(s, 2)
               /\ s[1] \in Nat /\ s[2] \in Nat /\ PartOf(s, 3) \in Nat
               /\ \A i \in Nat : i > 3 => PartOf(s, i) = 0
    BY <2>1, PartOfShort
  <2>2. /\ s[1] = PartOf(s, 1) /\ s[2] = PartOf(s, 2)
        /\ s[1] \in Nat /\ s[2] \in Nat /\ PartOf(s, 3) \in Nat
        /\ \A i \in Nat : i > 3 => PartOf(s, i) = 0
    BY <1>1, <2>1
  <2>3. Padded(s) \in Seq(Nat)
    BY <2>2
  <2>4. \A i \in Nat \ {0} : PartOf(Padded(s), i) = PartOf(s, i)
    <3> TAKE i \in Nat \ {0}
    <3>1. i \in Nat /\ (i = 1 \/ i = 2 \/ i = 3 \/ i > 3)
      OBVIOUS
    <3> QED BY <2>2, <3>1, PartOfThree
  <2> QED BY <2>3, <2>4
<1> HIDE DEF Padded
<1>2. /\ Padded(v) \in Seq(Nat) /\ Padded(w) \in Seq(Nat)
      /\ \A i \in Nat \ {0} : /\ PartOf(Padded(v), i) = PartOf(v, i)
                             /\ PartOf(Padded(w), i) = PartOf(w, i)
  BY <1>1
<1>3. OlderThan(v, w) => OlderThan(Padded(v), Padded(w))
  BY <1>2, OlderByParts
<1>4. OlderThan(Padded(v), Padded(w)) => OlderThan(v, w)
  BY <1>2, OlderByParts
<1> QED BY <1>3, <1>4 DEF Padded

\* One tool is judged as it should be.
LEMMA CheckIsExact ==
  ASSUME NEW tool, NEW need \in VersionsOf(tool) \cup {NoVersion},
         NEW have \in VersionsOf(tool) \cup {NoVersion},
         tool = "vcs" /\ need # NoVersion /\ have # NoVersion => Told(have, need)
  PROVE  CheckTool(tool, need, have) <=> Recent(tool, need, have)
<1>1. CASE need = NoVersion \/ have = NoVersion
  <2>1. ~CheckTool(tool, need, have)
    BY <1>1, SemverOf DEF CheckTool
  <2> QED BY <1>1, <2>1 DEF Recent
<1>2. CASE need # NoVersion /\ have # NoVersion
  <2>0. need \in VersionsOf(tool) /\ have \in VersionsOf(tool)
    BY <1>2
  <2>1. CASE tool = "vcs"
    <3>1. need \in VcsVersion /\ have \in VcsVersion /\ Told(have, need)
      BY <1>2, <2>0, <2>1 DEF VersionsOf
    <3> DEFINE N(v) == <<v.year, Joined(v.month, v.sp * 100 + v.patch)>>
    <3>2. /\ ToSemver(tool, need, TRUE) = IF need.cruft THEN NoNumbers ELSE N(need)
          /\ ToSemver(tool, have, FALSE) = N(have)
      BY <2>1, <3>1, SemverOf
    <3>3. OlderThan(N(have), N(need)) <=> ~CountsAsRecent(have, need)
      BY <3>1, VcsOrderIs
    <3>4. N(need) # NoNumbers /\ N(have) # NoNumbers
      BY DEF NoNumbers
    <3> HIDE DEF N
    <3> QED BY <1>2, <2>1, <3>2, <3>3, <3>4 DEF CheckTool, Recent
  <2>2. CASE tool = "vivado"
    <3>0. /\ need \in Numbered /\ Len(need.parts) \in 2 .. 3 /\ ~need.cruft
          /\ have \in Numbered /\ Len(have.parts) \in 2 .. 3 /\ ~have.cruft
      BY <2>0, <2>2 DEF VersionsOf
    <3>1. /\ need \in Numbered /\ (Len(need.parts) = 2 \/ Len(need.parts) = 3) /\ ~need.cruft
          /\ have \in Numbered /\ (Len(have.parts) = 2 \/ Len(have.parts) = 3) /\ ~have.cruft
      <4>1. \A n \in 2 .. 3 : n = 2 \/ n = 3
        OBVIOUS
      <4> QED BY <3>0, <4>1
    <3> DEFINE N(v) == <<v.parts[1], v.parts[2], PartOf(v.parts, 3)>>
    <3>2. ToSemver(tool, need, TRUE) = N(need) /\ ToSemver(tool, have, FALSE) = N(have)
      BY <2>0, <2>2, SemverOf
    <3>3. OlderThan(N(have), N(need)) <=> OlderThan(have.parts, need.parts)
      BY <3>1, NumberedFacts, PaddedOrder
    <3>4. N(need) # NoNumbers /\ N(have) # NoNumbers
      BY DEF NoNumbers
    <3> HIDE DEF N
    <3> QED BY <1>2, <2>2, <3>1, <3>2, <3>3, <3>4 DEF CheckTool, Recent
  <2>3. CASE tool \in {"verible", "ninja"}
    <3>1. need \in Numbered /\ have \in Numbered
      BY <2>0, <2>3 DEF VersionsOf
    <3>2. ToSemver(tool, need, TRUE) = need.parts /\ ToSemver(tool, have, FALSE) = have.parts
      BY <2>0, <2>3, SemverOf
    <3> QED BY <1>2, <2>3, <3>1, <3>2, NumberedFacts DEF CheckTool, Recent, NoNumbers
  <2>4. CASE tool \notin {"vcs", "vivado", "verible", "ninja"}
    <3>1. need \in Numbered /\ have \in Numbered
      BY <2>0, <2>4 DEF VersionsOf
    <3>2. /\ ToSemver(tool, need, TRUE) = IF need.cruft THEN NoNumbers ELSE need.parts
          /\ ToSemver(tool, have, FALSE) = IF have.cruft THEN NoNumbers ELSE have.parts
      BY <2>4, <3>1, SemverOf
    <3> QED BY <1>2, <2>4, <3>1, <3>2, NumberedFacts DEF CheckTool, Recent, NoNumbers
  <2> QED BY <2>1, <2>2, <2>3, <2>4
<1> QED BY <1>1, <1>2

\* The input is one of the calls.
InputIsACall ==
  /\ input.kind = "tools" => input.arg \in ToolCalls
  /\ input.kind = "config" => input.arg \in ConfigCalls
  /\ input.kind = "filter" => input.arg \in FilterCalls
  /\ input.kind = "log" => input.arg \in Logs
  /\ input.kind = "gen" => input.arg \in GenCalls
  /\ input.kind = "mac" => input.arg \in MacCalls

LEMMA InputHolds == ScriptsSpec => []InputIsACall
<1>1. input = NoInput => InputIsACall
  BY DEF NoInput, InputIsACall
<1>2. InputIsACall /\ [Call]_input => InputIsACall'
  <2> SUFFICES ASSUME InputIsACall, Call PROVE InputIsACall'
    BY DEF InputIsACall
  <2>1. PICK kind \in Kinds : \E arg \in CallsOf(kind) : input' = [kind |-> kind, arg |-> arg]
    BY DEF Call
  <2>2. PICK arg \in CallsOf(kind) : input' = [kind |-> kind, arg |-> arg]
    BY <2>1
  <2>3. input'.kind = kind /\ input'.arg = arg
    BY <2>2
  <2>4. /\ kind = "tools" => arg \in ToolCalls
        /\ kind = "config" => arg \in ConfigCalls
        /\ kind = "filter" => arg \in FilterCalls
        /\ kind = "log" => arg \in Logs
        /\ kind = "gen" => arg \in GenCalls
        /\ kind = "mac" => arg \in MacCalls
    BY <2>2 DEF CallsOf
  <2> QED BY <2>3, <2>4 DEF InputIsACall
<1> QED BY <1>1, <1>2, PTL DEF ScriptsSpec

\* All the tools are judged as they should be.
LEMMA ToolsExact ==
  ASSUME NEW call \in ToolCalls, VcsTold(call.reqs, call.installed)
  PROVE  LET reqs == call.reqs
             asked == call.asked
             need(t) == Dict(reqs[t]).min
             have(t) == call.installed[t]
             needed(t) == t \in asked \/ ~AsNeeded(reqs[t])
         IN ToolsAccepted(reqs, asked, call.installed)
            <=> /\ asked \subseteq DOMAIN reqs
                /\ \A t \in DOMAIN reqs : ~Malformed(reqs[t])
                /\ \A t \in DOMAIN reqs : needed(t) => Recent(t, need(t), have(t))
<1> DEFINE reqs == call.reqs
           need(t) == Dict(reqs[t]).min
           have(t) == call.installed[t]
<1>1. ASSUME NEW t \in DOMAIN reqs, ~Malformed(reqs[t])
      PROVE  CheckTool(t, need(t), have(t)) <=> Recent(t, need(t), have(t))
  <2>1. /\ need(t) \in VersionsOf(t) \cup {NoVersion}
        /\ have(t) \in VersionsOf(t) \cup {NoVersion}
        /\ t = "vcs" /\ need(t) # NoVersion /\ have(t) # NoVersion
             => Told(have(t), need(t))
    BY <1>1, CallsAssumption DEF VcsTold
  <2> QED BY <2>1, CheckIsExact
<1> HIDE DEF need, have
<1>2. ToolsAccepted(reqs, call.asked, call.installed)
        <=> /\ call.asked \subseteq DOMAIN reqs
            /\ \A t \in DOMAIN reqs : ~Malformed(reqs[t])
            /\ \A t \in DOMAIN reqs :
                 t \in call.asked \/ ~AsNeeded(reqs[t]) => CheckTool(t, need(t), have(t))
  BY DEF ToolsAccepted, CheckedTools, need, have
<1>3. ASSUME \A t \in DOMAIN reqs : ~Malformed(reqs[t])
      PROVE  \A t \in DOMAIN reqs : CheckTool(t, need(t), have(t)) <=> Recent(t, need(t), have(t))
  BY <1>1, <1>3
<1> QED BY <1>2, <1>3 DEF need, have

\* Of any version of a tool other than VCS the check says what is so: the zero
\* that vivado's are padded with and the suffixes of the others change no verdict.
\* So it does of releases of VCS of different years or of one month; within a year
\* it takes those with a service pack for newer than those without, whichever are
\* (check_tool_requirements.py:140-313, 410-451).
THEOREM ToolsJudged == ScriptsSpec => []ToolVerdictIsExact
<1>1. InputIsACall => ToolVerdictIsExact
  BY ToolsExact DEF InputIsACall, ToolVerdictIsExact
<1> QED BY <1>1, InputHolds, PTL

\* Every simulator takes the strings as macros and the rest as parameters, in
\* one of its stages each.
LEMMA StagesShareFields ==
  ASSUME NEW sim \in Simulators
  PROVE  /\ StageFields(sim, "compile") \cup StageFields(sim, "sim") = KnownFields
         /\ StageFields(sim, "compile") \cap StageFields(sim, "sim") = {}
<1> DEFINE All == SimOpts(TRUE, TRUE)
           Params == SimOpts(TRUE, FALSE)
           Macros == SimOpts(FALSE, TRUE)
<1>1. /\ OutputFields(All) = KnownFields
      /\ OutputFields(Params) = KnownFields \ StrFields
      /\ OutputFields(Macros) = KnownFields \cap StrFields
  BY DEF OutputFields, SimOpts
<1>2. CASE sim \in {"vcs", "xlm", "dsim"}
  <2>1. /\ ~NeedsSimOpts(sim)
        /\ Outputter(OptsName(sim, "compile")) = All
    BY <1>2 DEF NeedsSimOpts, OptsName, Outputter
  <2>2. /\ StageFields(sim, "compile") = KnownFields
        /\ StageFields(sim, "sim") = {}
    BY <1>1, <2>1 DEF StageFields
  <2> QED BY <2>2
<1>3. CASE sim \in {"riviera", "questa"}
  <2>1. /\ NeedsSimOpts(sim)
        /\ Outputter(OptsName(sim, "compile")) = Macros
        /\ Outputter(OptsName(sim, "sim")) = Params
    BY <1>3 DEF NeedsSimOpts, OptsName, Outputter
  <2>2. /\ StageFields(sim, "compile") = KnownFields \cap StrFields
        /\ StageFields(sim, "sim") = KnownFields \ StrFields
    BY <1>1, <2>1 DEF StageFields
  <2> QED BY <2>2
<1> QED BY <1>2, <1>3 DEF Simulators

\* An accepted configuration has the known fields, each of its type.
LEMMA FieldTypes ==
  ASSUME NEW yml, ConfigAccepted(yml)
  PROVE  /\ DOMAIN yml = KnownFields
         /\ \A f \in DOMAIN yml : yml[f].type = "str" <=> f \in StrFields
<1>1. ASSUME NEW f \in IntFields \cup BoolFields
      PROVE  yml[f].type # "str" /\ f \notin StrFields
  BY DEF ConfigAccepted, ReadBool, ReadInt, IntFields, BoolFields, StrFields
<1>2. ASSUME NEW f \in StrFields PROVE yml[f].type = "str"
  BY DEF ConfigAccepted, ReadStr
<1> QED BY <1>1, <1>2 DEF ConfigAccepted, KnownFields

\* Every field of a configuration that is accepted reaches the simulator once,
\* whatever simulator it is (ibex_config.py, ibex_cmd.py).
THEOREM FieldsArrive == ScriptsSpec => []FieldsReachSimulator
<1>1. InputIsACall => FieldsReachSimulator
  <2> SUFFICES ASSUME InputIsACall, input.kind = "config",
                      ConfigFound(input.arg.file, input.arg.name)
               PROVE  FieldsReachSimulator
    BY DEF FieldsReachSimulator
  <2> DEFINE config == input.arg.file[input.arg.name]
  <2>1. input.arg.sim \in Simulators
    BY CallsAssumption DEF InputIsACall
  <2>2. ConfigAccepted(config)
    BY DEF ConfigFound
  <2>3. /\ DOMAIN config = KnownFields
        /\ \A f \in DOMAIN config : config[f].type = "str" <=> f \in StrFields
    BY <2>2, FieldTypes
  <2> HIDE DEF config
  <2> QED BY <2>1, <2>3, StagesShareFields DEF FieldsReachSimulator, config
<1> QED BY <1>1, InputHolds, PTL

-----------------------------------------------------------------------------
(* Instruction generation.  Paths and lines are written out as sequences of *)
(* what they hold, by a lemma for each length that occurs.                 *)

Hole == "@@PLACEHOLDER@@"

\* A concatenation is known by its parts.
LEMMA ConcatIs ==
  ASSUME NEW S, NEW s \in Seq(S), NEW t \in Seq(S), NEW u \in Seq(S),
         Len(u) = Len(s) + Len(t),
         \A i \in 1 .. Len(s) : u[i] = s[i],
         \A i \in 1 .. Len(t) : u[Len(s) + i] = t[i]
  PROVE  s \o t = u
<1> DEFINE c == s \o t
<1>1. /\ c \in Seq(S) /\ Len(c) = Len(s) + Len(t)
      /\ \A i \in 1 .. Len(s) + Len(t) :
           c[i] = IF i <= Len(s) THEN s[i] ELSE t[i - Len(s)]
  BY ConcatProperties
<1>2. Len(s) \in Nat /\ Len(t) \in Nat
  OBVIOUS
<1> HIDE DEF c
<1>3. ASSUME NEW i \in 1 .. Len(c) PROVE c[i] = u[i]
  <2>1. CASE i <= Len(s)
    BY <1>1, <1>2, <2>1
  <2>2. CASE i > Len(s)
    <3>1. i - Len(s) \in 1 .. Len(t) /\ Len(s) + (i - Len(s)) = i
      BY <1>1, <1>2, <2>2
    <3>2. u[i] = t[i - Len(s)]
      BY <3>1
    <3> QED BY <1>1, <1>2, <2>2, <3>2
  <2> QED BY <1>1, <1>2, <2>1, <2>2
<1>4. c = u
  BY <1>1, <1>3, SeqEqual
<1> QED BY <1>4 DEF c

\* A name after a name, and so on for longer ones.
LEMMA OneAndOne ==
  ASSUME NEW a, NEW b
  PROVE  <<a>> \o <<b>> = <<a, b>>
<1> DEFINE S == {a, b}
           s == <<a>>
           t == <<b>>
           u == <<a, b>>
<1>1. s \in Seq(S) /\ t \in Seq(S) /\ u \in Seq(S)
  OBVIOUS
<1>2. Len(s) = 1 /\ Len(t) = 1 /\ Len(u) = 2
  OBVIOUS
<1>3. /\ \A i \in 1 .. 1 : u[i] = s[i]
      /\ \A i \in 1 .. 1 : u[1 + i] = t[i]
  OBVIOUS
<1> HIDE DEF S, s, t, u
<1>4. /\ Len(u) = Len(s) + Len(t)
      /\ \A i \in 1 .. Len(s) : u[i] = s[i]
      /\ \A i \in 1 .. Len(t) : u[Len(s) + i] = t[i]
  BY <1>2, <1>3
<1>5. s \o t = u
  BY <1>1, <1>4, ConcatIs, Zenon
<1> QED BY <1>5 DEF s, t, u

LEMMA OneAndTwo ==
  ASSUME NEW a, NEW b, NEW c
  PROVE  <<a>> \o <<b, c>> = <<a, b, c>>
<1> DEFINE S == {a, b, c}
           s == <<a>>
           t == <<b, c>>
           u == <<a, b, c>>
<1>1. s \in Seq(S) /\ t \in Seq(S) /\ u \in Seq(S)
  OBVIOUS
<1>2. Len(s) = 1 /\ Len(t) = 2 /\ Len(u) = 3
  OBVIOUS
<1>3. /\ \A i \in 1 .. 1 : u[i] = s[i]
      /\ \A i \in 1 .. 2 : u[1 + i] = t[i]
  OBVIOUS
<1> HIDE DEF S, s, t, u
<1>4. /\ Len(u) = Len(s) + Len(t)
      /\ \A i \in 1 .. Len(s) : u[i] = s[i]
      /\ \A i \in 1 .. Len(t) : u[Len(s) + i] = t[i]
  BY <1>2, <1>3
<1>5. s \o t = u
  BY <1>1, <1>4, ConcatIs, Zenon
<1> QED BY <1>5 DEF s, t, u

LEMMA OneAndThree ==
  ASSUME NEW a, NEW b, NEW c, NEW d
  PROVE  <<a>> \o <<b, c, d>> = <<a, b, c, d>>
<1> DEFINE S == {a, b, c, d}
           s == <<a>>
           t == <<b, c, d>>
           u == <<a, b, c, d>>
<1>1. s \in Seq(S) /\ t \in Seq(S) /\ u \in Seq(S)
  OBVIOUS
<1>2. Len(s) = 1 /\ Len(t) = 3 /\ Len(u) = 4
  OBVIOUS
<1>3. /\ \A i \in 1 .. 1 : u[i] = s[i]
      /\ \A i \in 1 .. 3 : u[1 + i] = t[i]
  OBVIOUS
<1> HIDE DEF S, s, t, u
<1>4. /\ Len(u) = Len(s) + Len(t)
      /\ \A i \in 1 .. Len(s) : u[i] = s[i]
      /\ \A i \in 1 .. Len(t) : u[Len(s) + i] = t[i]
  BY <1>2, <1>3
<1>5. s \o t = u
  BY <1>1, <1>4, ConcatIs, Zenon
<1> QED BY <1>5 DEF s, t, u

LEMMA TwoAndTwo ==
  ASSUME NEW a, NEW b, NEW c, NEW d
  PROVE  <<a, b>> \o <<c, d>> = <<a, b, c, d>>
<1> DEFINE S == {a, b, c, d}
           s == <<a, b>>
           t == <<c, d>>
           u == <<a, b, c, d>>
<1>1. s \in Seq(S) /\ t \in Seq(S) /\ u \in Seq(S)
  OBVIOUS
<1>2. Len(s) = 2 /\ Len(t) = 2 /\ Len(u) = 4
  OBVIOUS
<1>3. /\ \A i \in 1 .. 2 : u[i] = s[i]
      /\ \A i \in 1 .. 2 : u[2 + i] = t[i]
  OBVIOUS
<1> HIDE DEF S, s, t, u
<1>4. /\ Len(u) = Len(s) + Len(t)
      /\ \A i \in 1 .. Len(s) : u[i] = s[i]
      /\ \A i \in 1 .. Len(t) : u[Len(s) + i] = t[i]
  BY <1>2, <1>3
<1>5. s \o t = u
  BY <1>1, <1>4, ConcatIs, Zenon
<1> QED BY <1>5 DEF s, t, u

\* The paths as sequences of names.
LEMMA PathsAre ==
  ASSUME NEW test
  PROVE  /\ Placeholder = <<Hole>> /\ Build = <<"build">> /\ Scratch = <<"scratch">>
         /\ Asm(test) = <<Hole, "asm_test", test>>
         /\ SimLog(test) = <<Hole, "sim", test, "0.log">>
         /\ \A n : /\ Placeholder \o <<n>> = <<Hole, n>>
                   /\ Build \o <<n>> = <<"build", n>>
                   /\ Scratch \o <<n>> = <<"scratch", n>>
BY OneAndOne, OneAndTwo, OneAndThree DEF Placeholder, Build, Scratch, Asm, SimLog, Hole

Reloc(o, r) == [orig |-> o, reloc |-> r]

SimOrig(sim) == CASE sim = "vcs" -> <<Hole, "vcs_simv">>
                  [] sim = "xlm" -> <<Hole>>
                  [] sim = "dsim" -> <<Hole, "dsim">>
SimReloc(sim) == CASE sim = "vcs" -> <<"build", "vcs_simv">>
                   [] sim = "xlm" -> <<"build">>
                   [] sim = "dsim" -> <<"build", "dsim">>

\* The relocations, in the order in which they are tried.
LEMMA RelocsAre ==
  ASSUME NEW sim \in GenSimulators, NEW test
  PROVE  SimRelocs(sim) \o AlwaysRelocs(test) =
           << Reloc(SimOrig(sim), SimReloc(sim)),
              Reloc(<<Hole, "asm_test", test>>, <<"scratch", "test">>),
              Reloc(<<Hole, "asm_test">>, <<"scratch">>),
              Reloc(<<Hole, "sim", test, "0.log">>, <<"scratch", "gen.log">>) >>
<1>1. SimRelocs(sim) = <<Reloc(SimOrig(sim), SimReloc(sim))>>
  BY PathsAre DEF SimRelocs, GenSimulators, Reloc, SimOrig, SimReloc
<1>2. AlwaysRelocs(test) =
        << Reloc(<<Hole, "asm_test", test>>, <<"scratch", "test">>),
           Reloc(<<Hole, "asm_test">>, <<"scratch">>),
           Reloc(<<Hole, "sim", test, "0.log">>, <<"scratch", "gen.log">>) >>
  BY PathsAre DEF AlwaysRelocs, Reloc
<1> QED BY <1>1, <1>2, OneAndThree

\* A path that is the origin of one relocation only goes where that one says,
\* and a path that is the origin of none stays.
LEMMA RelocPathIs ==
  ASSUME NEW sim \in GenSimulators, NEW test, NEW path
  PROVE  /\ path = SimOrig(sim) => RelocPath(sim, test, path) = SimReloc(sim)
         /\ path = <<Hole, "asm_test", test>> => RelocPath(sim, test, path) = <<"scratch", "test">>
         /\ path = <<Hole, "asm_test">> => RelocPath(sim, test, path) = <<"scratch">>
         /\ path = <<Hole, "sim", test, "0.log">> => RelocPath(sim, test, path) = <<"scratch", "gen.log">>
         /\ (\E n \in {"xrun", "dsim", "gen_csr_test.py"} : path = <<n>>)
              => RelocPath(sim, test, path) = path
<1> DEFINE o1 == SimOrig(sim)
           o2 == <<Hole, "asm_test", test>>
           o3 == <<Hole, "asm_test">>
           o4 == <<Hole, "sim", test, "0.log">>
           r1 == SimReloc(sim)
           r2 == <<"scratch", "test">>
           r3 == <<"scratch">>
           r4 == <<"scratch", "gen.log">>
           rs == <<Reloc(o1, r1), Reloc(o2, r2), Reloc(o3, r3), Reloc(o4, r4)>>
           hits == {i \in 1 .. 4 : rs[i].orig = path}
<1>1. RelocPath(sim, test, path) =
        IF hits = {} THEN path ELSE rs[CHOOSE i \in hits : \A j \in hits : i <= j].reloc
  <2> DEFINE all == SimRelocs(sim) \o AlwaysRelocs(test)
             met == {i \in 1 .. Len(all) : all[i].orig = path}
  <2>1. Len(rs) = 4
    OBVIOUS
  <2>2. all = rs
    BY RelocsAre
  <2>3. RelocPath(sim, test, path) =
          IF met = {} THEN path ELSE all[CHOOSE i \in met : \A j \in met : i <= j].reloc
    BY DEF RelocPath
  <2> HIDE DEF rs, all
  <2>4. met = hits
    BY <2>1, <2>2
  <2> HIDE DEF met, hits
  <2> QED BY <2>2, <2>3, <2>4
<1>2. /\ rs[1].orig = o1 /\ rs[2].orig = o2 /\ rs[3].orig = o3 /\ rs[4].orig = o4
      /\ rs[1].reloc = r1 /\ rs[2].reloc = r2 /\ rs[3].reloc = r3 /\ rs[4].reloc = r4
  BY DEF Reloc
<1>3. /\ Len(o2) = 3 /\ Len(o3) = 2 /\ Len(o4) = 4 /\ Len(o1) \in 1 .. 2 /\ o1 # o3
      /\ o1[1] = Hole /\ o2[1] = Hole /\ o3[1] = Hole /\ o4[1] = Hole
  BY DEF SimOrig, GenSimulators
<1>4. o1 # o2 /\ o1 # o3 /\ o1 # o4 /\ o2 # o3 /\ o2 # o4 /\ o3 # o4
  BY <1>3
<1>5. ASSUME NEW n \in {"xrun", "dsim", "gen_csr_test.py"}, path = <<n>>
      PROVE  path # o1 /\ path # o2 /\ path # o3 /\ path # o4
  <2>1. path[1] # Hole
    BY <1>5 DEF Hole
  <2> QED BY <1>3, <2>1
<1> HIDE DEF rs, o1, o2, o3, o4, r1, r2, r3, r4
<1>6. \A k \in 1 .. 4 : hits = {k} => RelocPath(sim, test, path) = rs[k].reloc
  BY <1>1
<1>7. path = o1 => hits = {1}
  BY <1>2, <1>4
<1>8. path = o2 => hits = {2}
  BY <1>2, <1>4
<1>9. path = o3 => hits = {3}
  BY <1>2, <1>4
<1>10. path = o4 => hits = {4}
  BY <1>2, <1>4
<1>11. (\E n \in {"xrun", "dsim", "gen_csr_test.py"} : path = <<n>>) => hits = {}
  BY <1>2, <1>5
<1> QED BY <1>1, <1>2, <1>6, <1>7, <1>8, <1>9, <1>10, <1>11 DEF o1, o2, o3, o4, r1, r2, r3, r4

\* Relocating one line of words, each on its own.
LEMMA OneLine ==
  ASSUME NEW sim, NEW test, NEW S, NEW line \in Seq(S)
  PROVE  LET moved == RelocCommands(sim, test, <<line>>)
         IN /\ UNION {Range(moved[c]) : c \in DOMAIN moved}
                 = {RelocWord(sim, test, line[i]) : i \in 1 .. Len(line)}
            /\ RelocFails(moved)
                 <=> \E i \in 1 .. Len(line) : Refused(RelocWord(sim, test, line[i]))
<1> DEFINE moved == RelocCommands(sim, test, <<line>>)
           words == [w \in 1 .. Len(line) |-> RelocWord(sim, test, line[w])]
<1>1. Len(line) \in Nat
  OBVIOUS
<1>2. moved = [c \in 1 .. 1 |-> words]
  <2> DEFINE one == <<line>>
  <2>1. Len(one) = 1 /\ one[1] = line
    OBVIOUS
  <2>2. moved = [c \in 1 .. Len(one) |->
                  [w \in 1 .. Len(one[c]) |-> RelocWord(sim, test, one[c][w])]]
    BY DEF RelocCommands
  <2> HIDE DEF one, moved
  <2>3. moved = [c \in 1 .. 1 |-> [w \in 1 .. Len(one[c]) |-> RelocWord(sim, test, one[c][w])]]
    BY <2>1, <2>2
  <2>4. \A c \in 1 .. 1 : [w \in 1 .. Len(one[c]) |-> RelocWord(sim, test, one[c][w])] = words
    BY <2>1
  <2> QED BY <2>3, <2>4
<1>3. DOMAIN moved = {1} /\ moved[1] = words /\ Len(moved) = 1
  <2>1. 1 .. 1 = {1}
    OBVIOUS
  <2> QED BY <1>2, <2>1
<1>4. DOMAIN words = 1 .. Len(line) /\ Len(words) = Len(line)
  BY <1>1
<1>5. \A i \in 1 .. Len(line) : words[i] = RelocWord(sim, test, line[i])
  OBVIOUS
<1> HIDE DEF moved, words
<1>6. Range(words) = {RelocWord(sim, test, line[i]) : i \in 1 .. Len(line)}
  BY <1>4, <1>5 DEF Range
<1>7. UNION {Range(moved[c]) : c \in DOMAIN moved} = Range(words)
  BY <1>3
<1>8. RelocFails(moved) <=> \E i \in 1 .. Len(line) : Refused(words[i])
  BY <1>3, <1>4 DEF RelocFails
<1> QED BY <1>5, <1>6, <1>7, <1>8 DEF moved

\* A word that has been moved is refused for a name it holds.
LEMMA RefusedIs ==
  /\ \A pre, n : n # Hole => ~Refused(Word(pre, <<n>>))
  /\ \A pre, m, n : m # Hole /\ n # Hole => ~Refused(Word(pre, <<m, n>>))
<1>1. \A n : <<n>> = Placeholder => n = Hole
  BY DEF Placeholder, Hole
<1>2. ASSUME NEW pre, NEW n, n # Hole PROVE ~Refused(Word(pre, <<n>>))
  <2>1. Word(pre, <<n>>).path = <<n>>
    BY DEF Word
  <2>2. Len(<<n>>) = 1 /\ <<n>>[1] = n
    OBVIOUS
  <2>3. \A i \in 1 .. 1 : i = 1
    OBVIOUS
  <2> QED BY <1>1, <1>2, <2>1, <2>2, <2>3 DEF Refused
<1>3. ASSUME NEW pre, NEW m, NEW n, m # Hole, n # Hole PROVE ~Refused(Word(pre, <<m, n>>))
  <2>1. Word(pre, <<m, n>>).path = <<m, n>>
    BY DEF Word
  <2>2. Len(<<m, n>>) = 2 /\ <<m, n>>[1] = m /\ <<m, n>>[2] = n
    OBVIOUS
  <2>3. \A i \in 1 .. 2 : i = 1 \/ i = 2
    OBVIOUS
  <2> QED BY <1>1, <1>3, <2>1, <2>2, <2>3 DEF Refused
<1> QED BY <1>2, <1>3

\* A word is moved by its path.
LEMMA MovedWord ==
  ASSUME NEW sim, NEW test, NEW pre, NEW path
  PROVE  RelocWord(sim, test, Word(pre, path)) = Word(pre, RelocPath(sim, test, path))
BY DEF RelocWord, Word

\* The words of the one line that riscv-dv writes down.
AsmWord(test) == Word("+asm_file_name=", <<Hole, "asm_test", test>>)
LogWord(test) == Word("", <<Hole, "sim", test, "0.log">>)

CommandLine(sim, test) ==
  IF test = CsrTest
    THEN <<Word("", <<"gen_csr_test.py">>), Word("", <<Hole, "asm_test">>)>>
  ELSE CASE sim = "vcs" -> <<Word("", <<Hole, "vcs_simv">>), AsmWord(test), LogWord(test)>>
         [] sim = "xlm" -> <<Word("", <<"xrun">>), Word("", <<Hole>>), AsmWord(test), LogWord(test)>>
         [] sim = "dsim" -> <<Word("", <<"dsim">>), Word("", <<Hole, "dsim">>), AsmWord(test), LogWord(test)>>

\* The one line of every test.
LEMMA CommandsAre ==
  ASSUME NEW sim \in GenSimulators, NEW test
  PROVE  Commands(sim, test) = <<CommandLine(sim, test)>>
<1>1. CASE test = CsrTest
  BY <1>1, PathsAre DEF Commands, CommandLine
<1>2. CASE test # CsrTest
  <2>1. Commands(sim, test) = <<SimWords(sim) \o <<AsmWord(test), LogWord(test)>> >>
    BY <1>2, PathsAre DEF Commands, AsmWord, LogWord
  <2>2. CASE sim = "vcs"
    <3>1. SimWords(sim) = <<Word("", <<Hole, "vcs_simv">>)>>
      BY <2>2, PathsAre DEF SimWords
    <3> QED BY <1>2, <2>1, <2>2, <3>1, OneAndTwo DEF CommandLine
  <2>3. CASE sim = "xlm"
    <3>1. SimWords(sim) = <<Word("", <<"xrun">>), Word("", <<Hole>>)>>
      BY <2>3, PathsAre DEF SimWords
    <3> QED BY <1>2, <2>1, <2>3, <3>1, TwoAndTwo DEF CommandLine
  <2>4. CASE sim = "dsim"
    <3>1. SimWords(sim) = <<Word("", <<"dsim">>), Word("", <<Hole, "dsim">>)>>
      BY <2>4, PathsAre DEF SimWords
    <3> QED BY <1>2, <2>1, <2>4, <3>1, TwoAndTwo DEF CommandLine
  <2> QED BY <2>2, <2>3, <2>4 DEF GenSimulators
<1> QED BY <1>1, <1>2

\* Words of the line that have been moved: one that starts the generator, of
\* whatever simulator, and one for each file.
Starters == {Word("", <<"build", "vcs_simv">>), Word("", <<"xrun">>), Word("", <<"build">>),
             Word("", <<"dsim">>), Word("", <<"build", "dsim">>)}
TestWord == Word("+asm_file_name=", <<"scratch", "test">>)
GenLogWord == Word("", <<"scratch", "gen.log">>)
CsrWords == {Word("", <<"gen_csr_test.py">>), Word("", <<"scratch">>)}

MovedWords(sim, test) == {RelocWord(sim, test, CommandLine(sim, test)[i]) : i \in 1 .. Len(CommandLine(sim, test))}

\* Where each word goes.
LEMMA WordsMove ==
  ASSUME NEW sim \in GenSimulators, NEW test
  PROVE  /\ RelocWord(sim, test, AsmWord(test)) = TestWord
         /\ RelocWord(sim, test, LogWord(test)) = GenLogWord
         /\ RelocWord(sim, test, Word("", <<Hole, "asm_test">>)) = Word("", <<"scratch">>)
         /\ RelocWord(sim, test, Word("", SimOrig(sim))) = Word("", SimReloc(sim))
         /\ \A n \in {"xrun", "dsim", "gen_csr_test.py"} :
              RelocWord(sim, test, Word("", <<n>>)) = Word("", <<n>>)
<1>1. RelocPath(sim, test, <<Hole, "asm_test", test>>) = <<"scratch", "test">>
  BY RelocPathIs
<1>2. RelocPath(sim, test, <<Hole, "sim", test, "0.log">>) = <<"scratch", "gen.log">>
  BY RelocPathIs
<1>3. RelocPath(sim, test, <<Hole, "asm_test">>) = <<"scratch">>
  BY RelocPathIs
<1>4. RelocPath(sim, test, SimOrig(sim)) = SimReloc(sim)
  BY RelocPathIs
<1>5. ASSUME NEW n \in {"xrun", "dsim", "gen_csr_test.py"}
      PROVE  RelocPath(sim, test, <<n>>) = <<n>>
  BY RelocPathIs
<1>6. \A pre, path : RelocWord(sim, test, Word(pre, path)) = Word(pre, RelocPath(sim, test, path))
  BY MovedWord
<1>7. /\ RelocWord(sim, test, AsmWord(test)) = TestWord
      /\ RelocWord(sim, test, LogWord(test)) = GenLogWord
  BY <1>1, <1>2, <1>6, Zenon DEF AsmWord, LogWord, TestWord, GenLogWord
<1>8. /\ RelocWord(sim, test, Word("", <<Hole, "asm_test">>)) = Word("", <<"scratch">>)
      /\ RelocWord(sim, test, Word("", SimOrig(sim))) = Word("", SimReloc(sim))
  BY <1>3, <1>4, <1>6, Zenon
<1>9. \A n \in {"xrun", "dsim", "gen_csr_test.py"} :
        RelocWord(sim, test, Word("", <<n>>)) = Word("", <<n>>)
  BY <1>5, <1>6, Zenon
<1> QED BY <1>7, <1>8, <1>9

\* The words of a line that has been moved.
LEMMA MovedAre ==
  ASSUME NEW sim \in GenSimulators, NEW test
  PROVE  /\ \E S : CommandLine(sim, test) \in Seq(S)
         /\ test = CsrTest => MovedWords(sim, test) = CsrWords
         /\ test # CsrTest => /\ MovedWords(sim, test) \subseteq Starters \cup {TestWord, GenLogWord}
                              /\ TestWord \in MovedWords(sim, test) /\ GenLogWord \in MovedWords(sim, test)
<1> DEFINE line == CommandLine(sim, test)
           R(path) == RelocPath(sim, test, path)
<1>1. CASE test = CsrTest
  <2> DEFINE a == Word("", <<"gen_csr_test.py">>)
             b == Word("", <<Hole, "asm_test">>)
  <2>1. line = <<a, b>>
    BY <1>1 DEF CommandLine
  <2>2. RelocWord(sim, test, a) = a /\ RelocWord(sim, test, b) = Word("", <<"scratch">>)
    BY WordsMove
  <2> HIDE DEF a, b, line
  <2>3. line \in Seq({a, b}) /\ Len(line) = 2 /\ line[1] = a /\ line[2] = b
    BY <2>1
  <2>4. {RelocWord(sim, test, line[i]) : i \in 1 .. 2}
          = {RelocWord(sim, test, a), RelocWord(sim, test, b)}
    <3>1. 1 .. 2 = {1, 2}
      OBVIOUS
    <3> QED BY <2>3, <3>1
  <2> QED BY <1>1, <2>2, <2>3, <2>4 DEF MovedWords, CsrWords, line, a
<1>2. CASE test # CsrTest
  <2> DEFINE c == AsmWord(test)
             d == LogWord(test)
  <2>1. RelocWord(sim, test, c) = TestWord /\ RelocWord(sim, test, d) = GenLogWord
    BY WordsMove
  <2>2. ASSUME NEW a, line = <<a, c, d>>, RelocWord(sim, test, a) \in Starters
        PROVE  /\ line \in Seq({a, c, d})
               /\ MovedWords(sim, test) \subseteq Starters \cup {TestWord, GenLogWord}
               /\ TestWord \in MovedWords(sim, test) /\ GenLogWord \in MovedWords(sim, test)
    <3> HIDE DEF c, d, line
    <3>1. /\ line \in Seq({a, c, d}) /\ Len(line) = 3
          /\ line[1] = a /\ line[2] = c /\ line[3] = d
      BY <2>2
    <3>2. 1 .. 3 = {1, 2, 3}
      OBVIOUS
    <3>3. MovedWords(sim, test) = {RelocWord(sim, test, a), TestWord, GenLogWord}
      BY <2>1, <3>1, <3>2 DEF MovedWords, line
    <3> QED BY <2>2, <3>1, <3>3
  <2>3. ASSUME NEW a, NEW b, line = <<a, b, c, d>>,
               RelocWord(sim, test, a) \in Starters, RelocWord(sim, test, b) \in Starters
        PROVE  /\ line \in Seq({a, b, c, d})
               /\ MovedWords(sim, test) \subseteq Starters \cup {TestWord, GenLogWord}
               /\ TestWord \in MovedWords(sim, test) /\ GenLogWord \in MovedWords(sim, test)
    <3> HIDE DEF c, d, line
    <3>1. /\ line \in Seq({a, b, c, d}) /\ Len(line) = 4
          /\ line[1] = a /\ line[2] = b /\ line[3] = c /\ line[4] = d
      BY <2>3
    <3>2. 1 .. 4 = {1, 2, 3, 4}
      OBVIOUS
    <3>3. MovedWords(sim, test)
            = {RelocWord(sim, test, a), RelocWord(sim, test, b), TestWord, GenLogWord}
      BY <2>1, <3>1, <3>2 DEF MovedWords, line
    <3> QED BY <2>3, <3>1, <3>3
  <2>4. CASE sim = "vcs"
    <3>1. line = <<Word("", <<Hole, "vcs_simv">>), c, d>>
      BY <1>2, <2>4 DEF CommandLine
    <3>2. RelocWord(sim, test, Word("", <<Hole, "vcs_simv">>)) \in Starters
      BY <2>4, WordsMove DEF SimOrig, SimReloc, Starters
    <3> QED BY <1>2, <2>2, <3>1, <3>2
  <2>5. CASE sim = "xlm"
    <3>1. line = <<Word("", <<"xrun">>), Word("", <<Hole>>), c, d>>
      BY <1>2, <2>5 DEF CommandLine
    <3>2. /\ RelocWord(sim, test, Word("", <<"xrun">>)) \in Starters
          /\ RelocWord(sim, test, Word("", <<Hole>>)) \in Starters
      BY <2>5, WordsMove DEF SimOrig, SimReloc, Starters
    <3> QED BY <1>2, <2>3, <3>1, <3>2
  <2>6. CASE sim = "dsim"
    <3>1. line = <<Word("", <<"dsim">>), Word("", <<Hole, "dsim">>), c, d>>
      BY <1>2, <2>6 DEF CommandLine
    <3>2. /\ RelocWord(sim, test, Word("", <<"dsim">>)) \in Starters
          /\ RelocWord(sim, test, Word("", <<Hole, "dsim">>)) \in Starters
      BY <2>6, WordsMove DEF SimOrig, SimReloc, Starters
    <3> QED BY <1>2, <2>3, <3>1, <3>2
  <2> QED BY <2>4, <2>5, <2>6 DEF GenSimulators
<1> QED BY <1>1, <1>2

\* No word is left pointing at the placeholder.
LEMMA NoneRefused ==
  ASSUME NEW sim \in GenSimulators, NEW test
  PROVE  LET commands == RelocCommands(sim, test, Commands(sim, test))
         IN /\ ~RelocFails(commands)
            /\ UNION {Range(commands[c]) : c \in DOMAIN commands} = MovedWords(sim, test)
<1>1. \A w \in Starters \cup {TestWord, GenLogWord} \cup CsrWords : ~Refused(w)
  BY RefusedIs DEF Starters, TestWord, GenLogWord, CsrWords, Hole
<1>2. \A w \in MovedWords(sim, test) : ~Refused(w)
  BY <1>1, MovedAre
<1>3. PICK S : CommandLine(sim, test) \in Seq(S)
  BY MovedAre
<1> DEFINE line == CommandLine(sim, test)
           moved == RelocCommands(sim, test, <<line>>)
<1>4. /\ UNION {Range(moved[c]) : c \in DOMAIN moved} = MovedWords(sim, test)
      /\ RelocFails(moved)
           <=> \E i \in 1 .. Len(line) : Refused(RelocWord(sim, test, line[i]))
  BY <1>3, OneLine DEF MovedWords
<1>5. \A i \in 1 .. Len(line) : RelocWord(sim, test, line[i]) \in MovedWords(sim, test)
  BY DEF MovedWords
<1>6. moved = RelocCommands(sim, test, Commands(sim, test))
  BY CommandsAre
<1> HIDE DEF moved, line
<1> QED BY <1>2, <1>4, <1>5, <1>6

\* The files of a test, and the one file of the CSR test.
LEMMA WrittenAre ==
  ASSUME NEW sim \in GenSimulators, NEW test
  PROVE  InScratch(test, RelocCommands(sim, test, Commands(sim, test)))
           = IF test = CsrTest THEN {"riscv_csr_test_0.S"} ELSE {"test_0.S", "gen.log"}
<1> DEFINE commands == RelocCommands(sim, test, Commands(sim, test))
<1>1. InScratch(test, commands) = UNION {WrittenFor(test, w) : w \in MovedWords(sim, test)}
  BY NoneRefused DEF InScratch
<1>2. \A p, q, x, y : Word(p, x) = Word(q, y) => p = q /\ x = y
  <2> SUFFICES ASSUME NEW p, NEW q, NEW x, NEW y, Word(p, x) = Word(q, y)
               PROVE  p = q /\ x = y
    OBVIOUS
  <2>1. /\ Word(p, x).pre = p /\ Word(p, x).path = x
        /\ Word(q, y).pre = q /\ Word(q, y).path = y
    BY DEF Word
  <2> QED BY <2>1
<1>3. /\ Scratch \o <<"test">> = <<"scratch", "test">>
      /\ Scratch \o <<"gen.log">> = <<"scratch", "gen.log">>
      /\ Scratch = <<"scratch">>
  BY PathsAre
<1>4. \A w : WrittenFor(test, w) =
        CASE w = TestWord -> {"test_0.S"}
          [] w = Word("", <<"scratch">>) /\ test = CsrTest -> {"riscv_csr_test_0.S"}
          [] w = GenLogWord -> {"gen.log"}
          [] OTHER -> {}
  BY <1>3 DEF WrittenFor, TestWord, GenLogWord
<1>5. TestWord # GenLogWord /\ TestWord # Word("", <<"scratch">>)
      /\ GenLogWord # Word("", <<"scratch">>)
  BY <1>2 DEF TestWord, GenLogWord
<1>6. /\ WrittenFor(test, TestWord) = {"test_0.S"}
      /\ WrittenFor(test, GenLogWord) = {"gen.log"}
      /\ test = CsrTest => WrittenFor(test, Word("", <<"scratch">>)) = {"riscv_csr_test_0.S"}
  BY <1>4, <1>5
<1>7. \A w \in Starters \cup {Word("", <<"gen_csr_test.py">>)} :
        w # TestWord /\ w # GenLogWord /\ w # Word("", <<"scratch">>)
  <2>1. ASSUME NEW w \in Starters \cup {Word("", <<"gen_csr_test.py">>)}
        PROVE  w.pre = "" /\ w.path[1] # "scratch"
    <3>1. PICK x \in {<<"build", "vcs_simv">>, <<"xrun">>, <<"build">>, <<"dsim">>,
                      <<"build", "dsim">>, <<"gen_csr_test.py">>} : w = Word("", x)
      BY Zenon DEF Starters
    <3>2. x[1] \in {"build", "xrun", "dsim", "gen_csr_test.py"}
      <4>1. (\A n : <<n>>[1] = n) /\ (\A m, n : <<m, n>>[1] = m)
        OBVIOUS
      <4> QED BY <3>1, <4>1
    <3>3. w.pre = "" /\ w.path = x
      BY <3>1 DEF Word
    <3> QED BY <3>2, <3>3
  <2>2. /\ TestWord.pre # "" /\ GenLogWord.path[1] = "scratch"
        /\ Word("", <<"scratch">>).path[1] = "scratch"
    BY DEF TestWord, GenLogWord, Word
  <2> QED BY <2>1, <2>2
<1>8. \A w \in Starters \cup {Word("", <<"gen_csr_test.py">>)} : WrittenFor(test, w) = {}
  BY <1>4, <1>7
<1>9. CASE test = CsrTest
  <2> DEFINE a == Word("", <<"gen_csr_test.py">>)
             b == Word("", <<"scratch">>)
  <2>1. MovedWords(sim, test) = {a, b}
    BY <1>9, MovedAre DEF CsrWords
  <2>2. WrittenFor(test, a) = {} /\ WrittenFor(test, b) = {"riscv_csr_test_0.S"}
    BY <1>6, <1>8, <1>9
  <2> HIDE DEF a, b
  <2>3. UNION {WrittenFor(test, w) : w \in {a, b}} = WrittenFor(test, a) \cup WrittenFor(test, b)
    OBVIOUS
  <2> QED BY <1>1, <1>9, <2>1, <2>2, <2>3
<1>10. CASE test # CsrTest
  <2>1. UNION {WrittenFor(test, w) : w \in MovedWords(sim, test)} \subseteq {"test_0.S", "gen.log"}
    <3>1. \A w \in MovedWords(sim, test) : WrittenFor(test, w) \subseteq {"test_0.S", "gen.log"}
      <4> TAKE w \in MovedWords(sim, test)
      <4>1. w \in Starters \/ w = TestWord \/ w = GenLogWord
        BY <1>10, MovedAre
      <4> QED BY <1>6, <1>8, <4>1
    <3> QED BY <3>1
  <2>2. {"test_0.S", "gen.log"} \subseteq UNION {WrittenFor(test, w) : w \in MovedWords(sim, test)}
    BY <1>6, <1>10, MovedAre
  <2> QED BY <1>1, <1>10, <2>1, <2>2
<1> QED BY <1>9, <1>10

\* What the rules of a test copy: all of it when the commands succeeded, the log
\* alone when they failed.
LEMMA RulesCopy ==
  ASSUME NEW test, NEW there
  PROVE  LET rules == FileCopies(test)
         IN /\ test = CsrTest =>
                 /\ Missing(rules, there, FALSE) <=> "riscv_csr_test_0.S" \notin there
                 /\ "riscv_csr_test_0.S" \in there => "test.S" \in Copied(rules, there, FALSE)
                 /\ Copied(rules, there, TRUE) = {}
            /\ test # CsrTest =>
                 /\ Missing(rules, there, FALSE)
                      <=> "gen.log" \notin there \/ "test_0.S" \notin there
                 /\ "test_0.S" \in there => "test.S" \in Copied(rules, there, FALSE)
                 /\ Copied(rules, there, TRUE) = {"gen.log"} \cap there
<1> DEFINE rules == FileCopies(test)
<1>1. CASE test = CsrTest
  <2>1. /\ Len(rules) = 1
        /\ rules[1].src = "riscv_csr_test_0.S" /\ rules[1].dst = "test.S" /\ ~rules[1].onFail
    BY <1>1 DEF FileCopies, CopyRule
  <2> HIDE DEF rules
  <2>2. 1 .. Len(rules) = {1}
    BY <2>1
  <2> QED BY <1>1, <2>1, <2>2 DEF Missing, Copied, rules
<1>2. CASE test # CsrTest
  <2>1. /\ Len(rules) = 2
        /\ rules[1].src = "gen.log" /\ rules[1].dst = "gen.log" /\ rules[1].onFail
        /\ rules[2].src = "test_0.S" /\ rules[2].dst = "test.S" /\ ~rules[2].onFail
    BY <1>2 DEF FileCopies, CopyRule
  <2> HIDE DEF rules
  <2>2. 1 .. Len(rules) = {1, 2}
    BY <2>1
  <2>3. Missing(rules, there, FALSE) <=> "gen.log" \notin there \/ "test_0.S" \notin there
    BY <2>1, <2>2 DEF Missing
  <2>4. "test_0.S" \in there => "test.S" \in Copied(rules, there, FALSE)
    BY <2>1, <2>2 DEF Copied
  <2>5. Copied(rules, there, TRUE) = {"gen.log"} \cap there
    BY <2>1, <2>2 DEF Copied
  <2> QED BY <1>2, <2>3, <2>4, <2>5 DEF rules
<1> QED BY <1>1, <1>2

\* What is promised of the copies, of one call.
CopiesRight(sim, test, failed, left) ==
  LET commands == RelocCommands(sim, test, Commands(sim, test))
      written == InScratch(test, commands)
      rules == FileCopies(test)
  IN /\ ~RelocFails(commands)
     /\ ~failed => ~Missing(rules, written, FALSE)
     /\ ~failed => "test.S" \in Copied(rules, written, FALSE)
     /\ failed => Copied(rules, written \cap left, TRUE)
                    = {"gen.log"} \cap written \cap left

\* They are right of every call.
LEMMA GenerationCopies ==
  ASSUME NEW sim \in GenSimulators, NEW test, NEW failed, NEW left
  PROVE  CopiesRight(sim, test, failed, left)
<1> DEFINE commands == RelocCommands(sim, test, Commands(sim, test))
           written == InScratch(test, commands)
           rules == FileCopies(test)
<1>1. ~RelocFails(commands)
  BY NoneRefused
<1>2. written = IF test = CsrTest THEN {"riscv_csr_test_0.S"} ELSE {"test_0.S", "gen.log"}
  BY WrittenAre
<1> HIDE DEF commands, written, rules
<1>3. ~Missing(rules, written, FALSE) /\ "test.S" \in Copied(rules, written, FALSE)
  <2>1. CASE test = CsrTest
    <3>1. /\ Missing(rules, written, FALSE) <=> "riscv_csr_test_0.S" \notin written
          /\ "riscv_csr_test_0.S" \in written => "test.S" \in Copied(rules, written, FALSE)
      BY <2>1, RulesCopy DEF rules
    <3> QED BY <1>2, <2>1, <3>1
  <2>2. CASE test # CsrTest
    <3>1. Missing(rules, written, FALSE)
            <=> "gen.log" \notin written \/ "test_0.S" \notin written
      BY <2>2, RulesCopy DEF rules
    <3>2. "test_0.S" \in written => "test.S" \in Copied(rules, written, FALSE)
      BY <2>2, RulesCopy DEF rules
    <3> QED BY <1>2, <2>2, <3>1, <3>2
  <2> QED BY <2>1, <2>2
<1>4. Copied(rules, written \cap left, TRUE) = {"gen.log"} \cap written \cap left
  <2>1. CASE test = CsrTest
    <3>1. Copied(rules, written \cap left, TRUE) = {}
      BY <2>1, RulesCopy DEF rules
    <3> QED BY <1>2, <2>1, <3>1
  <2>2. CASE test # CsrTest
    <3>1. Copied(rules, written \cap left, TRUE) = {"gen.log"} \cap (written \cap left)
      BY <2>2, RulesCopy DEF rules
    <3> QED BY <3>1
  <2> QED BY <2>1, <2>2
<1> QED BY <1>1, <1>3, <1>4 DEF CopiesRight, commands, written, rules

\* Whatever the generator and the test, and whatever of the results a failed
\* command has left, what is copied out of the scratch directory is what was to
\* be (run_instr_gen.py:28-147).
THEOREM WrittenIsCopied == ScriptsSpec => []CopiesWhatWasWritten
<1>1. InputIsACall => CopiesWhatWasWritten
  <2> SUFFICES ASSUME InputIsACall, input.kind = "gen"
               PROVE  CopiesWhatWasWritten
    BY DEF CopiesWhatWasWritten
  <2>1. input.arg.sim \in GenSimulators
    BY CallsAssumption DEF InputIsACall
  <2>2. CopiesRight(input.arg.sim, input.arg.test, input.arg.failed, input.arg.left)
    BY <2>1, GenerationCopies
  <2> QED BY <2>2, Zenon DEF CopiesRight, CopiesWhatWasWritten
<1> QED BY <1>1, InputHolds, PTL

-----------------------------------------------------------------------------
(* The choice of the tests.                                                 *)

\* What is kept of a list.
LEMMA KeepHas ==
  ASSUME NEW E, NEW list \in Seq(E), NEW kept
  PROVE  /\ Keep(list, kept) \in Seq(E)
         /\ Range(Keep(list, kept)) = Range(list) \cap kept
<1> DEFINE one(i) == IF list[i] \in kept THEN <<list[i]>> ELSE <<>>
           ss == [i \in DOMAIN list |-> one(i)]
           n == Len(list)
<1>1. n \in Nat /\ DOMAIN list = 1 .. n /\ \A i \in 1 .. n : list[i] \in E
  OBVIOUS
<1>2. \A i \in 1 .. n : one(i) \in Seq(E)
  BY <1>1
<1>3. ss \in [1 .. n -> Seq(E)]
  BY <1>1, <1>2
<1>4. /\ \A x : Range(<<x>>) = {x}
      /\ Range(<<>>) = {}
  BY DEF Range
<1>5. \A i \in 1 .. n : Range(ss[i]) = IF list[i] \in kept THEN {list[i]} ELSE {}
  BY <1>1, <1>4
<1>6. Range(list) = {list[i] : i \in 1 .. n}
  BY <1>1, Zenon DEF Range
<1>7. Keep(list, kept) = FlattenSeq(ss)
  BY Zenon DEF Keep
<1> HIDE DEF ss, n
<1>8. /\ FlattenSeq(ss) \in Seq(E)
      /\ \A x : x \in Range(FlattenSeq(ss)) <=> \E i \in 1 .. n : x \in Range(ss[i])
  BY <1>1, <1>3, FlatHas
<1>9. \A x : x \in Range(FlattenSeq(ss)) <=> x \in Range(list) \cap kept
  <2> TAKE x
  <2>1. \A i \in 1 .. n : x \in Range(ss[i]) <=> x = list[i] /\ list[i] \in kept
    BY <1>5
  <2>2. x \in Range(list) <=> \E i \in 1 .. n : x = list[i]
    BY <1>6
  <2> QED BY <1>8, <2>1, <2>2
<1> QED BY <1>7, <1>8, <1>9

\* Entries of test lists, whatever number of iterations they are given.
Entries(names, params) ==
  [name : names, iterations : Nat, hasParams : BOOLEAN, params : params]

\* A number of iterations of its own changes nothing else of an entry.
LEMMA OftenHas ==
  ASSUME NEW names, NEW params, NEW list \in Seq(Entries(names, params)),
         NEW iterations \in Nat
  PROVE  /\ Often(iterations, list) \in Seq(Entries(names, params))
         /\ Len(Often(iterations, list)) = Len(list)
         /\ \A i \in 1 .. Len(list) :
              LET e == Often(iterations, list)[i] IN
              /\ e.name = list[i].name /\ e.hasParams = list[i].hasParams
              /\ e.params = list[i].params
              /\ e.iterations = IF iterations > 0 THEN iterations ELSE list[i].iterations
<1>1. DOMAIN list = 1 .. Len(list) /\ Len(list) \in Nat
  OBVIOUS
<1> DEFINE o == Often(iterations, list)
<1>2. o = [i \in 1 .. Len(list) |->
             IF iterations > 0 THEN [list[i] EXCEPT !.iterations = iterations] ELSE list[i]]
  BY <1>1 DEF Often
<1>3. ASSUME NEW i \in 1 .. Len(list)
      PROVE  /\ o[i] \in Entries(names, params)
             /\ o[i].name = list[i].name /\ o[i].hasParams = list[i].hasParams
             /\ o[i].params = list[i].params
             /\ o[i].iterations = IF iterations > 0 THEN iterations ELSE list[i].iterations
  <2>1. list[i] \in Entries(names, params)
    OBVIOUS
  <2>2. o[i] = IF iterations > 0 THEN [list[i] EXCEPT !.iterations = iterations] ELSE list[i]
    BY <1>2
  <2> HIDE DEF o
  <2> QED BY <2>1, <2>2 DEF Entries
<1>4. o \in [1 .. Len(list) -> Entries(names, params)]
  BY <1>2, <1>3
<1>5. o \in Seq(Entries(names, params)) /\ Len(o) = Len(list)
  <2> HIDE DEF o
  <2> QED BY <1>1, <1>4
<1> QED BY <1>3, <1>5

\* A parameter after the first that does not agree is not looked at.
LEMMA AgreeingIs ==
  ASSUME NEW config, NEW E, NEW params \in Seq(E)
  PROVE  /\ Agreeing(config, params) \in 0 .. Len(params)
         /\ (\A i \in 1 .. Len(params) : ~Mismatch(config, params[i]))
              => Agreeing(config, params) = Len(params)
         /\ params # <<>> /\ Mismatch(config, params[1]) => Agreeing(config, params) = 0
<1> DEFINE bad == {i \in 1 .. Len(params) : Mismatch(config, params[i])}
           first == CHOOSE i \in bad : \A j \in bad : i <= j
<1>1. Len(params) \in Nat /\ bad \in SUBSET Nat /\ bad \subseteq 1 .. Len(params)
  OBVIOUS
<1>2. Agreeing(config, params) = IF bad = {} THEN Len(params) ELSE first - 1
  BY Zenon DEF Agreeing
<1>3. (\A i \in 1 .. Len(params) : ~Mismatch(config, params[i])) => bad = {}
  OBVIOUS
<1>4. params # <<>> /\ Mismatch(config, params[1]) => 1 \in bad
  OBVIOUS
<1>5. bad # {} => \E i \in bad : \A j \in bad : i <= j
  <2> HIDE DEF bad
  <2> QED BY <1>1, LeastElement
<1> HIDE DEF bad
<1>6. bad # {} => first \in bad /\ \A j \in bad : first <= j
  BY <1>5
<1> HIDE DEF first
<1>7. params # <<>> => Len(params) > 0
  OBVIOUS
<1> DEFINE n == Len(params)
           a == Agreeing(config, params)
<1>8. n \in Nat /\ bad \subseteq 1 .. n /\ a = IF bad = {} THEN n ELSE first - 1
  BY <1>1, <1>2, Zenon
<1>9. a \in 0 .. n /\ (bad = {} => a = n) /\ (1 \in bad => a = 0)
  <2> HIDE DEF n, a
  <2>1. CASE bad = {}
    BY <1>8, <2>1
  <2>2. CASE bad # {}
    <3>1. first \in 1 .. n /\ (1 \in bad => first <= 1)
      BY <1>6, <1>8, <2>2
    <3> QED BY <1>8, <2>2, <3>1
  <2> QED BY <2>1, <2>2
<1> QED BY <1>3, <1>4, <1>9, Zenon

\* What is filtered by a configuration.
LEMMA FilterHas ==
  ASSUME NEW E, NEW tests \in Seq(E), NEW config,
         \A t \in E : t.params \in Seq(Range(t.params))
  PROVE  /\ FilterTests(config, tests) \in Seq(E)
         /\ \A x : x \in Range(FilterTests(config, tests))
                     <=> x \in Range(tests) /\ (x.hasParams => Agreeing(config, x.params) > 0)
<1> DEFINE count(i) == IF tests[i].hasParams THEN Agreeing(config, tests[i].params) ELSE 1
           one(i) == [k \in 1 .. count(i) |-> tests[i]]
           ss == [i \in 1 .. Len(tests) |-> one(i)]
           n == Len(tests)
<1>1. n \in Nat /\ \A i \in 1 .. n : tests[i] \in E
  OBVIOUS
<1>2. ASSUME NEW i \in 1 .. n PROVE count(i) \in Nat
  <2>1. tests[i].params \in Seq(Range(tests[i].params))
    BY <1>1
  <2>2. Len(tests[i].params) \in Nat
    BY <2>1
  <2>3. Agreeing(config, tests[i].params) \in Nat
    BY <2>1, <2>2, AgreeingIs
  <2> QED BY <2>3
<1> HIDE DEF count
<1>3. ASSUME NEW i \in 1 .. n
      PROVE  one(i) \in Seq(E) /\ Range(one(i)) = IF count(i) > 0 THEN {tests[i]} ELSE {}
  <2>1. DOMAIN one(i) = 1 .. count(i) /\ \A k \in 1 .. count(i) : one(i)[k] = tests[i]
    OBVIOUS
  <2>2. one(i) \in [1 .. count(i) -> E]
    BY <1>1
  <2>3. one(i) \in Seq(E)
    <3>1. \A k \in Nat : \A u \in [1 .. k -> E] : u \in Seq(E)
      OBVIOUS
    <3> HIDE DEF one
    <3> QED BY <1>2, <2>2, <3>1, Zenon
  <2>4. Range(one(i)) = {one(i)[k] : k \in 1 .. count(i)}
    <3> HIDE DEF one
    <3> QED BY <2>1, Zenon DEF Range
  <2>5. count(i) > 0 => 1 \in 1 .. count(i)
    BY <1>2
  <2>6. ~ (count(i) > 0) => 1 .. count(i) = {}
    BY <1>2
  <2> HIDE DEF one
  <2> QED BY <2>1, <2>3, <2>4, <2>5, <2>6
<1>4. \A i \in 1 .. n : one(i) \in Seq(E)
  BY <1>3
<1>5. ss \in [1 .. n -> Seq(E)] /\ \A i \in 1 .. n : ss[i] = one(i)
  BY <1>4
<1>6. FilterTests(config, tests) = FlattenSeq(ss)
  BY Zenon DEF FilterTests, count
<1>7. Range(tests) = {tests[i] : i \in 1 .. n}
  <2>1. DOMAIN tests = 1 .. n
    OBVIOUS
  <2> HIDE DEF n
  <2> QED BY <2>1, Zenon DEF Range
<1> HIDE DEF ss, n, one
<1>8. /\ FlattenSeq(ss) \in Seq(E)
      /\ \A x : x \in Range(FlattenSeq(ss)) <=> \E i \in 1 .. n : x \in Range(ss[i])
  BY <1>1, <1>5, FlatHas
<1>9. ASSUME NEW x
      PROVE  x \in Range(FlattenSeq(ss))
               <=> x \in Range(tests) /\ (x.hasParams => Agreeing(config, x.params) > 0)
  <2>1. \A i \in 1 .. n : x \in Range(ss[i]) <=> x = tests[i] /\ count(i) > 0
    BY <1>3, <1>5
  <2>2. x \in Range(tests) <=> \E i \in 1 .. n : x = tests[i]
    BY <1>7
  <2>3. \A i \in 1 .. n : x = tests[i] =>
          (count(i) > 0 <=> (x.hasParams => Agreeing(config, x.params) > 0))
    <3>1. 1 > 0
      OBVIOUS
    <3> QED BY <3>1, Zenon DEF count
  <2> QED BY <1>8, <2>1, <2>2, <2>3
<1> QED BY <1>6, <1>8, <1>9

\* The entries that are asked for, and those that have iterations.
LEMMA MatchedHas ==
  ASSUME NEW E, NEW list \in Seq(E), NEW asked, NEW all
  PROVE  /\ Matched(asked, all, list) \in Seq(E)
         /\ \A e : e \in Range(Matched(asked, all, list))
                    <=> e \in Range(list) /\ AskedFor(asked, all, e)
         /\ Enabled(list) \in Seq(E)
         /\ \A e : e \in Range(Enabled(list)) <=> e \in Range(list) /\ e.iterations > 0
BY KeepHas DEF Matched, Enabled

\* Whether an entry is run as another: with a number of iterations of its own.
SameTest(e, f) == e.name = f.name /\ e.hasParams = f.hasParams /\ e.params = f.params

LEMMA OftenRange ==
  ASSUME NEW names, NEW params, NEW list \in Seq(Entries(names, params)),
         NEW iterations \in Nat
  PROVE  /\ Often(iterations, list) \in Seq(Entries(names, params))
         /\ \A f \in Range(list) : \E e \in Range(Often(iterations, list)) :
              SameTest(e, f) /\ (f.iterations > 0 => e.iterations > 0)
         /\ \A e \in Range(Often(iterations, list)) : \E f \in Range(list) : SameTest(e, f)
<1> DEFINE o == Often(iterations, list)
           n == Len(list)
<1>1. /\ o \in Seq(Entries(names, params)) /\ Len(o) = n
      /\ \A i \in 1 .. n :
           /\ o[i].name = list[i].name /\ o[i].hasParams = list[i].hasParams
           /\ o[i].params = list[i].params
           /\ o[i].iterations = IF iterations > 0 THEN iterations ELSE list[i].iterations
  BY OftenHas
<1> HIDE DEF o
<1>2. Range(list) = {list[i] : i \in 1 .. n} /\ Range(o) = {o[i] : i \in 1 .. n}
  <2>1. DOMAIN list = 1 .. n /\ DOMAIN o = 1 .. n
    BY <1>1
  <2> HIDE DEF n
  <2> QED BY <2>1, Zenon DEF Range
<1>3. \A i \in 1 .. n : /\ SameTest(o[i], list[i])
                        /\ list[i].iterations > 0 => o[i].iterations > 0
  BY <1>1, Zenon DEF SameTest
<1> HIDE DEF n
<1> QED BY <1>1, <1>2, <1>3 DEF o

\* What is run of the generated tests, and of the directed ones.
RunOf(config, asked, all, list, tests) ==
  /\ \A f \in Range(list) :
       /\ AskedFor(asked, all, f) /\ f.iterations > 0
       /\ f.hasParams => Agreeing(config, f.params) > 0
       => \E e \in Range(FilterTests(config, tests)) : e.name = f.name
  /\ \A e \in Range(FilterTests(config, tests)) : \E f \in Range(list) :
       /\ SameTest(e, f) /\ AskedFor(asked, all, f)
       /\ f.hasParams => Agreeing(config, f.params) > 0

\* Test lists are sequences over one set of entries.
LEMMA TestListOf ==
  ASSUME NEW list, TestList(list)
  PROVE  \E names, params :
           /\ list \in Seq(Entries(names, params))
           /\ \A e \in Entries(names, params) : e.params \in Seq(Range(e.params))
<1> DEFINE names == {e.name : e \in Range(list)}
           params == {e.params : e \in Range(list)}
<1>1. /\ list \in Seq(Range(list))
      /\ \A e \in Range(list) : e \in [name : {e.name}, iterations : Nat, hasParams : BOOLEAN,
                                       params : Seq(Range(e.params))]
  BY DEF TestList
<1>2. \A e \in Range(list) : e \in Entries(names, params) /\ e.params \in Seq(Range(e.params))
  BY <1>1 DEF Entries
<1>3. \A p \in params : p \in Seq(Range(p))
  BY <1>2
<1>4. \A e \in Entries(names, params) : e.params \in params
  BY DEF Entries
<1> HIDE DEF names, params
<1>5. Range(list) \subseteq Entries(names, params)
  BY <1>2
<1>6. list \in Seq(Entries(names, params))
  BY <1>1, <1>5
<1> QED BY <1>3, <1>4, <1>6

\* The generated tests that are run.
LEMMA RiscvdvRun ==
  ASSUME NEW list, TestList(list), NEW config, NEW asked, NEW iterations \in Nat
  PROVE  LET tests == RiscvdvMatched(asked, iterations, list) IN
         /\ RunOf(config, asked, AllRiscvdv, list, tests)
         /\ FilterTests(config, tests) \in Seq(Range(FilterTests(config, tests)))
<1>1. PICK names, params :
        /\ list \in Seq(Entries(names, params))
        /\ \A e \in Entries(names, params) : e.params \in Seq(Range(e.params))
  BY TestListOf
<1> DEFINE E == Entries(names, params)
           matched == Matched(asked, AllRiscvdv, Enabled(list))
           tests == Often(iterations, matched)
<1>2. /\ Enabled(list) \in Seq(E)
      /\ \A e : e \in Range(Enabled(list)) <=> e \in Range(list) /\ e.iterations > 0
  BY <1>1, MatchedHas
<1>3. /\ matched \in Seq(E)
      /\ \A e : e \in Range(matched) <=> e \in Range(Enabled(list)) /\ AskedFor(asked, AllRiscvdv, e)
  BY <1>2, MatchedHas
<1> HIDE DEF matched
<1>4. /\ tests \in Seq(E)
      /\ \A f \in Range(matched) : \E e \in Range(tests) :
           SameTest(e, f) /\ (f.iterations > 0 => e.iterations > 0)
      /\ \A e \in Range(tests) : \E f \in Range(matched) : SameTest(e, f)
  BY <1>3, OftenRange
<1> HIDE DEF tests
<1>5. /\ FilterTests(config, tests) \in Seq(E)
      /\ \A x : x \in Range(FilterTests(config, tests))
                  <=> x \in Range(tests) /\ (x.hasParams => Agreeing(config, x.params) > 0)
  BY <1>1, <1>4, FilterHas
<1>6. RunOf(config, asked, AllRiscvdv, list, tests)
  BY <1>2, <1>3, <1>4, <1>5 DEF RunOf, SameTest
<1>7. FilterTests(config, tests) \in Seq(Range(FilterTests(config, tests)))
  BY <1>5 DEF Range
<1>8. RiscvdvMatched(asked, iterations, list) = tests
  BY Zenon DEF RiscvdvMatched, tests, matched
<1> QED BY <1>6, <1>7, <1>8

\* The directed tests that are run.
LEMMA DirectedRun ==
  ASSUME NEW list, TestList(list), NEW config, NEW asked, NEW iterations \in Nat
  PROVE  LET tests == DirectedMatched(asked, iterations, list) IN
         /\ RunOf(config, asked, AllDirected, list, tests)
         /\ FilterTests(config, tests) \in Seq(Range(FilterTests(config, tests)))
<1>1. PICK names, params :
        /\ list \in Seq(Entries(names, params))
        /\ \A e \in Entries(names, params) : e.params \in Seq(Range(e.params))
  BY TestListOf
<1> DEFINE E == Entries(names, params)
           matched == Matched(asked, AllDirected, list)
           often == Often(iterations, matched)
           tests == Enabled(often)
<1>2. /\ matched \in Seq(E)
      /\ \A e : e \in Range(matched) <=> e \in Range(list) /\ AskedFor(asked, AllDirected, e)
  BY <1>1, MatchedHas
<1> HIDE DEF matched
<1>3. /\ often \in Seq(E)
      /\ \A f \in Range(matched) : \E e \in Range(often) :
           SameTest(e, f) /\ (f.iterations > 0 => e.iterations > 0)
      /\ \A e \in Range(often) : \E f \in Range(matched) : SameTest(e, f)
  BY <1>2, OftenRange
<1> HIDE DEF often
<1>4. /\ tests \in Seq(E)
      /\ \A e : e \in Range(tests) <=> e \in Range(often) /\ e.iterations > 0
  BY <1>3, MatchedHas
<1> HIDE DEF tests
<1>5. /\ FilterTests(config, tests) \in Seq(E)
      /\ \A x : x \in Range(FilterTests(config, tests))
                  <=> x \in Range(tests) /\ (x.hasParams => Agreeing(config, x.params) > 0)
  BY <1>1, <1>4, FilterHas
<1>6. RunOf(config, asked, AllDirected, list, tests)
  <2>1. ASSUME NEW f \in Range(list), AskedFor(asked, AllDirected, f), f.iterations > 0,
               f.hasParams => Agreeing(config, f.params) > 0
        PROVE  \E e \in Range(FilterTests(config, tests)) : e.name = f.name
    <3>1. PICK e \in Range(often) : SameTest(e, f) /\ e.iterations > 0
      BY <1>2, <1>3, <2>1
    <3> QED BY <1>4, <1>5, <2>1, <3>1, Zenon DEF SameTest
  <2>2. ASSUME NEW e \in Range(FilterTests(config, tests))
        PROVE  \E f \in Range(list) :
                 /\ SameTest(e, f) /\ AskedFor(asked, AllDirected, f)
                 /\ f.hasParams => Agreeing(config, f.params) > 0
    <3>1. PICK f \in Range(matched) : SameTest(e, f)
      BY <1>3, <1>4, <1>5
    <3> QED BY <1>2, <1>5, <3>1, Zenon DEF SameTest
  <2> QED BY <2>1, <2>2, Zenon DEF RunOf
<1>7. FilterTests(config, tests) \in Seq(Range(FilterTests(config, tests)))
  BY <1>5 DEF Range
<1>8. DirectedMatched(asked, iterations, list) = tests
  BY Zenon DEF DirectedMatched, tests, often, matched
<1> QED BY <1>6, <1>7, <1>8

\* How far the parameters of a test are looked at says enough of it.
LEMMA AgreeingTells ==
  ASSUME NEW list, TestList(list), NEW e \in Range(list), NEW config
  PROVE  /\ Supported(config, e) /\ e.hasParams /\ e.params # <<>>
              => Agreeing(config, e.params) > 0
         /\ (e.hasParams => Agreeing(config, e.params) > 0)
              => (Len(e.params) <= 1 => Supported(config, e))
<1>1. /\ e.params \in Seq(Range(e.params))
      /\ ~e.hasParams => e.params = <<>>
  BY DEF TestList
<1> DEFINE p == e.params
           n == Len(p)
           a == Agreeing(config, p)
<1>2. /\ a \in 0 .. n
      /\ (\A i \in 1 .. n : ~Mismatch(config, p[i])) => a = n
      /\ p # <<>> /\ Mismatch(config, p[1]) => a = 0
  BY <1>1, AgreeingIs
<1>3. n \in Nat /\ (p # <<>> <=> n > 0) /\ (p = <<>> <=> n = 0)
  BY <1>1
<1>4. Supported(config, e) <=> \A i \in 1 .. n : ~Mismatch(config, p[i])
  BY Zenon DEF Supported
<1> HIDE DEF p, n, a
<1>5. n <= 1 => (Supported(config, e) <=> n = 0 \/ ~Mismatch(config, p[1]))
  BY <1>3, <1>4
<1>6. ~e.hasParams => n = 0
  BY <1>1, <1>3 DEF p
<1>7. Supported(config, e) /\ e.hasParams /\ p # <<>> => a > 0
  BY <1>2, <1>3, <1>4
<1>8. (e.hasParams => a > 0) => (n <= 1 => Supported(config, e))
  BY <1>2, <1>3, <1>5, <1>6
<1> QED BY <1>7, <1>8 DEF p, n, a

\* Both lists: what is run of any entry.
LEMMA FilteredRight ==
  ASSUME NEW config, NEW asked, NEW iterations \in Nat, NEW lists, TestLists(lists),
         NEW e \in Range(lists.riscvdv) \cup Range(lists.directed)
  PROVE  LET isAsked == IF e \in Range(lists.riscvdv) THEN AskedFor(asked, AllRiscvdv, e)
                                                      ELSE AskedFor(asked, AllDirected, e)
             run == {x.name : x \in Range(TestsToRun(config, asked, iterations, lists))}
         IN /\ isAsked /\ e.iterations > 0 /\ Supported(config, e)
                 /\ (e.hasParams => e.params # <<>>) => e.name \in run
            /\ e.name \in run =>
                 isAsked /\ (Len(e.params) <= 1 => Supported(config, e))
<1> DEFINE isAsked == IF e \in Range(lists.riscvdv) THEN AskedFor(asked, AllRiscvdv, e)
                                                    ELSE AskedFor(asked, AllDirected, e)
           run == {x.name : x \in Range(TestsToRun(config, asked, iterations, lists))}
           r == RiscvdvMatched(asked, iterations, lists.riscvdv)
           d == DirectedMatched(asked, iterations, lists.directed)
           agrees(f) == f.hasParams => Agreeing(config, f.params) > 0
<1>1. /\ TestList(lists.riscvdv) /\ TestList(lists.directed)
      /\ \A f \in Range(lists.riscvdv), g \in Range(lists.directed) : f.name # g.name
      /\ \A f, g \in Range(lists.riscvdv) : f.name = g.name => f = g
      /\ \A f, g \in Range(lists.directed) : f.name = g.name => f = g
  BY DEF TestLists, TestList
<1>2. /\ RunOf(config, asked, AllRiscvdv, lists.riscvdv, r)
      /\ FilterTests(config, r) \in Seq(Range(FilterTests(config, r)))
  BY <1>1, RiscvdvRun
<1>3. /\ RunOf(config, asked, AllDirected, lists.directed, d)
      /\ FilterTests(config, d) \in Seq(Range(FilterTests(config, d)))
  BY <1>1, DirectedRun
<1>4. TestsToRun(config, asked, iterations, lists) = FilterTests(config, r) \o FilterTests(config, d)
  BY Zenon DEF TestsToRun
<1> HIDE DEF r, d
<1>5. Range(TestsToRun(config, asked, iterations, lists))
        = Range(FilterTests(config, r)) \cup Range(FilterTests(config, d))
  <2> DEFINE u == FilterTests(config, r)
             v == FilterTests(config, d)
             V == Range(u) \cup Range(v)
  <2>1. u \in Seq(Range(u)) /\ v \in Seq(Range(v)) /\ Range(u) \subseteq V /\ Range(v) \subseteq V
    BY <1>2, <1>3
  <2> HIDE DEF u, v, V
  <2>2. u \in Seq(V) /\ v \in Seq(V)
    BY <2>1
  <2> QED BY <1>4, <2>2, ConcatRange DEF u, v
<1>6. \A n : n \in run <=> \/ \E x \in Range(FilterTests(config, r)) : x.name = n
                           \/ \E x \in Range(FilterTests(config, d)) : x.name = n
  BY <1>5
<1>7. \A f \in Range(lists.riscvdv) :
         f.name \in run <=> \E x \in Range(FilterTests(config, r)) : x.name = f.name
  BY <1>1, <1>3, <1>6 DEF RunOf, SameTest
<1>8. \A f \in Range(lists.directed) :
         f.name \in run <=> \E x \in Range(FilterTests(config, d)) : x.name = f.name
  <2> TAKE f \in Range(lists.directed)
  <2>1. ASSUME NEW x \in Range(FilterTests(config, r)) PROVE x.name # f.name
    <3>1. PICK g \in Range(lists.riscvdv) : SameTest(x, g)
      BY <1>2 DEF RunOf
    <3> QED BY <1>1, <3>1, Zenon DEF SameTest
  <2> HIDE DEF run
  <2> QED BY <1>6, <2>1
<1> HIDE DEF run
<1>9. /\ isAsked /\ e.iterations > 0 /\ agrees(e) => e.name \in run
      /\ e.name \in run => isAsked /\ agrees(e)
  <2>1. CASE e \in Range(lists.riscvdv)
    BY <1>1, <1>2, <1>7, <2>1 DEF RunOf, SameTest
  <2>2. CASE e \in Range(lists.directed)
    <3>1. e \notin Range(lists.riscvdv)
      BY <1>1, <2>2
    <3> QED BY <1>1, <1>3, <1>8, <2>2, <3>1 DEF RunOf, SameTest
  <2> QED BY <2>1, <2>2
<1>10. /\ Supported(config, e) /\ e.hasParams /\ e.params # <<>> => Agreeing(config, e.params) > 0
       /\ agrees(e) => (Len(e.params) <= 1 => Supported(config, e))
  BY <1>1, AgreeingTells
<1> QED BY <1>9, <1>10 DEF run

\* For any test lists whose entries have names of their own, a test of either
\* that is asked for, has iterations and is supported by the configuration is
\* run, and none that was not asked for or, naming one parameter, is not
\* supported (metadata.py:260-333, ibex_cmd.py:126-189).
THEOREM SupportedRun == ScriptsSpec => []SupportedTestsRun
<1>1. InputIsACall => SupportedTestsRun
  <2> SUFFICES ASSUME InputIsACall, input.kind = "filter" PROVE SupportedTestsRun
    BY DEF SupportedTestsRun
  <2> DEFINE lists == input.arg.lists
  <2>1. TestLists(lists) /\ input.arg.iterations \in Nat
    BY CallsAssumption DEF InputIsACall
  <2> HIDE DEF lists
  <2>2. ASSUME NEW e \in Range(lists.riscvdv) \cup Range(lists.directed)
        PROVE  LET isAsked == IF e \in Range(lists.riscvdv)
                                THEN AskedFor(input.arg.asked, AllRiscvdv, e)
                                ELSE AskedFor(input.arg.asked, AllDirected, e)
                   run == {x.name : x \in Range(TestsToRun(input.arg.config, input.arg.asked,
                                                           input.arg.iterations, lists))}
               IN /\ isAsked /\ e.iterations > 0 /\ Supported(input.arg.config, e)
                       /\ (e.hasParams => e.params # <<>>) => e.name \in run
                  /\ e.name \in run =>
                       isAsked /\ (Len(e.params) <= 1 => Supported(input.arg.config, e))
    BY <2>1, FilteredRight
  <2> QED BY <2>2, Zenon DEF SupportedTestsRun, lists
<1> QED BY <1>1, InputHolds, PTL

-----------------------------------------------------------------------------
(* The verdict on a log.                                                    *)

\* Any log, of any length, passes if and only if it reports a pass and no
\* failure, and no error before; and it is given a verdict unless it fails
\* without an error (ibex_log_to_trace_csv.py:177-251).
THEOREM LogsJudged == ScriptsSpec => []LogVerdict
<1>1. InputIsACall => LogVerdict
  <2> SUFFICES ASSUME InputIsACall, input.kind = "log" PROVE LogVerdict
    BY DEF LogVerdict
  <2> DEFINE lines == input.arg
  <2>1. lines \in Seq(LogLine)
    BY CallsAssumption DEF InputIsACall
  <2> HIDE DEF lines
  <2>2. /\ CheckUvmLog(lines).passed <=> Passes(lines)
        /\ CheckUvmLog(lines).raises <=>
             /\ \E i \in 1 .. Len(lines) : lines[i] = "failed"
             /\ \A i \in 1 .. Len(lines) :
                  (\A j \in 1 .. i - 1 : lines[j] \notin Results) => lines[i] \notin Markers
    BY <2>1, LogIsJudged
  <2> QED BY <2>2, Zenon DEF LogVerdict, lines
<1> QED BY <1>1, InputHolds, PTL

-----------------------------------------------------------------------------
(* The golden model.                                                        *)

Arrays == [a : [Element -> Int], mul : [Element -> Int], acc : [Element -> Int]]
Weights == [1 .. Dim * Dim -> 0 .. 255]
Activations == [Index -> 0 .. 255]

\* Places in the array.
LEMMA Elements ==
  /\ Index = {1, 2, 3, 4} /\ Index = 1 .. 4
  /\ \A e \in Element : /\ e[1] \in Index /\ e[2] \in Index /\ e = <<e[1], e[2]>>
                        /\ Dim * (e[1] - 1) + e[2] \in 1 .. Dim * Dim
                        /\ e[1] # 1 => <<e[1] - 1, e[2]>> \in Element
                        /\ e[2] # 1 => <<e[1], e[2] - 1>> \in Element
  /\ \A r, c \in Index : <<r, c>> \in Element
<1>1. Index = {1, 2, 3, 4} /\ Index = 1 .. 4
  BY DEF Index, Dim
<1>2. ASSUME NEW e \in Element
      PROVE  /\ e[1] \in Index /\ e[2] \in Index /\ e = <<e[1], e[2]>>
             /\ Dim * (e[1] - 1) + e[2] \in 1 .. Dim * Dim
             /\ e[1] # 1 => <<e[1] - 1, e[2]>> \in Element
             /\ e[2] # 1 => <<e[1], e[2] - 1>> \in Element
  <2>1. e[1] \in Index /\ e[2] \in Index /\ e = <<e[1], e[2]>>
    BY DEF Element
  <2>2. Dim * (e[1] - 1) + e[2] \in 1 .. Dim * Dim
    BY <1>1, <2>1 DEF Dim
  <2>3. /\ e[1] # 1 => e[1] - 1 \in Index
        /\ e[2] # 1 => e[2] - 1 \in Index
    BY <1>1, <2>1
  <2> QED BY <2>1, <2>2, <2>3 DEF Element
<1> QED BY <1>1, <1>2 DEF Element

\* Bytes are integers, and registers stay what they are.
LEMMA SignedType == \A byte \in 0 .. 255 : Signed(byte) \in Int
BY DEF Signed

LEMMA ArrayStepType ==
  ASSUME NEW weights \in Weights, NEW feed \in Activations, NEW arr \in Arrays
  PROVE  ArrayStep(weights, feed, arr) \in Arrays
<1>1. /\ arr.a \in [Element -> Int] /\ arr.mul \in [Element -> Int]
      /\ arr.acc \in [Element -> Int]
  BY DEF Arrays
<1>2. ASSUME NEW e \in Element
      PROVE  /\ Signed(feed[e[1]]) \in Int
             /\ Signed(weights[Dim * (e[1] - 1) + e[2]]) \in Int
             /\ e[2] # 1 => arr.a[<<e[1], e[2] - 1>>] \in Int
             /\ AccAbove(arr, e) \in Int
             /\ arr.a[e] \in Int /\ arr.mul[e] \in Int
  <2>1. feed[e[1]] \in 0 .. 255 /\ weights[Dim * (e[1] - 1) + e[2]] \in 0 .. 255
    BY Elements DEF Weights, Activations
  <2>2. e[2] # 1 => arr.a[<<e[1], e[2] - 1>>] \in Int
    BY <1>1, Elements
  <2>3. AccAbove(arr, e) \in Int
    <3>1. e[1] # 1 => arr.acc[<<e[1] - 1, e[2]>>] \in Int
      BY <1>1, Elements
    <3>2. 0 \in Int
      OBVIOUS
    <3> QED BY <3>1, <3>2, Zenon DEF AccAbove
  <2> QED BY <1>1, <2>1, <2>2, <2>3, SignedType
<1> DEFINE x == [e \in Element |-> IF e[2] = 1 THEN Signed(feed[e[1]]) ELSE arr.a[<<e[1], e[2] - 1>>]]
           y == [e \in Element |-> arr.a[e] * Signed(weights[Dim * (e[1] - 1) + e[2]])]
           z == [e \in Element |-> AccAbove(arr, e) + arr.mul[e]]
<1>3. x \in [Element -> Int] /\ y \in [Element -> Int] /\ z \in [Element -> Int]
  <2>1. \A i, j \in Int : i * j \in Int /\ i + j \in Int
    OBVIOUS
  <2>2. ASSUME NEW e \in Element
        PROVE  /\ arr.a[e] * Signed(weights[Dim * (e[1] - 1) + e[2]]) \in Int
               /\ AccAbove(arr, e) + arr.mul[e] \in Int
               /\ (IF e[2] = 1 THEN Signed(feed[e[1]]) ELSE arr.a[<<e[1], e[2] - 1>>]) \in Int
    BY <1>2, <2>1, Zenon
  <2> QED BY <2>2, Zenon
<1>4. ArrayStep(weights, feed, arr) = [a |-> x, mul |-> y, acc |-> z]
  BY DEF ArrayStep
<1> HIDE DEF x, y, z
<1> QED BY <1>3, <1>4 DEF Arrays

LEMMA ArrayResetType == ArrayReset \in Arrays
BY DEF ArrayReset, Arrays

Feeds(activations) == [cycle \in 1 .. 8 |-> IF cycle <= 4 THEN activations ELSE NoFeed]

\* The states of the array, cycle by cycle; the last is what FoldLeft computes.
LEMMA ArraySteps ==
  ASSUME NEW weights \in Weights, NEW activations \in Activations
  PROVE  LET feeds == Feeds(activations) IN
         \E G : /\ G[0] = ArrayReset
                /\ \A k \in 1 .. 8 : G[k] = ArrayStep(weights, feeds[k], G[k - 1])
                /\ FoldLeft(LAMBDA arr, feed : ArrayStep(weights, feed, arr), ArrayReset, feeds)
                     = G[8]
<1> DEFINE feeds == Feeds(activations)
           Sets == SUBSET (1 .. 8)
           Body(f) == [s \in Sets |-> IF s = {} THEN ArrayReset
                         ELSE LET x == Max(s) IN ArrayStep(weights, feeds[x], f[s \ {x}])]
           C == CHOOSE f : f = Body(f)
           step == [p \in Nat \X Arrays |->
                      IF p[1] \in 1 .. 8 THEN ArrayStep(weights, feeds[p[1]], p[2]) ELSE p[2]]
<1>0. DOMAIN feeds = 1 .. 8 /\ \A k \in 1 .. 8 : feeds[k] \in Activations
  BY DEF Feeds, NoFeed, Activations
<1>1. FoldLeft(LAMBDA arr, feed : ArrayStep(weights, feed, arr), ArrayReset, feeds) = C[1 .. 8]
  BY <1>0 DEF FoldLeft, MapThenFoldSet
<1> HIDE DEF feeds
<1>2. step \in [Nat \X Arrays -> Arrays]
  BY <1>0, ArrayStepType
<1>3. ArrayReset \in Arrays
  BY ArrayResetType
<1> HIDE DEF step
<1>4. PICK F \in [Sets -> Arrays] : BySets(F, 8, ArrayReset, step)
  BY <1>2, <1>3, DefinedBySets
<1>5. \A s \in Sets : F[s] = IF s = {} THEN ArrayReset ELSE step[<<Max(s), F[s \ {Max(s)}]>>]
  BY <1>4 DEF BySets
<1>6. ASSUME NEW s \in Sets, s # {}
      PROVE  step[<<Max(s), F[s \ {Max(s)}]>>] = ArrayStep(weights, feeds[Max(s)], F[s \ {Max(s)}])
  <2>1. Max(s) \in s
    BY <1>6, MaxIs
  <2> DEFINE x == Max(s)
             y == F[s \ {x}]
  <2>2. x \in 1 .. 8 /\ x \in Nat /\ y \in Arrays
    <3>1. x \in 1 .. 8 /\ s \ {x} \in Sets
      BY <2>1
    <3> QED BY <1>4, <3>1
  <2> HIDE DEF x, y
  <2>3. <<x, y>> \in Nat \X Arrays /\ <<x, y>>[1] = x /\ <<x, y>>[2] = y
    BY <2>2
  <2>4. step[<<x, y>>] = ArrayStep(weights, feeds[x], y)
    BY <2>2, <2>3, Zenon DEF step
  <2> QED BY <2>4 DEF x, y
<1>7. F = Body(F)
  <2>1. \A s \in Sets : F[s] = Body(F)[s]
    <3> TAKE s \in Sets
    <3>1. Body(F)[s] = IF s = {} THEN ArrayReset
                       ELSE ArrayStep(weights, feeds[Max(s)], F[s \ {Max(s)}])
      BY Zenon
    <3> QED BY <1>5, <1>6, <3>1, Zenon
  <2>2. DOMAIN F = Sets
    OBVIOUS
  <2> QED BY <2>1, <2>2, Zenon
<1>8. C = Body(C)
  BY <1>7
<1> HIDE DEF C
<1>9. \A s \in Sets : C[s] = IF s = {} THEN ArrayReset
                             ELSE ArrayStep(weights, feeds[Max(s)], C[s \ {Max(s)}])
  BY <1>8, Zenon
<1> DEFINE G == [k \in 0 .. 8 |-> C[1 .. k]]
<1>10. G[0] = ArrayReset
  <2>1. 1 .. 0 = {} /\ {} \in Sets /\ 0 \in 0 .. 8
    OBVIOUS
  <2> QED BY <1>9, <2>1
<1>11. ASSUME NEW k \in 1 .. 8 PROVE G[k] = ArrayStep(weights, feeds[k], G[k - 1])
  <2>1. /\ 1 .. k \in Sets /\ k \in Nat /\ k # 0
        /\ k \in 0 .. 8 /\ k - 1 \in 0 .. 8
    OBVIOUS
  <2>2. C[1 .. k] = ArrayStep(weights, feeds[k], C[1 .. k - 1])
    <3>1. 1 .. k # {} /\ Max(1 .. k) = k /\ (1 .. k) \ {k} = 1 .. k - 1
      BY <2>1, FirstNumbers
    <3>2. C[1 .. k] = ArrayStep(weights, feeds[Max(1 .. k)], C[(1 .. k) \ {Max(1 .. k)}])
      BY <1>9, <2>1, <3>1, Zenon
    <3> QED BY <3>1, <3>2, Zenon
  <2>3. G[k] = C[1 .. k] /\ G[k - 1] = C[1 .. k - 1]
    BY <2>1
  <2> QED BY <2>2, <2>3
<1>12. G[8] = C[1 .. 8]
  OBVIOUS
<1> HIDE DEF G
<1> QED BY <1>1, <1>10, <1>11, <1>12 DEF feeds


\* One cycle, element by element.
Stepped(weights, feed, arr, next) ==
  \A r, c \in Index :
    /\ next.a[<<r, c>>] = IF c = 1 THEN Signed(feed[r]) ELSE arr.a[<<r, c - 1>>]
    /\ next.mul[<<r, c>>] = arr.a[<<r, c>>] * Signed(weights[Dim * (r - 1) + c])
    /\ next.acc[<<r, c>>] = (IF r = 1 THEN 0 ELSE arr.acc[<<r - 1, c>>]) + arr.mul[<<r, c>>]

LEMMA ArrayStepIs ==
  ASSUME NEW weights, NEW feed, NEW arr
  PROVE  Stepped(weights, feed, arr, ArrayStep(weights, feed, arr))
<1> DEFINE next == ArrayStep(weights, feed, arr)
<1> SUFFICES ASSUME NEW r \in Index, NEW c \in Index
             PROVE  /\ next.a[<<r, c>>] = IF c = 1 THEN Signed(feed[r]) ELSE arr.a[<<r, c - 1>>]
                    /\ next.mul[<<r, c>>] = arr.a[<<r, c>>] * Signed(weights[Dim * (r - 1) + c])
                    /\ next.acc[<<r, c>>]
                         = (IF r = 1 THEN 0 ELSE arr.acc[<<r - 1, c>>]) + arr.mul[<<r, c>>]
  BY Zenon DEF Stepped
<1> DEFINE e == <<r, c>>
<1>1. e \in Element /\ e[1] = r /\ e[2] = c
  BY Elements
<1> HIDE DEF e
<1>2.    /\ next.a[e] = IF e[2] = 1 THEN Signed(feed[e[1]]) ELSE arr.a[<<e[1], e[2] - 1>>]
         /\ next.mul[e] = arr.a[e] * Signed(weights[Dim * (e[1] - 1) + e[2]])
         /\ next.acc[e] = AccAbove(arr, e) + arr.mul[e]
  BY <1>1, Zenon DEF ArrayStep
<1>3. AccAbove(arr, e) = IF e[1] = 1 THEN 0 ELSE arr.acc[<<e[1] - 1, e[2]>>]
  BY Zenon DEF AccAbove
<1> QED BY <1>1, <1>2, <1>3, Zenon DEF e

\* The band: an activation is at column c from cycle c on, for four cycles.
InBand(k, c) == c <= k /\ k <= c + 3

\* The sum that leaves the last row, for any bytes.
LEMMA MacIsBanded ==
  ASSUME NEW weights \in Weights, NEW activations \in Activations
  PROVE  MacModel(weights, activations) = Banded(weights, activations)
<1> DEFINE feeds == Feeds(activations)
           W(r, c) == Signed(weights[Dim * (r - 1) + c])
           X(r) == Signed(activations[r])
<1>1. PICK G : /\ G[0] = ArrayReset
               /\ \A k \in 1 .. 8 : G[k] = ArrayStep(weights, feeds[k], G[k - 1])
               /\ FoldLeft(LAMBDA arr, feed : ArrayStep(weights, feed, arr), ArrayReset, feeds)
                    = G[8]
  BY ArraySteps
<1>2. MacModel(weights, activations) = [c \in Index |-> G[8].acc[<<Dim, c>>]]
  BY <1>1, Zenon DEF MacModel, Feeds
<1>3. /\ \A k \in 1 .. 8 : feeds[k] \in Activations
      /\ \A k \in 1 .. 8, r \in Index : Signed(feeds[k][r]) = IF k <= 4 THEN X(r) ELSE 0
  BY DEF Feeds, NoFeed, Activations, Signed
<1>4. \A r, c \in Index : W(r, c) \in Int /\ X(r) \in Int
  <2> TAKE r, c \in Index
  <2>1. Dim * (r - 1) + c \in 1 .. Dim * Dim
    BY Elements DEF Dim
  <2>2. weights[Dim * (r - 1) + c] \in 0 .. 255 /\ activations[r] \in 0 .. 255
    BY <2>1 DEF Weights, Activations
  <2> QED BY <2>2, SignedType
<1> HIDE DEF feeds, W, X
<1> DEFINE Known(k) == /\ G[k] \in Arrays
                       /\ \A r, c \in Index :
                            G[k].a[<<r, c>>] = IF InBand(k, c) THEN X(r) ELSE 0
           T == {k \in Nat : k <= 8 => Known(k)}
<1>5. 0 \in T
  <2>1. \A r, c \in Index : ArrayReset.a[<<r, c>>] = 0 /\ ~InBand(0, c)
    BY Elements DEF ArrayReset, InBand
  <2> QED BY <1>1, <2>1, ArrayResetType
<1>6. ASSUME NEW k \in T PROVE k + 1 \in T
  <2>1. SUFFICES ASSUME k + 1 <= 8 PROVE Known(k + 1)
    OBVIOUS
  <2>2. k \in 0 .. 7 /\ k + 1 \in 1 .. 8 /\ (k + 1) - 1 = k /\ Known(k)
    BY <1>6, <2>1
  <2>3. G[k + 1] = ArrayStep(weights, feeds[k + 1], G[k]) /\ feeds[k + 1] \in Activations
    BY <1>1, <1>3, <2>2
  <2>4. G[k + 1] \in Arrays
    BY <2>2, <2>3, ArrayStepType
  <2>5. ASSUME NEW r \in Index, NEW c \in Index
        PROVE  G[k + 1].a[<<r, c>>] = IF InBand(k + 1, c) THEN X(r) ELSE 0
    <3>1. G[k + 1].a[<<r, c>>]
            = IF c = 1 THEN Signed(feeds[k + 1][r]) ELSE G[k].a[<<r, c - 1>>]
      <4>1. Stepped(weights, feeds[k + 1], G[k], G[k + 1])
        BY <2>3, ArrayStepIs, Zenon
      <4> DEFINE next == G[k + 1]
                 arr == G[k]
                 feed == feeds[k + 1]
      <4> HIDE DEF next, arr, feed
      <4>2. Stepped(weights, feed, arr, next)
        BY <4>1, Zenon DEF next, arr, feed
      <4>3. next.a[<<r, c>>] = IF c = 1 THEN Signed(feed[r]) ELSE arr.a[<<r, c - 1>>]
        BY <4>2, Zenon DEF Stepped
      <4> QED BY <4>3, Zenon DEF next, arr, feed
    <3>2. Signed(feeds[k + 1][r]) = IF k + 1 <= 4 THEN X(r) ELSE 0
      BY <1>3, <2>2
    <3>3. CASE c = 1
      <4>1. InBand(k + 1, c) <=> k + 1 <= 4
        BY <2>2, <3>3 DEF InBand
      <4> QED BY <3>1, <3>2, <3>3, <4>1
    <3>4. CASE c # 1
      <4>1. c - 1 \in Index /\ (InBand(k + 1, c) <=> InBand(k, c - 1))
        BY <2>2, <3>4, Elements DEF InBand
      <4>2. G[k].a[<<r, c - 1>>] = IF InBand(k, c - 1) THEN X(r) ELSE 0
        BY <2>2, <4>1
      <4> QED BY <3>1, <3>4, <4>1, <4>2
    <3> QED BY <3>3, <3>4
  <2> QED BY <2>4, <2>5
<1>7. \A k \in 0 .. 8 : Known(k)
  <2>1. T \in SUBSET Nat
    OBVIOUS
  <2>2. T = Nat
    <3> HIDE DEF T
    <3> QED BY <1>5, <1>6, <2>1, Induction
  <2> QED BY <2>2
<1> HIDE DEF Known, T
<1> DEFINE Term(r, c) == IF r \in c - 2 .. c + 1 THEN W(r, c) * X(r) ELSE 0
<1>8. ASSUME NEW r \in Index, NEW c \in Index
      PROVE  G[r + 3].mul[<<r, c>>] = Term(r, c) /\ Term(r, c) \in Int
  <2>1. r + 3 \in 1 .. 8 /\ r + 2 \in 0 .. 8 /\ (r + 3) - 1 = r + 2
    BY Elements
  <2>2. G[r + 3] = ArrayStep(weights, feeds[r + 3], G[r + 2])
    BY <1>1, <2>1
  <2>3. G[r + 3].mul[<<r, c>>] = G[r + 2].a[<<r, c>>] * W(r, c)
    <3>1. Stepped(weights, feeds[r + 3], G[r + 2], G[r + 3])
      BY <2>2, ArrayStepIs, Zenon
    <3> QED BY <3>1, Zenon DEF Stepped, W
  <2>4. G[r + 2].a[<<r, c>>] = IF InBand(r + 2, c) THEN X(r) ELSE 0
    BY <1>7, <2>1 DEF Known
  <2>5. InBand(r + 2, c) <=> r \in c - 2 .. c + 1
    BY Elements DEF InBand
  <2>6. /\ \A i, j \in Int : i * j = j * i /\ i * j \in Int
        /\ \A j \in Int : 0 * j = 0
    OBVIOUS
  <2> QED BY <1>4, <2>3, <2>4, <2>5, <2>6
<1>9. ASSUME NEW c \in Index
      PROVE  G[8].acc[<<4, c>>] = Term(1, c) + Term(2, c) + Term(3, c) + Term(4, c)
  <2>1. ASSUME NEW k \in 5 .. 8, NEW r \in Index
        PROVE  G[k].acc[<<r, c>>]
                 = (IF r = 1 THEN 0 ELSE G[k - 1].acc[<<r - 1, c>>]) + G[k - 1].mul[<<r, c>>]
    <3>1. k \in 1 .. 8 /\ k - 1 \in 0 .. 8
      OBVIOUS
    <3>2. G[k] = ArrayStep(weights, feeds[k], G[k - 1])
      BY <1>1, <3>1
    <3>3. Stepped(weights, feeds[k], G[k - 1], G[k])
      BY <3>2, ArrayStepIs, Zenon
    <3> QED BY <3>3, Zenon DEF Stepped
  <2>2. 1 \in Index /\ 2 \in Index /\ 3 \in Index /\ 4 \in Index
    BY Elements
  <2>3. /\ G[8].acc[<<4, c>>] = G[7].acc[<<3, c>>] + G[7].mul[<<4, c>>]
        /\ G[7].acc[<<3, c>>] = G[6].acc[<<2, c>>] + G[6].mul[<<3, c>>]
        /\ G[6].acc[<<2, c>>] = G[5].acc[<<1, c>>] + G[5].mul[<<2, c>>]
        /\ G[5].acc[<<1, c>>] = 0 + G[4].mul[<<1, c>>]
    <3>1. G[8].acc[<<4, c>>] = G[7].acc[<<3, c>>] + G[7].mul[<<4, c>>]
      <4>1. 8 \in 5 .. 8 /\ 8 - 1 = 7 /\ 4 \in Index /\ 4 # 1 /\ 4 - 1 = 3
        BY <2>2
      <4>2. G[8].acc[<<4, c>>] = (IF 4 = 1 THEN 0 ELSE G[8 - 1].acc[<<4 - 1, c>>]) + G[8 - 1].mul[<<4, c>>]
        BY <4>1, <2>1, Zenon
      <4> QED BY <4>1, <4>2
    <3>2. G[7].acc[<<3, c>>] = G[6].acc[<<2, c>>] + G[6].mul[<<3, c>>]
      <4>1. 7 \in 5 .. 8 /\ 7 - 1 = 6 /\ 3 \in Index /\ 3 # 1 /\ 3 - 1 = 2
        BY <2>2
      <4>2. G[7].acc[<<3, c>>] = (IF 3 = 1 THEN 0 ELSE G[7 - 1].acc[<<3 - 1, c>>]) + G[7 - 1].mul[<<3, c>>]
        BY <4>1, <2>1, Zenon
      <4> QED BY <4>1, <4>2
    <3>3. G[6].acc[<<2, c>>] = G[5].acc[<<1, c>>] + G[5].mul[<<2, c>>]
      <4>1. 6 \in 5 .. 8 /\ 6 - 1 = 5 /\ 2 \in Index /\ 2 # 1 /\ 2 - 1 = 1
        BY <2>2
      <4>2. G[6].acc[<<2, c>>] = (IF 2 = 1 THEN 0 ELSE G[6 - 1].acc[<<2 - 1, c>>]) + G[6 - 1].mul[<<2, c>>]
        BY <4>1, <2>1, Zenon
      <4> QED BY <4>1, <4>2
    <3>4. G[5].acc[<<1, c>>] = 0 + G[4].mul[<<1, c>>]
      <4>1. 5 \in 5 .. 8 /\ 5 - 1 = 4 /\ 1 \in Index
        BY <2>2
      <4>2. G[5].acc[<<1, c>>] = (IF 1 = 1 THEN 0 ELSE G[5 - 1].acc[<<1 - 1, c>>]) + G[5 - 1].mul[<<1, c>>]
        BY <4>1, <2>1, Zenon
      <4> QED BY <4>1, <4>2
    <3> QED BY <3>1, <3>2, <3>3, <3>4
  <2>4. /\ G[4].mul[<<1, c>>] = Term(1, c) /\ G[5].mul[<<2, c>>] = Term(2, c)
        /\ G[6].mul[<<3, c>>] = Term(3, c) /\ G[7].mul[<<4, c>>] = Term(4, c)
    BY <1>8, <2>2
  <2>5. /\ Term(1, c) \in Int /\ Term(2, c) \in Int /\ Term(3, c) \in Int /\ Term(4, c) \in Int
    BY <1>8, <2>2
  <2> HIDE DEF Term
  <2> QED BY <2>3, <2>4, <2>5
<1>10. Banded(weights, activations)
         = [c \in Index |-> Term(1, c) + Term(2, c) + Term(3, c) + Term(4, c)]
  BY Zenon DEF Banded, W, X
<1> HIDE DEF Term
<1>11. Dim = 4
  BY DEF Dim
<1> QED BY <1>2, <1>9, <1>10, <1>11

\* For any bytes, four feed and four drain cycles of the golden model compute
\* the banded sum (golden_model.py:18-61).
THEOREM GoldenComputes == ScriptsSpec => []GoldenIsBanded
<1>1. InputIsACall => GoldenIsBanded
  <2> SUFFICES ASSUME InputIsACall, input.kind = "mac" PROVE GoldenIsBanded
    BY DEF GoldenIsBanded
  <2>1. input.arg.weights \in Weights /\ input.arg.activations \in Activations
    BY CallsAssumption DEF InputIsACall, Weights, Activations
  <2> QED BY <2>1, MacIsBanded DEF GoldenIsBanded
<1> QED BY <1>1, InputHolds, PTL
=============================================================================
