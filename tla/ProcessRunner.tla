--------------------------- MODULE ProcessRunner ---------------------------
(***************************************************************************)
(* The process management of dv/formal/conductor.py (Process,              *)
(* ProcessFuture, ProcessRunner): shell commands wait in a queue until     *)
(* there is a processor and memory for them, are polled ten times a        *)
(* second, and are killed and queued again when memory runs out.           *)
(*                                                                         *)
(* Poll is one call of ProcessRunner.poll, a callback of the event loop    *)
(* that no coroutine can interleave with.  Exit, Grow and Expire are the   *)
(* commands themselves and the clock.  Memory is in units of the models.   *)
(*                                                                         *)
(* Nothing kills the commands when the conductor ends (line 790): those    *)
(* that then run become orphans, which use memory and which no runner      *)
(* polls.                                                                  *)
(***************************************************************************)
EXTENDS Integers, SequencesExt

CONSTANTS
  Proc,        \* the commands that can be queued
  Codes,       \* exit codes
  Hint,        \* expected_memory of each command, as its caller gives it
  Peak,        \* the most memory each command comes to use
  Sizes,       \* the amounts that are told apart on the way there
  Timed,       \* the commands queued with a timeout
  TotalMem,    \* memory of the machine
  MaxMem,      \* --max-mem, 0 for no limit
  Buffer,      \* GLOBAL_MEMORY_BUFFER, 5
  MinShare,    \* what a command is taken to use at least, 3
  MaxRunning,  \* MAX_RUNNING, the processors less two
  NoKill       \* --no-kill

ASSUME RunnerAssumption ==
  /\ {TotalMem, MaxMem, Buffer, MinShare} \cup Sizes \subseteq Nat
  /\ MaxRunning \in Int  \* two processors leave none to run commands on
  /\ Hint \in [Proc -> Nat] /\ Peak \in [Proc -> Nat]
  /\ Timed \subseteq Proc
  /\ NoKill \in BOOLEAN
  \* no code is one of the words for states
  /\ Codes \cap {"unborn", "alive", "killed", "waiting", "cancelled",
                  "timeout", "uninterested", "none"} = {}

VARIABLES
  pending,  \* ProcessRunner.pending: the last one is the next to start
  running,  \* ProcessRunner.running, in the order they were started
  process,  \* the Process objects and the commands they run
  future,   \* what the awaiting coroutine sees of each
  orphans   \* commands of earlier starts that still run: records with their rss

runnerVars == <<pending, running, process, future, orphans>>

\* flag is kill_; "restart" is not a state, since poll follows kill_restart at
\* once.  hint is expected_memory, used max_memory, rss the memory in use, os
\* what has become of the command: its exit code once it has one.  read is what
\* it has read of a file that was changed afterwards, if there is any.
Fresh(p) == [flag |-> "none", hint |-> Hint[p], used |-> 0, rss |-> 0,
             os |-> "unborn", late |-> FALSE, read |-> {}]

Killed == {"timeout", "uninterested"}  \* the reasons with no exit code

Alive == {p \in Proc : process[p].os = "alive"}

RunnerInit ==
  /\ pending = <<>> /\ running = <<>>
  /\ process = [p \in Proc |-> Fresh(p)]
  /\ future = [p \in Proc |-> "unborn"]
  /\ orphans = {}

Larger(m, n) == IF m >= n THEN m ELSE n
Smaller(m, n) == IF m <= n THEN m ELSE n

Available ==
  LET taken == MapThenSumSet(LAMBDA p : process[p].rss, Alive)
                 + MapThenSumSet(LAMBDA o : o.rss, orphans)
      free == Larger(TotalMem - taken, 0)
      used == MapThenSumSet(LAMBDA p : process[p].used, ToSet(running))
  IN  IF MaxMem = 0 THEN free ELSE Smaller(free, Larger(MaxMem - used, 0))

-----------------------------------------------------------------------------
\* The queue after shell has been called for each of ps, in this order.
Queued(ps) == Reverse(ps) \o pending

Shell(ps) ==
  /\ pending' = Queued(ps)
  /\ process' = [p \in Proc |-> IF p \in ToSet(ps) THEN Fresh(p) ELSE process[p]]
  /\ future' = [p \in Proc |-> IF p \in ToSet(ps) THEN "waiting" ELSE future[p]]
  /\ UNCHANGED <<running, orphans>>

\* ProcessFuture.cancel sets the kill flag of its command; a future that is
\* done stays as it is.
Cancel(ps) ==
  /\ process' = [p \in Proc |-> IF p \in ps THEN [process[p] EXCEPT !.flag = "kill"]
                                            ELSE process[p]]
  /\ future' = [p \in Proc |-> IF p \in ps /\ future[p] = "waiting" THEN "cancelled"
                                                                ELSE future[p]]
  /\ UNCHANGED <<pending, running, orphans>>

-----------------------------------------------------------------------------
(* The first loop of poll takes commands off the end of running.           *)

LastRunning(k) == running[Len(running) + 1 - k]

FreeWithout(k) ==
  Available + MapThenSumSet(LAMBDA i : Larger(process[LastRunning(i)].used, MinShare), 1..k)

TooFull(k) == ~NoKill /\ FreeWithout(k) < Buffer /\ Len(running) - k > 1

\* Mutant of Evicted: the command is queued again without being killed.
EvictedAlive(r) ==
  LET used == Larger(r.used, r.rss)
  IN  [r EXCEPT !.flag = "none", !.used = used, !.hint = Larger(@, used)]

\* poll of a command flagged "restart": its own expectation grows to what it
\* was seen to use, and a "kill" it was flagged with is forgotten.
Evicted(r) ==
  LET used == Larger(r.used, r.rss)
  IN  [r EXCEPT !.flag = "none", !.os = "killed", !.rss = 0,
                !.used = used, !.hint = Larger(@, used)]

\* Mutants of QueueWith: the evicted commands go behind those that wait, and
\* they are not queued again.
QueueWithout(k) == pending
QueueWithBehind(k) == SubSeq(running, Len(running) + 1 - k, Len(running)) \o pending

QueueWith(k) ==
  pending \o Reverse(SubSeq(running, Len(running) + 1 - k, Len(running)))

(* The second loop starts commands from the end of the queue.              *)

Started(r) ==
  [r EXCEPT !.os = "alive", !.used = 0, !.rss = 0, !.late = FALSE, !.read = {}]

NextUp(k, m) == QueueWith(k)[Len(QueueWith(k)) + 1 - m]

HintOf(k, p) ==
  IF \E i \in 1..k : p = LastRunning(i) THEN Evicted(process[p]).hint ELSE process[p].hint

FreeWith(k, m) ==
  FreeWithout(k) - MapThenSumSet(LAMBDA i : Larger(HintOf(k, NextUp(k, i)), MinShare), 1..m)

\* Mutant of Fits: the buffer may be used up to its last unit.
FitsExactly(k, m) ==
  /\ Len(running) - k + m < MaxRunning
  /\ m < Len(QueueWith(k))
  /\ FreeWith(k, m) >= HintOf(k, NextUp(k, m + 1)) + Buffer

Fits(k, m) ==
  /\ Len(running) - k + m < MaxRunning
  /\ m < Len(QueueWith(k))
  /\ FreeWith(k, m) > HintOf(k, NextUp(k, m + 1)) + Buffer

(* The third loop polls what runs and drops what has come to its end.      *)

Outcome(r) ==
  IF r.os \in Codes /\ r.flag = "none" THEN r.os
  ELSE IF r.late THEN "timeout"
  ELSE IF r.flag = "kill" THEN "uninterested"
  ELSE "none"

Polled(r) ==
  LET seen == [r EXCEPT !.used = Larger(@, r.rss)]
  IN  IF Outcome(r) \in Killed THEN [seen EXCEPT !.os = "killed", !.rss = 0] ELSE seen

\* What runs once k commands are evicted and m are started.
RunsWith(k, m) ==
  SubSeq(running, 1, Len(running) - k)
    \o Reverse(SubSeq(QueueWith(k), Len(QueueWith(k)) + 1 - m, Len(QueueWith(k))))

\* What the runner promises: one line of commands, in order of arrival, whose
\* front part is the commands that run.
Line == INSTANCE JobLine WITH line <- running \o Reverse(pending), front <- Len(running)

Poll ==
  \E k \in 0..Len(running), m \in 0..Len(running) + Len(pending) :
    /\ ~TooFull(k) /\ \A i \in 0..k - 1 : TooFull(i)
    /\ ~Fits(k, m) /\ \A i \in 0..m - 1 : Fits(k, i)
    /\ LET runs == RunsWith(k, m)
           evicted == {LastRunning(i) : i \in 1..k}
           started == {NextUp(k, i) : i \in 1..m}
           now(p) == LET r == IF p \in evicted THEN Evicted(process[p]) ELSE process[p]
                     IN  IF p \in started THEN Started(r) ELSE r
           ended(p) == p \in ToSet(runs) /\ Outcome(now(p)) # "none"
       \* Of an object that is dropped only the fate of its command is kept.
       IN  /\ pending' = SubSeq(QueueWith(k), 1, Len(QueueWith(k)) - m)
           /\ running' = Line!Without(runs, {p \in Proc : ended(p)})
           /\ process' = [p \in Proc |->
                IF ended(p) THEN [Fresh(p) EXCEPT !.os = Polled(now(p)).os]
                ELSE IF p \in ToSet(runs) THEN Polled(now(p)) ELSE now(p)]
           /\ future' = [p \in Proc |->
                IF ended(p) /\ future[p] = "waiting" THEN Outcome(now(p)) ELSE future[p]]
  /\ UNCHANGED orphans

-----------------------------------------------------------------------------
\* The command comes to its end; the object learns of it at the next poll.
Exit(p, code) ==
  /\ process[p].os = "alive"
  /\ process' = [process EXCEPT ![p].os = code, ![p].rss = 0]
  /\ UNCHANGED <<pending, running, future, orphans>>

\* It takes more memory, up to its peak.
Grow(p) ==
  /\ process[p].os = "alive"
  /\ \E m \in Sizes \cap (process[p].rss + 1 .. Peak[p]) :
       process' = [process EXCEPT ![p].rss = m]
  /\ UNCHANGED <<pending, running, future, orphans>>

\* Its timeout passes.
Expire(p) ==
  /\ p \in Timed /\ process[p].os = "alive" /\ ~process[p].late
  /\ process' = [process EXCEPT ![p].late = TRUE]
  /\ UNCHANGED <<pending, running, future, orphans>>

-----------------------------------------------------------------------------
\* Commands are started in the order of the shell calls and started again in
\* that order after evictions, whatever memory does; a command leaves the line
\* only from the part that runs (conductor.py:235-236, 249-280).
InOrderOfArrival == Line!Spec

\* The memory that a machine without any command of a conductor has.
IdleMem == IF MaxMem = 0 THEN TotalMem ELSE Smaller(TotalMem, MaxMem)

\* Nothing runs, and what is next in the queue is expected to need more than
\* that, or no command may run at all: line 259 does not become true any more.
HeldUp ==
  /\ running = <<>> /\ pending # <<>>
  /\ MaxRunning < 1 \/ process[Last(pending)].hint + Buffer >= IdleMem
=============================================================================
