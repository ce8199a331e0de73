--------------------------- MODULE LockedMetadata ---------------------------
(***************************************************************************)
(* metadata.pickle of a regression and class LockedMetadata of             *)
(* dv/uvm/core_ibex/scripts/metadata.py: scripts that run at the same time *)
(* open the file, wait at most five seconds for an exclusive lock on it,   *)
(* load it, record their fields and write the whole object back.           *)
(*                                                                         *)
(* The object is abstracted to the set of scripts whose fields it holds.   *)
(* Writing is two steps, since export opens the file for writing, which    *)
(* empties it, and then dumps the object into it.                          *)
(***************************************************************************)
EXTENDS Naturals

CONSTANTS
  Script,   \* the scripts that use LockedMetadata
  Nobody    \* no script

ASSUME LockAssumption == Nobody \notin Script

VARIABLES
  md,       \* metadata.pickle
  lock,     \* the script that holds the lock on it
  at,       \* where each script is in its with-statement
  copy,     \* the fields of the object that the script has in memory
  recorded  \* history: the scripts that have ever written theirs back

lockVars == <<md, lock, at, copy, recorded>>

Places == {"idle", "waiting", "holding", "writing", "committed", "failed"}

File(state, fields) == [state |-> state, fields |-> fields]

LockInit ==
  /\ md = File("absent", {}) /\ lock = Nobody
  /\ at = [s \in Script |-> "idle"]
  /\ copy = [s \in Script |-> {}]
  /\ recorded = {}

\* The operation that creates the metadata ends with its first export, which
\* takes no lock.
OpenNew ==
  /\ md.state = "absent" /\ md' = File("new", {})
  /\ UNCHANGED <<lock, at, copy, recorded>>

WriteNew ==
  /\ md.state = "new" /\ md' = File("whole", {})
  /\ UNCHANGED <<lock, at, copy, recorded>>

-----------------------------------------------------------------------------
\* A script is started, for the first time or again.
Launch(s) ==
  /\ at[s] \in {"idle", "committed", "failed"}
  /\ at' = [at EXCEPT ![s] = "idle"]
  /\ UNCHANGED <<md, lock, copy, recorded>>

\* __enter__ sets the alarm and opens the file, which fails if there is none.
Open(s) ==
  /\ at[s] = "idle"
  /\ at' = [at EXCEPT ![s] = IF md.state = "absent" THEN "failed" ELSE "waiting"]
  /\ UNCHANGED <<md, lock, copy, recorded>>

\* Mutant of Acquire: the object is loaded whoever has the lock.
AcquireUnlocked(s) ==
  /\ at[s] = "waiting" /\ md.state = "whole"
  /\ lock' = s
  /\ at' = [at EXCEPT ![s] = "holding"]
  /\ copy' = [copy EXCEPT ![s] = md.fields]
  /\ UNCHANGED <<md, recorded>>

\* The lock is granted and the object loaded, before the alarm.
Acquire(s) ==
  /\ at[s] = "waiting" /\ lock = Nobody /\ md.state = "whole"
  /\ lock' = s
  /\ at' = [at EXCEPT ![s] = "holding"]
  /\ copy' = [copy EXCEPT ![s] = md.fields]
  /\ UNCHANGED <<md, recorded>>

\* Mutant of GiveUp: a file without an object is waited for.
GiveUpIfLocked(s) ==
  /\ at[s] = "waiting" /\ lock # Nobody
  /\ at' = [at EXCEPT ![s] = "failed"]
  /\ UNCHANGED <<md, lock, copy, recorded>>

\* The alarm rings first, or the file holds no object: an exception ends the
\* script before it has done anything.
GiveUp(s) ==
  /\ at[s] = "waiting" /\ (lock # Nobody \/ md.state # "whole")
  /\ at' = [at EXCEPT ![s] = "failed"]
  /\ UNCHANGED <<md, lock, copy, recorded>>

\* __exit__, after the body or an exception in it: the file is emptied ...
Truncate(s) ==
  /\ at[s] = "holding"
  /\ copy' = [copy EXCEPT ![s] = @ \cup {s}]
  /\ md' = File("torn", {})
  /\ at' = [at EXCEPT ![s] = "writing"]
  /\ UNCHANGED <<lock, recorded>>

\* ... written, and unlocked.
Commit(s) ==
  /\ at[s] = "writing"
  /\ md' = File("whole", copy[s])
  /\ at' = [at EXCEPT ![s] = "committed"]
  /\ copy' = [copy EXCEPT ![s] = {}]
  /\ recorded' = recorded \cup {s}
  /\ lock' = Nobody

LockStep(s) == Open(s) \/ Acquire(s) \/ GiveUp(s) \/ Truncate(s) \/ Commit(s)

\* All scripts are killed; the operating system drops the lock.
KillScripts ==
  /\ md' = IF md.state = "new" THEN File("torn", {}) ELSE md
  /\ lock' = Nobody
  /\ at' = [s \in Script |-> "idle"]
  /\ copy' = [s \in Script |-> {}]
  /\ UNCHANGED recorded

LockNext ==
  OpenNew \/ WriteNew \/ KillScripts \/ \E s \in Script : Launch(s) \/ LockStep(s)

LockSpec == LockInit /\ [][LockNext]_lockVars

-----------------------------------------------------------------------------
LockTypeOK ==
  /\ md \in [state : {"absent", "new", "torn", "whole"}, fields : SUBSET Script]
  /\ lock \in Script \cup {Nobody}
  /\ at \in [Script -> Places]
  /\ copy \in [Script -> SUBSET Script]
  /\ recorded \subseteq Script

\* What a script has recorded stays recorded as long as the file holds an
\* object, whatever other scripts write into it at the same time and whichever
\* are killed: "this allows us to not worry about multiple processes racing to
\* write into the file" (metadata.py:470-471).
NothingLost == md.state = "whole" => recorded \subseteq md.fields
=============================================================================
