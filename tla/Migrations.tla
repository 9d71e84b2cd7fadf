----------------------------- MODULE Migrations -----------------------------
(***************************************************************************)
(* Opening the observation store for writing (openWriter in                *)
(* src/db/index.ts, applyMigrations in src/db/migrations.ts).  Every writer *)
(* does it at boot, and several may boot at once on one file: the recorded *)
(* versions are read before, and outside, the transactions that apply the  *)
(* missing ones.                                                           *)
(*                                                                         *)
(* A migration and its row in schema_migrations are one immediate          *)
(* transaction, so `applied` stands for both.                              *)
(***************************************************************************)
EXTENDS Naturals

CONSTANTS
  Procs,        \* processes that write the store
  LastVersion   \* how many MIGRATIONS this release has

ASSUME LastVersionIsNat == LastVersion \in Nat

Versions == 1 .. LastVersion

VARIABLES
  applied,  \* schema_migrations
  boot,     \* [Procs -> how far openWriter is]
  known,    \* [Procs -> the versions it read]
  at,       \* [Procs -> the last one it applied itself, 0 for none]
  failed    \* [Procs -> how many times in a row openWriter threw: history, counted
            \* to LastVersion + 1]

bootVars == <<applied, boot, known, at, failed>>

BootTypeOK ==
  /\ applied \subseteq Versions
  /\ boot \in [Procs -> {"off", "read", "migrate", "open"}]
  /\ known \in [Procs -> SUBSET Versions]
  /\ at \in [Procs -> 0 .. LastVersion]
  /\ failed \in [Procs -> Nat]

\* A file that does not exist, or one an earlier release left behind.
BootInit ==
  /\ \E n \in 0 .. LastVersion : applied = 1 .. n
  /\ boot = [p \in Procs |-> "off"]
  /\ known = [p \in Procs |-> {}]
  /\ at = [p \in Procs |-> 0]
  /\ failed = [p \in Procs |-> 0]

Booted(p, phase) == boot' = [boot EXCEPT ![p] = phase]

\* openWriter returns or throws, and its locals are gone.
Returned(p, phase) ==
  /\ Booted(p, phase)
  /\ known' = [known EXCEPT ![p] = {}]
  /\ at' = [at EXCEPT ![p] = 0]
  /\ UNCHANGED applied

OpenFile(p) ==
  /\ boot[p] = "off"
  /\ Booted(p, "read")
  /\ UNCHANGED <<applied, known, at, failed>>

\* Mutant of Recorded: the table is looked for under another name.
RecordedNowhere == {}

Recorded == applied

ReadVersions(p) ==
  /\ boot[p] = "read"
  /\ Booted(p, "migrate")
  /\ known' = [known EXCEPT ![p] = Recorded]
  /\ at' = [at EXCEPT ![p] = 0]
  /\ UNCHANGED <<applied, failed>>

\* The loop goes through MIGRATIONS in order and skips what was read.  What this
\* process applies meanwhile is behind the loop already.
Pending(p) == {v \in Versions \ known[p] : v > at[p]}

IsNext(p, v) == v \in Pending(p) /\ \A u \in Pending(p) : v <= u

Migrate(p) ==
  /\ boot[p] = "migrate"
  /\ \E v \in Versions \ applied :
       /\ IsNext(p, v)
       /\ applied' = applied \cup {v}
       /\ at' = [at EXCEPT ![p] = v]
  /\ UNCHANGED <<boot, known, failed>>

\* Somebody was faster: the INSERT (or an ADD COLUMN before it) fails, the
\* transaction is rolled back and openWriter throws.
Conflict(p) ==
  /\ boot[p] = "migrate"
  /\ \E v \in applied : IsNext(p, v)
  /\ Returned(p, "off")
  /\ failed' = [failed EXCEPT ![p] = IF @ <= LastVersion THEN @ + 1 ELSE @]

UpToDate(p) == Pending(p) = {}

Opened(p) ==
  /\ boot[p] = "migrate"
  /\ UpToDate(p)
  /\ Returned(p, "open")
  /\ failed' = [failed EXCEPT ![p] = 0]

BootStep(p) == OpenFile(p) \/ ReadVersions(p) \/ Migrate(p) \/ Conflict(p) \/ Opened(p)

\* The process ends, or waits for the write lock of the file longer than
\* busy_timeout: nothing of an open transaction is left.
Close(p) ==
  /\ boot[p] # "off"
  /\ Returned(p, "off")
  /\ failed' = [failed EXCEPT ![p] = 0]

BootNext == \E p \in Procs : BootStep(p) \/ Close(p)

BootSpec == BootInit /\ [][BootNext]_bootVars
----------------------------------------------------------------------------
(* Properties.                                                             *)

\* Versions are applied in order and without gaps, whoever applies them and
\* whatever each of them has read.
Ordered(versions) == \A v \in versions, u \in Versions : u < v => u \in versions

AppliedInOrder == Ordered(applied)

\* No process uses the store before every migration of its release is in.
OpenMeansCurrent == \A p \in Procs : boot[p] = "open" => applied = Versions

\* Two writers that race at boot are not simply safe, as the head of migrations.ts
\* has it: the slower one throws.  But it throws once for a version at most,
\* however the boots interleave: a retry gets further each time.
RetriesGetFurther == \A p \in Procs : failed[p] <= LastVersion

\* Inductive: what a process has read is in order and still true, what it has
\* applied is there, and each failure was over a version it reads next time.
BootInv ==
  /\ BootTypeOK
  /\ AppliedInOrder
  /\ OpenMeansCurrent
  /\ \A p \in Procs :
       /\ known[p] \subseteq applied /\ Ordered(known[p])
       /\ failed[p] \in {0} \cup applied
       /\ boot[p] = "migrate" =>
            /\ \A v \in Versions : v <= at[p] => v \in applied
            /\ failed[p] \in {0} \cup known[p]
=============================================================================
