------------------------------ MODULE PollLock ------------------------------
(***************************************************************************)
(* The single-instance guard of the capture daemon: the poll_lock row      *)
(* (acquirePollLock, heartbeatPollLock and releasePollLock in              *)
(* src/db/repo-write.ts, src/capture/lock.ts) and the life of a capture    *)
(* process around it (main in src/capture/daemon.ts): boot, lock, cycles,  *)
(* signals, exits and crashes.  What a cycle does is module Capture.       *)
(*                                                                         *)
(* Time is kept as ages, so that it need not be bounded: `age` is how old  *)
(* the heartbeat in the row is, up to the age at which it is stale.  The   *)
(* clocks of hosts are taken to agree, and the wait for the write lock of  *)
(* the file between Date.now() and the statement (15 s at most) is not     *)
(* counted.                                                                *)
(***************************************************************************)
EXTENDS Migrations

CONSTANTS
  Daemons,     \* the processes that run under a supervisor; the others run --once
  HostOf,      \* [Procs -> hosts]
  Pids,        \* process ids of a host, used again when free
  NoPid,       \* of a process that does not run
  NoLock,      \* the poll_lock table is empty
  Interval,    \* OBSERVER_POLL_INTERVAL_MS
  StaleAfter,  \* Interval * STALE_LOCK_INTERVALS
  MaxCycle,    \* assumption: how long a cycle takes, starting or not
  MaxFaults    \* bound: crashes and releases that fail, of all processes

Hosts == {HostOf[p] : p \in Procs}
Period == IF Interval < MaxCycle THEN MaxCycle ELSE Interval
Row == [host : Hosts, pid : Pids]

ASSUME TimesAreNat == Interval \in Nat /\ StaleAfter \in Nat /\ MaxCycle \in Nat
ASSUME NoValues == NoPid \notin Pids /\ NoLock \notin Row

\* One heartbeat may be missed.  With StaleAfter three intervals this says that a
\* cycle is shorter than an interval.
ASSUME HeartbeatsOutlive == Interval + Period + MaxCycle < StaleAfter

VARIABLES
  lock,       \* poll_lock: a Row, or NoLock
  age,        \* now - heartbeat_at of that row, at most StaleAfter
  pc,         \* [Procs -> what the process does once the store is open]
  pid,        \* [Procs -> its process id, NoPid when it does not run]
  timer,      \* [Procs -> time since it got the lock or began its last cycle]
  missed,     \* [Procs -> its last heartbeat failed (safeWrite)]
  stopping,   \* [Procs -> a signal came during a cycle]
  strangers,  \* other programs: SUBSET Row
  faults      \* how many faults so far

lockVars == <<lock, age, pc, pid, timer, missed, stopping, strangers, faults>>
vars == <<bootVars, lockVars>>

\* Processes that have the lock, as far as they know.
Capturing == {p \in Procs : pc[p] \in {"starting", "cycle", "idle"}}

TypeOK ==
  /\ BootTypeOK
  /\ lock \in Row \cup {NoLock}
  /\ age \in 0 .. StaleAfter
  /\ pc \in [Procs -> {"boot", "starting", "cycle", "idle"}]
  /\ pid \in [Procs -> Pids \cup {NoPid}]
  /\ timer \in [Procs -> 0 .. Period]
  /\ missed \in [Procs -> BOOLEAN]
  /\ stopping \in [Procs -> BOOLEAN]
  /\ strangers \subseteq Row
  /\ faults \in Nat

Init ==
  /\ BootInit
  /\ lock = NoLock
  /\ age = 0
  /\ pc = [p \in Procs |-> "boot"]
  /\ pid = [p \in Procs |-> NoPid]
  /\ timer = [p \in Procs |-> 0]
  /\ missed = [p \in Procs |-> FALSE]
  /\ stopping = [p \in Procs |-> FALSE]
  /\ strangers = {}
  /\ faults = 0
----------------------------------------------------------------------------
(* Processes and their ids.                                                *)

RowOf(p) == [host |-> HostOf[p], pid |-> pid[p]]

\* process.kill(pid, 0) finds a process, of whichever user.
Alive(r) == r \in strangers \/ \E q \in Procs : pid[q] # NoPid /\ RowOf(q) = r

Start(p) ==
  /\ OpenFile(p)
  /\ \E n \in Pids :
       /\ ~Alive([host |-> HostOf[p], pid |-> n])
       /\ pid' = [pid EXCEPT ![p] = n]
  /\ UNCHANGED <<lock, age, pc, timer, missed, stopping, strangers, faults>>

\* Of the other programs only one that gets the pid in the row is of interest.
StrangerStarts(r) ==
  /\ r = lock /\ ~Alive(r)
  /\ strangers' = strangers \cup {r}
  /\ UNCHANGED <<bootVars, lock, age, pc, pid, timer, missed, stopping, faults>>

StrangerEnds(r) ==
  /\ r \in strangers
  /\ strangers' = strangers \ {r}
  /\ UNCHANGED <<bootVars, lock, age, pc, pid, timer, missed, stopping, faults>>

\* openWriter at work; when it throws, so does main.
Boot(p) ==
  /\ ReadVersions(p) \/ Migrate(p) \/ Opened(p)
  /\ UNCHANGED lockVars

BootFails(p) ==
  /\ Conflict(p)
  /\ pid' = [pid EXCEPT ![p] = NoPid]
  /\ UNCHANGED <<lock, age, pc, timer, missed, stopping, strangers, faults>>

\* Whatever ends the process, its state is gone.
Gone(p) ==
  /\ Close(p)
  /\ pc' = [pc EXCEPT ![p] = "boot"]
  /\ pid' = [pid EXCEPT ![p] = NoPid]
  /\ timer' = [timer EXCEPT ![p] = 0]
  /\ missed' = [missed EXCEPT ![p] = FALSE]
  /\ stopping' = [stopping EXCEPT ![p] = FALSE]
  /\ UNCHANGED strangers

\* A crash, a SIGKILL, a client that cannot be created: the row stays.
Crash(p) ==
  /\ faults < MaxFaults
  /\ faults' = faults + 1
  /\ Gone(p)
  /\ UNCHANGED <<lock, age>>
----------------------------------------------------------------------------
(* The lock.                                                               *)

\* Mutant of Fresh: abandoned after one interval less.
FreshTwoIntervals == age < StaleAfter - Interval

\* Mutant of Fresh: no heartbeat is ever old.
FreshForever == TRUE

Fresh == age < StaleAfter

\* Mutant of HolderIsDead: pids of another host are probed too.
HolderIsDeadAnywhere(p) == lock.pid # pid[p] /\ ~Alive([host |-> HostOf[p], pid |-> lock.pid])

\* Only a holder of this host is ever dead, and never one with this process's pid.
HolderIsDead(p) == lock.host = HostOf[p] /\ lock.pid # pid[p] /\ ~Alive(lock)

Held(p) == lock # NoLock /\ Fresh /\ ~HolderIsDead(p)

Acquire(p) ==
  /\ boot[p] = "open" /\ pc[p] = "boot"
  /\ ~Held(p)
  /\ lock' = RowOf(p)
  /\ age' = 0
  /\ pc' = [pc EXCEPT ![p] = "starting"]
  /\ UNCHANGED <<bootVars, pid, timer, missed, stopping, strangers, faults>>

Refuse(p) ==
  /\ boot[p] = "open" /\ pc[p] = "boot"
  /\ Held(p)
  /\ Gone(p)
  /\ UNCHANGED <<lock, age, faults>>

\* Both statements say WHERE pid, not WHERE host.
Mine(p) == lock # NoLock /\ lock.pid = pid[p]

ReleaseRow(p) == lock' = IF Mine(p) THEN NoLock ELSE lock

\* finish(): a release that fails is swallowed, and after a cycle the heartbeat
\* before it may have succeeded.
Finish(p) ==
  /\ Gone(p)
  /\ \/ /\ ReleaseRow(p)
        /\ age' = IF lock' = NoLock THEN 0 ELSE age
        /\ UNCHANGED faults
     \/ /\ faults < MaxFaults
        /\ faults' = faults + 1
        /\ age' \in IF pc[p] = "cycle" /\ Mine(p) THEN {0, age} ELSE {age}
        /\ UNCHANGED lock
----------------------------------------------------------------------------
(* The loop.                                                               *)

Started(p) ==
  /\ pc[p] = "starting"
  /\ pc' = [pc EXCEPT ![p] = "cycle"]
  /\ timer' = [timer EXCEPT ![p] = 0]
  /\ UNCHANGED <<bootVars, lock, age, pid, missed, stopping, strangers, faults>>

\* SIGTERM or SIGINT between two cycles stops at once, during a cycle after it;
\* before the loop runs there is no handler.
StopIdle(p) ==
  /\ pc[p] = "idle"
  /\ Finish(p)

StopAfterCycle(p) ==
  /\ pc[p] = "cycle"
  /\ stopping' = [stopping EXCEPT ![p] = TRUE]
  /\ UNCHANGED <<bootVars, lock, age, pc, pid, timer, missed, strangers, faults>>

\* The cycle is over, a heartbeat is tried, the next cycle is armed.
CycleEnds(p) ==
  /\ pc[p] = "cycle"
  /\ ~stopping[p] /\ p \in Daemons
  /\ pc' = [pc EXCEPT ![p] = "idle"]
  /\ \/ /\ age' = IF Mine(p) THEN 0 ELSE age
        /\ missed' = [missed EXCEPT ![p] = FALSE]
     \/ /\ ~missed[p]
        /\ missed' = [missed EXCEPT ![p] = TRUE]
        /\ UNCHANGED age
  /\ UNCHANGED <<bootVars, lock, pid, timer, stopping, strangers, faults>>

\* The same at the end of the process.
LastCycleEnds(p) ==
  /\ pc[p] = "cycle"
  /\ stopping[p] \/ p \notin Daemons
  /\ Finish(p)

\* The delay is what is left of the interval.
NextCycle(p) ==
  /\ pc[p] = "idle"
  /\ timer[p] >= Interval
  /\ pc' = [pc EXCEPT ![p] = "cycle"]
  /\ timer' = [timer EXCEPT ![p] = 0]
  /\ UNCHANGED <<bootVars, lock, age, pid, missed, stopping, strangers, faults>>

\* Starting and a cycle take no longer than assumed, a timer fires on time.
MayWait(p) == timer[p] < (IF pc[p] = "cycle" THEN MaxCycle ELSE Interval)

Tick ==
  /\ \A p \in Capturing : MayWait(p)
  /\ age' = IF lock = NoLock THEN 0 ELSE IF age < StaleAfter THEN age + 1 ELSE age
  /\ timer' = [p \in Procs |-> IF p \in Capturing THEN timer[p] + 1 ELSE timer[p]]
  /\ UNCHANGED <<bootVars, lock, pc, pid, missed, stopping, strangers, faults>>

\* What a process does by itself.
Works(p) ==
  \/ Boot(p) \/ BootFails(p)
  \/ Acquire(p) \/ Refuse(p)
  \/ Started(p) \/ CycleEnds(p) \/ LastCycleEnds(p) \/ NextCycle(p)

ProcStep(p) == Start(p) \/ Works(p) \/ StopIdle(p) \/ StopAfterCycle(p) \/ Crash(p)

Next ==
  \/ Tick
  \/ \E p \in Procs : ProcStep(p)
  \/ \E r \in Row : StrangerStarts(r) \/ StrangerEnds(r)

\* A supervisor starts its daemon again, processes go on, time passes.
Fairness ==
  /\ \A p \in Procs : WF_vars(Works(p))
  /\ \A d \in Daemons : SF_vars(Start(d))
  /\ WF_vars(Tick)

Spec == Init /\ [][Next]_vars
FairSpec == Spec /\ Fairness
----------------------------------------------------------------------------
(* Properties.                                                             *)

\* One process captures at a time, whatever crashed before and on whichever host,
\* as long as heartbeats outlive the stale window.
OneCapture == \A p, q \in Capturing : p = q

\* An orderly stop never costs its successor a takeover: without a fault there is
\* a row only while its holder captures.
StopLeavesNoRow == faults = 0 /\ lock # NoLock => Capturing # {}

\* However a process ends, capture is taken up again: by the probe of the holder
\* when it can tell, and when the pid was reused or the holder was on another host,
\* by the age of the heartbeat.
CaptureResumes == Capturing = {} ~> Capturing # {}

\* Inductive.  Pids are those of processes that run, ...
PidsDiffer ==
  \A p \in Procs :
    /\ pid[p] = NoPid <=> boot[p] = "off"
    /\ pid[p] # NoPid =>
         /\ RowOf(p) \notin strangers
         /\ \A q \in Procs : RowOf(p) = RowOf(q) => p = q

\* ... the heartbeat of a process that captures is younger than stale, ...
OnTime(p) ==
  /\ pc[p] = "starting" => age <= timer[p] /\ timer[p] <= Interval /\ ~missed[p]
  /\ pc[p] = "cycle" =>
       /\ timer[p] <= MaxCycle
       /\ age <= Interval + timer[p] + (IF missed[p] THEN Period ELSE 0)
  /\ pc[p] = "idle" =>
       IF missed[p] THEN age <= Interval + timer[p] ELSE age <= timer[p] /\ age <= Interval

\* ... and the row is its row.
HoldsTheLock(p) == boot[p] = "open" /\ lock = RowOf(p) /\ OnTime(p)

IInv ==
  /\ TypeOK
  /\ BootInv
  /\ PidsDiffer
  /\ \A p \in Capturing : HoldsTheLock(p)
  /\ \A p \in Procs \ Capturing : timer[p] = 0 /\ ~missed[p]
=============================================================================
