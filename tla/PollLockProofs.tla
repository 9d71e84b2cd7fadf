--------------------------- MODULE PollLockProofs ---------------------------
(***************************************************************************)
(* Proofs about booting and about the capture lock, for any number of      *)
(* processes, hosts, migrations and faults.                                *)
(***************************************************************************)
EXTENDS PollLock, TLAPS

(***************************************************************************)
(* Opening the store.                                                      *)
(***************************************************************************)

\* Nothing is applied or read before the first boot but what earlier releases left.
LEMMA BootInvInit == BootInit => BootInv
  BY LastVersionIsNat
     DEF BootInit, BootInv, BootTypeOK, AppliedInOrder, OpenMeansCurrent, Ordered, Versions

\* The next version of a process comes after all it has read and applied itself, so
\* whatever is before it is in the table.
LEMMA NextIsOrdered ==
  ASSUME BootInv, NEW p \in Procs, boot[p] = "migrate", NEW v, IsNext(p, v)
  PROVE  /\ v \in Versions
         /\ v \notin known[p]
         /\ \A u \in Versions : u < v => u \in applied
  BY LastVersionIsNat DEF BootInv, BootTypeOK, IsNext, Pending, Versions

\* A step of a boot, a close or a step of something else keeps BootInv.
LEMMA BootInvStep ==
  ASSUME BootInv, BootNext \/ UNCHANGED bootVars
  PROVE  BootInv'
<1> USE LastVersionIsNat
<1>1. CASE UNCHANGED bootVars
  BY <1>1 DEF bootVars, BootInv, BootTypeOK, AppliedInOrder, OpenMeansCurrent, Ordered
<1>2. ASSUME NEW p \in Procs, OpenFile(p)
      PROVE  BootInv'
  BY <1>2 DEF OpenFile, Booted, BootInv, BootTypeOK, AppliedInOrder, OpenMeansCurrent, Ordered, Versions
<1>3. ASSUME NEW p \in Procs, ReadVersions(p)
      PROVE  BootInv'
  BY <1>3 DEF ReadVersions, Recorded, Booted, BootInv, BootTypeOK, AppliedInOrder, OpenMeansCurrent, Ordered, Versions
<1>4. ASSUME NEW p \in Procs, Migrate(p)
      PROVE  BootInv'
  <2>1. PICK v \in Versions \ applied :
          /\ IsNext(p, v)
          /\ applied' = applied \cup {v}
          /\ at' = [at EXCEPT ![p] = v]
    BY <1>4 DEF Migrate
  <2>2. \A u \in Versions : u < v => u \in applied
    BY <1>4, <2>1, NextIsOrdered DEF Migrate
  <2>3. UNCHANGED <<boot, known, failed>>
    BY <1>4 DEF Migrate
  <2>4. BootTypeOK' /\ AppliedInOrder'
    BY <2>1, <2>2, <2>3 DEF BootInv, BootTypeOK, AppliedInOrder, Ordered, Versions
  <2>5. OpenMeansCurrent'
    BY <2>1, <2>3 DEF BootInv, OpenMeansCurrent
  <2>6. ASSUME NEW q \in Procs
        PROVE  /\ known'[q] \subseteq applied' /\ Ordered(known'[q])
               /\ failed'[q] \in {0} \cup applied'
               /\ boot'[q] = "migrate" =>
                    /\ \A u \in Versions : u <= at'[q] => u \in applied'
                    /\ failed'[q] \in {0} \cup known'[q]
    BY <2>1, <2>2, <2>3 DEF BootInv, BootTypeOK, Ordered, Versions
  <2>. QED
    BY <2>4, <2>5, <2>6 DEF BootInv, Ordered
<1>5. ASSUME NEW p \in Procs, Conflict(p)
      PROVE  BootInv'
  <2>1. PICK v \in applied : IsNext(p, v)
    BY <1>5 DEF Conflict
  <2>2. v \in Versions /\ v \notin known[p]
    BY <1>5, <2>1, NextIsOrdered DEF Conflict
  <2>3. failed[p] + 1 \in applied /\ failed[p] <= LastVersion
    BY <1>5, <2>1, <2>2 DEF Conflict, BootInv, BootTypeOK, AppliedInOrder, Ordered, Versions
  <2>. QED
    BY <1>5, <2>3 DEF Conflict, Returned, Booted, BootInv, BootTypeOK, AppliedInOrder, OpenMeansCurrent, Ordered, Versions
<1>6. ASSUME NEW p \in Procs, Opened(p)
      PROVE  BootInv'
  <2>1. ASSUME NEW v \in Versions
        PROVE  v \in applied
    <3>1. v \notin Pending(p)
      BY <1>6 DEF Opened, UpToDate
    <3>2. v \in known[p] \/ v <= at[p]
      BY <3>1 DEF Pending, BootInv, BootTypeOK, Versions
    <3>. QED
      BY <1>6, <3>2 DEF Opened, BootInv
  <2>2. applied = Versions
    BY <2>1 DEF BootInv, BootTypeOK
  <2>. QED
    BY <1>6, <2>2 DEF Opened, Returned, Booted, BootInv, BootTypeOK, AppliedInOrder, OpenMeansCurrent, Ordered, Versions
<1>7. ASSUME NEW p \in Procs, Close(p)
      PROVE  BootInv'
  BY <1>7 DEF Close, Returned, Booted, BootInv, BootTypeOK, AppliedInOrder, OpenMeansCurrent, Ordered, Versions
<1>. QED
  BY <1>1, <1>2, <1>3, <1>4, <1>5, <1>6, <1>7 DEF BootNext, BootStep

\* Booting alone, whoever boots: order, completeness and progress of retries.
THEOREM BootInvariance == BootSpec => []BootInv
<1>1. BootInit => BootInv
  BY BootInvInit
<1>2. BootInv /\ [BootNext]_bootVars => BootInv'
  BY BootInvStep
<1>. QED
  BY <1>1, <1>2, PTL DEF BootSpec

(***************************************************************************)
(* The lock.                                                               *)
(***************************************************************************)

\* Every step is a step of a boot, or leaves the boots alone.
LEMMA StepsOfBoot ==
  ASSUME Next \/ UNCHANGED vars
  PROVE  BootNext \/ UNCHANGED bootVars
<1>1. CASE UNCHANGED vars
  BY <1>1 DEF vars
<1>2. CASE Tick
  BY <1>2 DEF Tick
<1>3. ASSUME NEW p \in Procs, ProcStep(p)
      PROVE  BootNext \/ UNCHANGED bootVars
  BY <1>3 DEF ProcStep, Works, Start, Boot, BootFails, Crash, Gone, Acquire, Refuse, Finish,
              Started, StopIdle, StopAfterCycle, CycleEnds, LastCycleEnds, NextCycle,
              BootNext, BootStep
<1>4. ASSUME NEW r \in Row, StrangerStarts(r) \/ StrangerEnds(r)
      PROVE  UNCHANGED bootVars
  BY <1>4 DEF StrangerStarts, StrangerEnds
<1>. QED
  BY <1>1, <1>2, <1>3, <1>4 DEF Next

USE DEF Hosts

\* A process that captures has the lock, nobody finds it stale or its holder dead,
\* and so there is one at a time.
LEMMA HolderIsSafe ==
  ASSUME IInv, NEW p \in Capturing
  PROVE  /\ p \in Procs /\ pid[p] \in Pids
         /\ lock = RowOf(p) /\ lock # NoLock
         /\ Mine(p)
         /\ \A q \in Procs : Held(q)
<1>1. p \in Procs /\ HoldsTheLock(p)
  BY DEF IInv, Capturing
<1>2. pid[p] \in Pids /\ pid[p] # NoPid
  BY <1>1 DEF IInv, TypeOK, PidsDiffer, HoldsTheLock
<1>3. lock = RowOf(p) /\ lock # NoLock /\ Mine(p)
  BY <1>1, <1>2, NoValues DEF HoldsTheLock, RowOf, Row, Mine
<1>4. age < StaleAfter
  <2>1. pc[p] \in {"starting", "cycle", "idle"}
    BY DEF Capturing
  <2>2. age \in Nat /\ timer[p] \in Nat /\ timer[p] <= Period /\ Period \in Nat
    BY <1>1, TimesAreNat DEF IInv, TypeOK, Period
  <2>3. age <= Interval + Period + MaxCycle
    BY <1>1, <2>1, <2>2, TimesAreNat DEF HoldsTheLock, OnTime, Period
  <2>. QED
    BY <2>2, <2>3, HeartbeatsOutlive, TimesAreNat
<1>5. Alive(lock)
  BY <1>1, <1>2, <1>3 DEF Alive
<1>. QED
  BY <1>1, <1>2, <1>3, <1>4, <1>5 DEF Held, Fresh, HolderIsDead

LEMMA OneHolder ==
  ASSUME IInv, NEW p \in Capturing, NEW q \in Capturing
  PROVE  p = q
<1>1. p \in Procs /\ q \in Procs /\ RowOf(p) = RowOf(q)
  BY HolderIsSafe
<1>2. pid[p] # NoPid
  BY HolderIsSafe, NoValues
<1>. QED
  BY <1>1, <1>2 DEF IInv, PidsDiffer

LEMMA IInvInit == Init => IInv
<1>. SUFFICES ASSUME Init
              PROVE  IInv
  OBVIOUS
<1>1. BootInv
  BY BootInvInit DEF Init
<1>2. Capturing = {}
  BY DEF Init, Capturing
<1>3. TypeOK
  BY <1>1, TimesAreNat DEF Init, TypeOK, BootInv, Period
<1>4. PidsDiffer
  BY DEF Init, BootInit, PidsDiffer
<1>. QED
  BY <1>1, <1>2, <1>3, <1>4 DEF IInv, Init

\* A process that ends, with the row as it was or, if it captured, removed.
LEMMA IInvGone ==
  ASSUME IInv, BootInv', NEW p \in Procs, Gone(p),
         faults' \in Nat,
         \/ UNCHANGED <<lock, age>>
         \/ p \in Capturing /\ lock' \in {lock, NoLock} /\ age' \in {0, age}
  PROVE  IInv'
<1> USE DEF Gone, Close, Returned, Booted
<1>1. Capturing' = Capturing \ {p}
  BY DEF Capturing, IInv, TypeOK
<1>2. TypeOK'
  <2>1. BootTypeOK'
    BY DEF BootInv
  <2>2. lock' \in Row \cup {NoLock} /\ age' \in 0 .. StaleAfter
    BY TimesAreNat DEF IInv, TypeOK
  <2>3. timer' \in [Procs -> 0 .. Period]
    BY TimesAreNat DEF IInv, TypeOK, Period
  <2>4. /\ pc' \in [Procs -> {"boot", "starting", "cycle", "idle"}]
        /\ pid' \in [Procs -> Pids \cup {NoPid}]
        /\ missed' \in [Procs -> BOOLEAN]
        /\ stopping' \in [Procs -> BOOLEAN]
        /\ strangers' \subseteq Row
    BY DEF IInv, TypeOK
  <2>. QED
    BY <2>1, <2>2, <2>3, <2>4 DEF TypeOK
<1>3. PidsDiffer'
  <2>1. \A q \in Procs : /\ pid'[q] = IF q = p THEN NoPid ELSE pid[q]
                         /\ boot'[q] = IF q = p THEN "off" ELSE boot[q]
    BY DEF IInv, TypeOK, BootInv, BootTypeOK
  <2>2. UNCHANGED strangers
    OBVIOUS
  <2>3. PidsDiffer
    BY DEF IInv
  <2>. QED
    BY <2>1, <2>2, <2>3 DEF PidsDiffer, RowOf
<1>4. ASSUME NEW q \in Capturing'
      PROVE  HoldsTheLock(q)'
  <2>1. q \in Capturing /\ q # p /\ q \in Procs
    BY <1>1 DEF Capturing
  <2>2. UNCHANGED <<lock, age>>
    BY <2>1, OneHolder
  <2>3. UNCHANGED <<boot[q], pc[q], pid[q], timer[q], missed[q]>>
    BY <2>1 DEF IInv, TypeOK, BootInv, BootTypeOK
  <2>. QED
    BY <2>1, <2>2, <2>3 DEF IInv, HoldsTheLock, RowOf, OnTime
<1>5. ASSUME NEW q \in Procs \ Capturing'
      PROVE  timer'[q] = 0 /\ ~missed'[q]
  BY <1>1, <1>5 DEF IInv, TypeOK
<1>. QED
  BY <1>2, <1>3, <1>4, <1>5 DEF IInv

LEMMA IInvFinish ==
  ASSUME IInv, BootInv', NEW p \in Capturing, Finish(p)
  PROVE  IInv'
<1>1. p \in Procs /\ Mine(p)
  BY HolderIsSafe
<1>2. faults' \in Nat
  BY DEF Finish, IInv, TypeOK
<1>3. lock' \in {lock, NoLock} /\ age' \in {0, age}
  BY <1>1 DEF Finish, ReleaseRow
<1>. QED
  BY <1>1, <1>2, <1>3, IInvGone DEF Finish

\* Starts, boots, and programs that come and go: nobody's lock or clock is touched.
LEMMA IInvBoot ==
  ASSUME IInv, BootInv', NEW p \in Procs, Start(p) \/ Boot(p) \/ BootFails(p)
  PROVE  IInv'
<1>1. boot[p] # "open" /\ UNCHANGED <<lock, age, pc, timer, missed, stopping, strangers, faults>>
  BY DEF Start, Boot, BootFails, OpenFile, ReadVersions, Migrate, Opened, Conflict, lockVars
<1>2. Capturing' = Capturing /\ p \notin Capturing
  BY <1>1 DEF Capturing, IInv, HoldsTheLock
<1>3. TypeOK' /\ PidsDiffer'
  <2>1. CASE Start(p)
    <3>1. PICK n \in Pids : ~Alive([host |-> HostOf[p], pid |-> n]) /\ pid' = [pid EXCEPT ![p] = n]
      BY <2>1 DEF Start
    <3>2. boot' = [boot EXCEPT ![p] = "read"]
      BY <2>1 DEF Start, OpenFile, Booted
    <3>3. TypeOK'
      BY <1>1, <3>1, TimesAreNat DEF IInv, TypeOK, BootInv, Row, Period
    <3>4. \A q \in Procs : /\ pid'[q] = IF q = p THEN n ELSE pid[q]
                           /\ boot'[q] = IF q = p THEN "read" ELSE boot[q]
      BY <3>1, <3>2 DEF IInv, TypeOK, BootInv, BootTypeOK
    <3>5. [host |-> HostOf[p], pid |-> n] \notin strangers
      BY <3>1 DEF Alive
    <3>6. \A q \in Procs : pid[q] # NoPid => RowOf(q) # [host |-> HostOf[p], pid |-> n]
      BY <3>1 DEF Alive
    <3>7. pid[p] = NoPid /\ \A q \in Procs : pid[q] = NoPid <=> boot[q] = "off"
      BY <2>1 DEF Start, OpenFile, IInv, PidsDiffer
    <3>8. PidsDiffer'
      <4>. SUFFICES ASSUME NEW q \in Procs, pid'[q] # NoPid
                    PROVE  /\ RowOf(q)' \notin strangers
                           /\ \A o \in Procs : RowOf(q)' = RowOf(o)' => q = o
        BY <1>1, <3>1, <3>4, <3>7, NoValues DEF PidsDiffer
      <4>1. CASE q = p
        BY <4>1, <3>1, <3>4, <3>5, <3>6, NoValues DEF RowOf
      <4>2. CASE q # p
        BY <4>2, <3>4, <3>6, <3>7 DEF RowOf, IInv, PidsDiffer
      <4>. QED
        BY <4>1, <4>2
    <3>. QED
      BY <3>3, <3>8
  <2>2. CASE Boot(p)
    <3>1. UNCHANGED pid
      BY <2>2 DEF Boot, lockVars
    <3>2. boot[p] # "off" /\ \E phase \in {"read", "migrate", "open"} : boot' = [boot EXCEPT ![p] = phase]
      BY <2>2 DEF Boot, ReadVersions, Migrate, Opened, Returned, Booted, IInv, BootInv, BootTypeOK
    <3>. QED
      BY <1>1, <3>1, <3>2 DEF IInv, TypeOK, BootInv, BootTypeOK, PidsDiffer, RowOf
  <2>3. CASE BootFails(p)
    <3>1. boot' = [boot EXCEPT ![p] = "off"] /\ pid' = [pid EXCEPT ![p] = NoPid]
      BY <2>3 DEF BootFails, Conflict, Returned, Booted
    <3>. QED
      BY <1>1, <3>1 DEF IInv, TypeOK, BootInv, BootTypeOK, PidsDiffer, RowOf
  <2>. QED
    BY <2>1, <2>2, <2>3
<1>4. ASSUME NEW q \in Capturing
      PROVE  HoldsTheLock(q)'
  <2>1. q \in Procs /\ q # p
    BY <1>2 DEF Capturing
  <2>2. UNCHANGED <<boot[q], pid[q]>>
    BY <2>1 DEF Start, Boot, BootFails, OpenFile, ReadVersions, Migrate, Opened, Conflict,
                Returned, Booted, lockVars, IInv, TypeOK, BootInv, BootTypeOK
  <2>. QED
    BY <1>1, <2>1, <2>2 DEF IInv, HoldsTheLock, RowOf, OnTime
<1>. QED
  BY <1>1, <1>2, <1>3, <1>4 DEF IInv

\* Whoever takes the row takes it from nobody.
LEMMA IInvAcquire ==
  ASSUME IInv, NEW p \in Procs, Acquire(p)
  PROVE  IInv'
<1>1. Capturing = {}
  BY HolderIsSafe DEF Acquire
<1>2. Capturing' = {p} /\ pc'[p] = "starting"
  BY <1>1 DEF Acquire, Capturing, IInv, TypeOK
<1>3. BootInv' /\ PidsDiffer'
  BY DEF Acquire, bootVars, IInv, BootInv, BootTypeOK, AppliedInOrder, OpenMeansCurrent, Ordered,
         PidsDiffer, RowOf
<1>4. pid[p] \in Pids
  BY DEF Acquire, IInv, TypeOK, PidsDiffer
<1>5. TypeOK'
  BY <1>3, <1>4, TimesAreNat DEF Acquire, IInv, TypeOK, BootInv, RowOf, Row
<1>6. timer[p] = 0 /\ ~missed[p]
  BY <1>1 DEF IInv
<1>7. HoldsTheLock(p)'
  BY <1>2, <1>6, TimesAreNat DEF Acquire, bootVars, HoldsTheLock, RowOf, OnTime
<1>8. \A q \in Procs \ Capturing' : timer'[q] = 0 /\ ~missed'[q]
  BY <1>1 DEF Acquire, IInv
<1>. QED
  BY <1>2, <1>3, <1>5, <1>7, <1>8 DEF IInv

\* The steps of a process that captures and goes on.
Loops(p) == Started(p) \/ StopAfterCycle(p) \/ CycleEnds(p) \/ NextCycle(p)

LEMMA IInvLoop ==
  ASSUME IInv, NEW p \in Capturing, Loops(p)
  PROVE  IInv'
<1>1. p \in Procs /\ HoldsTheLock(p) /\ Mine(p)
  BY HolderIsSafe DEF IInv
<1>2. UNCHANGED <<bootVars, lock, pid, strangers, faults>>
  BY DEF Loops, Started, StopAfterCycle, CycleEnds, NextCycle
<1>3. BootInv' /\ PidsDiffer'
  BY <1>2 DEF bootVars, IInv, BootInv, BootTypeOK, AppliedInOrder, OpenMeansCurrent, Ordered,
              PidsDiffer, RowOf
<1>4. age' = age \/ age' = 0
  BY DEF Loops, Started, StopAfterCycle, CycleEnds, NextCycle
<1>5. /\ pc' \in [Procs -> {"boot", "starting", "cycle", "idle"}]
      /\ timer' \in [Procs -> 0 .. Period]
      /\ missed' \in [Procs -> BOOLEAN]
      /\ stopping' \in [Procs -> BOOLEAN]
  <2>. 0 \in 0 .. Period
    BY TimesAreNat DEF Period
  <2>1. CASE Started(p)
    BY <2>1 DEF Started, IInv, TypeOK
  <2>2. CASE StopAfterCycle(p)
    BY <2>2 DEF StopAfterCycle, IInv, TypeOK
  <2>3. CASE CycleEnds(p)
    BY <2>3 DEF CycleEnds, IInv, TypeOK
  <2>4. CASE NextCycle(p)
    BY <2>4 DEF NextCycle, IInv, TypeOK
  <2>. QED
    BY <2>1, <2>2, <2>3, <2>4 DEF Loops
<1>6. TypeOK'
  BY <1>2, <1>3, <1>4, <1>5, TimesAreNat DEF IInv, TypeOK, BootInv
<1>7. Capturing' = Capturing
  BY <1>1 DEF Loops, Started, StopAfterCycle, CycleEnds, NextCycle, Capturing, IInv, TypeOK
<1>8. age \in Nat /\ timer[p] \in Nat /\ timer[p] <= Period /\ missed[p] \in BOOLEAN
  BY <1>1, TimesAreNat DEF IInv, TypeOK, Period
<1>9. OnTime(p)'
  <2>1. CASE Started(p)
    BY <1>1, <1>8, <2>1, TimesAreNat DEF Started, HoldsTheLock, OnTime, IInv, TypeOK
  <2>2. CASE StopAfterCycle(p)
    BY <1>1, <2>2 DEF StopAfterCycle, HoldsTheLock, OnTime
  <2>3. CASE CycleEnds(p)
    <3>1. pc[p] = "cycle" /\ pc'[p] = "idle" /\ timer'[p] = timer[p]
      BY <1>1, <2>3 DEF CycleEnds, IInv, TypeOK
    <3>2. CASE missed'[p]
      <4>1. ~missed[p] /\ age' = age
        BY <1>1, <2>3, <3>2 DEF CycleEnds, IInv, TypeOK
      <4>. QED
        BY <1>1, <1>8, <3>1, <3>2, <4>1, TimesAreNat DEF HoldsTheLock, OnTime
    <3>3. CASE ~missed'[p]
      <4>1. age' = 0
        BY <1>1, <2>3, <3>3 DEF CycleEnds, IInv, TypeOK
      <4>. QED
        BY <1>8, <3>1, <3>3, <4>1, TimesAreNat DEF OnTime
    <3>. QED
      BY <3>2, <3>3
  <2>4. CASE NextCycle(p)
    <3>1. pc[p] = "idle" /\ pc'[p] = "cycle" /\ timer'[p] = 0 /\ age' = age /\ missed' = missed
      BY <1>1, <2>4 DEF NextCycle, IInv, TypeOK
    <3>. QED
      BY <1>1, <1>8, <3>1, TimesAreNat DEF HoldsTheLock, OnTime, Period
  <2>. QED
    BY <2>1, <2>2, <2>3, <2>4 DEF Loops
<1>10. HoldsTheLock(p)'
  BY <1>1, <1>2, <1>9 DEF bootVars, HoldsTheLock, RowOf
<1>11. \A q \in Capturing' : HoldsTheLock(q)'
  BY <1>7, <1>10, OneHolder
<1>12. ASSUME NEW q \in Procs \ Capturing'
       PROVE  timer'[q] = 0 /\ ~missed'[q]
  <2>1. q \in Procs \ Capturing /\ q # p
    BY <1>7, <1>12
  <2>2. timer'[q] = timer[q] /\ missed'[q] = missed[q]
    BY <1>1, <2>1 DEF Loops, Started, StopAfterCycle, CycleEnds, NextCycle, IInv, TypeOK
  <2>. QED
    BY <2>1, <2>2 DEF IInv
<1>. QED
  BY <1>3, <1>6, <1>11, <1>12 DEF IInv

\* Time passes for the row and for the process that has it alike.
LEMMA IInvTick ==
  ASSUME IInv, Tick
  PROVE  IInv'
<1>1. UNCHANGED <<bootVars, lock, pc, pid, missed, stopping, strangers, faults>> /\ Capturing' = Capturing
  BY DEF Tick, Capturing
<1>2. BootInv' /\ PidsDiffer'
  BY <1>1 DEF bootVars, IInv, BootInv, BootTypeOK, AppliedInOrder, OpenMeansCurrent, Ordered,
              PidsDiffer, RowOf
<1>3. age' \in 0 .. StaleAfter /\ age' <= age + 1
  BY TimesAreNat DEF Tick, IInv, TypeOK
<1>4. ASSUME NEW q \in Procs
      PROVE  timer'[q] \in 0 .. Period
  BY TimesAreNat DEF Tick, MayWait, IInv, TypeOK, Period
<1>5. timer' \in [Procs -> 0 .. Period]
  BY <1>4 DEF Tick
<1>6. TypeOK'
  BY <1>1, <1>2, <1>3, <1>5 DEF IInv, TypeOK, BootInv
<1>7. ASSUME NEW q \in Capturing
      PROVE  HoldsTheLock(q)'
  <2>1. q \in Procs /\ HoldsTheLock(q) /\ timer'[q] = timer[q] + 1 /\ MayWait(q)
    BY DEF Tick, IInv, Capturing
  <2>2. age \in Nat /\ age' \in Nat /\ timer[q] \in Nat /\ missed[q] \in BOOLEAN /\ Period \in Nat
    BY <1>3, <2>1, TimesAreNat DEF IInv, TypeOK, Period
  <2>3. OnTime(q)'
    BY <1>1, <1>3, <2>1, <2>2, TimesAreNat DEF HoldsTheLock, OnTime, MayWait
  <2>. QED
    BY <1>1, <2>1, <2>3 DEF bootVars, HoldsTheLock, RowOf
<1>8. \A q \in Procs \ Capturing' : timer'[q] = 0 /\ ~missed'[q]
  BY <1>1 DEF Tick, IInv
<1>. QED
  BY <1>1, <1>2, <1>6, <1>7, <1>8 DEF IInv

LEMMA IInvStranger ==
  ASSUME IInv, NEW r \in Row, StrangerStarts(r) \/ StrangerEnds(r)
  PROVE  IInv'
<1>1. UNCHANGED <<bootVars, lock, age, pc, pid, timer, missed, stopping, faults>> /\ Capturing' = Capturing
  BY DEF StrangerStarts, StrangerEnds, Capturing
<1>2. BootInv'
  BY <1>1 DEF bootVars, IInv, BootInv, BootTypeOK, AppliedInOrder, OpenMeansCurrent, Ordered
<1>3. TypeOK'
  BY <1>1, <1>2 DEF StrangerStarts, StrangerEnds, IInv, TypeOK, BootInv
<1>4. PidsDiffer'
  BY <1>1 DEF bootVars, StrangerStarts, StrangerEnds, Alive, IInv, PidsDiffer, RowOf
<1>5. \A q \in Capturing : HoldsTheLock(q)'
  BY <1>1 DEF bootVars, IInv, HoldsTheLock, RowOf, OnTime
<1>. QED
  BY <1>1, <1>2, <1>3, <1>4, <1>5 DEF IInv

LEMMA IInvStep ==
  ASSUME IInv, Next \/ UNCHANGED vars
  PROVE  IInv'
<1>1. BootInv'
  BY StepsOfBoot, BootInvStep DEF IInv
<1>2. CASE UNCHANGED vars
  BY <1>1, <1>2 DEF vars, lockVars, bootVars, IInv, TypeOK, BootInv, PidsDiffer, RowOf,
                    Capturing, HoldsTheLock, OnTime
<1>3. CASE Tick
  BY <1>3, IInvTick
<1>4. ASSUME NEW p \in Procs, ProcStep(p)
      PROVE  IInv'
  <2>1. CASE Start(p) \/ Boot(p) \/ BootFails(p)
    BY <1>1, <2>1, IInvBoot
  <2>2. CASE Acquire(p)
    BY <2>2, IInvAcquire
  <2>3. CASE Loops(p)
    <3>1. p \in Capturing
      BY <2>3 DEF Loops, Started, StopAfterCycle, CycleEnds, NextCycle, Capturing
    <3>. QED
      BY <2>3, <3>1, IInvLoop
  <2>4. CASE StopIdle(p) \/ LastCycleEnds(p)
    <3>1. p \in Capturing /\ Finish(p)
      BY <2>4 DEF StopIdle, LastCycleEnds, Capturing
    <3>. QED
      BY <1>1, <3>1, IInvFinish
  <2>5. CASE Refuse(p) \/ Crash(p)
    <3>1. Gone(p) /\ UNCHANGED <<lock, age>> /\ faults' \in Nat
      BY <2>5 DEF Refuse, Crash, IInv, TypeOK
    <3>. QED
      BY <1>1, <3>1, IInvGone
  <2>. QED
    BY <1>4, <2>1, <2>2, <2>3, <2>4, <2>5 DEF ProcStep, Works, Loops
<1>5. ASSUME NEW r \in Row, StrangerStarts(r) \/ StrangerEnds(r)
      PROVE  IInv'
  BY <1>5, IInvStranger
<1>. QED
  BY <1>2, <1>3, <1>4, <1>5 DEF Next

THEOREM Invariance == Spec => []IInv
<1>1. IInv /\ [Next]_vars => IInv'
  BY IInvStep
<1>. QED
  BY IInvInit, <1>1, PTL DEF Spec

\* Types are kept.
THEOREM TypeCorrect == Spec => []TypeOK
<1>1. IInv => TypeOK
  BY DEF IInv
<1>. QED
  BY Invariance, <1>1, PTL

\* One process captures at a time, with any number of processes, hosts, crashes and
\* pids used again, as long as a heartbeat is renewed within the stale window.
THEOREM MutualExclusion == Spec => []OneCapture
<1>1. IInv => OneCapture
  BY OneHolder DEF OneCapture
<1>. QED
  BY Invariance, <1>1, PTL

\* Migrations go in in order, and a process that captures does so on a store that
\* has all of them.
THEOREM BootsInOrder == Spec => [](AppliedInOrder /\ OpenMeansCurrent)
<1>1. IInv => AppliedInOrder /\ OpenMeansCurrent
  BY DEF IInv, BootInv
<1>. QED
  BY Invariance, <1>1, PTL

\* However boots interleave, one of them throws no more often in a row than there
\* are migrations.
THEOREM RetriesAreBounded == Spec => []RetriesGetFurther
<1>1. IInv => RetriesGetFurther
  <2>. SUFFICES ASSUME IInv, NEW p \in Procs
                PROVE  failed[p] <= LastVersion
    BY DEF RetriesGetFurther
  <2>1. failed[p] \in {0} \cup Versions
    BY DEF IInv, BootInv, BootTypeOK
  <2>. QED
    BY <2>1, LastVersionIsNat DEF Versions
<1>. QED
  BY Invariance, <1>1, PTL

\* A row without a process that captures is the trace of a fault.
LEMMA StopStep ==
  ASSUME IInv, StopLeavesNoRow, Next \/ UNCHANGED vars
  PROVE  StopLeavesNoRow'
<1>. SUFFICES ASSUME faults' = 0, lock' # NoLock, Capturing' = {}
              PROVE  FALSE
  BY DEF StopLeavesNoRow
<1>1. faults = 0
  BY DEF Next, ProcStep, Works, Tick, Start, Boot, BootFails, Acquire, Refuse, Finish, Gone,
         Started, StopIdle, StopAfterCycle, CycleEnds, LastCycleEnds, NextCycle, Crash,
         StrangerStarts, StrangerEnds, vars, lockVars, IInv, TypeOK
<1>2. CASE Capturing = {}
  <2>1. lock = NoLock
    BY <1>1, <1>2 DEF StopLeavesNoRow
  <2>2. PICK p \in Procs : Acquire(p)
    BY <1>1, <1>2, <2>1
       DEF Next, ProcStep, Works, Tick, Start, Boot, BootFails, Refuse, Crash, StopIdle,
           Started, StopAfterCycle, CycleEnds, LastCycleEnds, NextCycle,
           StrangerStarts, StrangerEnds, vars, lockVars, Capturing
  <2>3. p \in Capturing'
    BY <2>2 DEF Acquire, Capturing, IInv, TypeOK
  <2>. QED
    BY <2>3
<1>3. ASSUME NEW q \in Capturing
      PROVE  FALSE
  <2>1. q \in Procs /\ pc[q] \in {"starting", "cycle", "idle"}
    BY DEF Capturing
  <2>2. pc'[q] = "boot"
    BY <2>1 DEF Capturing, Next, ProcStep, Works, Tick, Start, Boot, BootFails, Acquire, Refuse,
                Crash, Finish, Gone, Started, StopIdle, StopAfterCycle, CycleEnds, LastCycleEnds,
                NextCycle, StrangerStarts, StrangerEnds, vars, lockVars, IInv, TypeOK
  <2>3. Finish(q)
    <3>1. PICK p \in Procs : ProcStep(p)
      BY <2>1, <2>2 DEF Next, Tick, StrangerStarts, StrangerEnds, vars, lockVars
    <3>2. p = q
      BY <2>1, <2>2, <3>1
         DEF ProcStep, Works, Start, Boot, BootFails, Acquire, Refuse, Crash, Finish, Gone,
             Started, StopIdle, StopAfterCycle, CycleEnds, LastCycleEnds, NextCycle, lockVars,
             IInv, TypeOK
    <3>. QED
      BY <1>1, <2>1, <2>2, <3>1, <3>2
         DEF ProcStep, Works, Start, Boot, BootFails, Acquire, Refuse, Crash, StopIdle,
             Started, StopAfterCycle, CycleEnds, LastCycleEnds, NextCycle, lockVars, IInv, TypeOK
  <2>4. lock' = NoLock
    BY <1>1, <2>3, HolderIsSafe DEF Finish, ReleaseRow
  <2>. QED
    BY <2>4
<1>. QED
  BY <1>2, <1>3

THEOREM OrderlyStop == Spec => []StopLeavesNoRow
<1>1. Init => StopLeavesNoRow
  BY DEF Init, StopLeavesNoRow
<1>2. IInv /\ StopLeavesNoRow /\ [Next]_vars => StopLeavesNoRow'
  BY StopStep
<1>. QED
  BY Invariance, <1>1, <1>2, PTL DEF Spec
=============================================================================
