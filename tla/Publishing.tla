----------------------------- MODULE Publishing -----------------------------
(***************************************************************************)
(* The publisher (src/publish/publish.ts), the only writer of public/: two *)
(* cadences, each a process that takes the publish_lock row, reads the     *)
(* manifest, renames its documents into place one by one, and renames the  *)
(* merged manifest last.  It implements PublicTree.                        *)
(*                                                                         *)
(* `now` counts the polls of a waiting publisher: one unit is the second   *)
(* it sleeps.                                                              *)
(***************************************************************************)
EXTENDS PublicTree, Integers, FiniteSets

CONSTANTS
  Publishers,  \* processes
  Waits,       \* those with lock: 'wait', the others have lock: 'skip'
  Owns,        \* [Publishers -> SUBSET (Docs \cup Pages)]: what each one writes
  NoLock,      \* the publish_lock table is empty
  StaleAfter,  \* PUBLISH_LOCK_STALE_MS
  MaxWait,     \* PUBLISH_LOCK_MAX_WAIT_MS
  MaxPublish,  \* how long a publish may take, from the lock to its release
  Period,      \* [Publishers -> how far apart its starts are]: the cadence's crontab line
  MaxTime,     \* bound: the clock
  MaxFaults    \* bound: how many kinds of faults, each once

ASSUME OwnsType == Owns \in [Publishers -> SUBSET (Docs \cup Pages)]
ASSUME PublishIsShort == MaxPublish <= StaleAfter
ASSUME TimesAreNat ==
  StaleAfter \in Nat /\ MaxPublish \in Nat /\ MaxWait \in Nat /\ Period \in [Publishers -> Nat]
ASSUME NoLockIsNoRow == NoLock \notin [owner : Publishers, beat : Nat]

VARIABLES
  now,
  lock,     \* publish_lock: [owner, beat], or NoLock
  pc,       \* [Publishers -> where a publish is]
  begun,    \* [Publishers -> when it asked for the lock last, 0 before]
  due,      \* [Publishers -> when it polls again, or has finished]
  todo,     \* [Publishers -> its files not yet in place]
  half,     \* [Publishers -> the files in place without their .gz]
  stamp,    \* [Publishers -> the version of its publish]
  merged,   \* [Publishers -> the manifest's documents, in memory]
  faults    \* the kinds of faults so far

pubVars == <<now, lock, pc, begun, due, todo, half, stamp, merged, treeVars, faults>>

Kinds == {"crash", "write", "no_database", "unreadable"}

Phases == {"off", "refused", "trying", "merge", "write", "index_gz", "release"}

\* Publishers that have passed the lock.
InTree == {p \in Publishers : pc[p] \in {"merge", "write", "index_gz", "release"}}

TypeOK ==
  /\ now \in Nat
  /\ lock \in [owner : Publishers, beat : Nat] \cup {NoLock}
  /\ pc \in [Publishers -> Phases]
  /\ begun \in [Publishers -> Nat]
  /\ due \in [Publishers -> Nat]
  /\ todo \in [Publishers -> SUBSET (Docs \cup Pages)]
  /\ half \in [Publishers -> SUBSET Docs]
  /\ stamp \in [Publishers -> Nat]
  /\ merged \in [Publishers -> [Docs -> Nat]]
  /\ TreeTypeOK
  /\ faults \subseteq Kinds

Init ==
  /\ now = 1
  /\ lock = NoLock
  /\ pc = [p \in Publishers |-> "off"]
  /\ begun = [p \in Publishers |-> 0]
  /\ due = [p \in Publishers |-> 0]
  /\ todo = [p \in Publishers |-> {}]
  /\ half = [p \in Publishers |-> {}]
  /\ stamp = [p \in Publishers |-> 0]
  /\ merged = [p \in Publishers |-> [d \in Docs |-> NoFile]]
  /\ TreeInit
  /\ faults = {}
----------------------------------------------------------------------------
(* acquirePublishLock.                                                     *)

Goes(p, phase) == pc' = [pc EXCEPT ![p] = phase]

Fault(kind) ==
  /\ kind \notin faults
  /\ Cardinality(faults) < MaxFaults
  /\ faults' = faults \cup {kind}

\* openWriter; when it throws, the publish goes ahead without the lock.
Begin(p) ==
  /\ pc[p] \in {"off", "refused"}
  /\ begun[p] = 0 \/ now >= begun[p] + Period[p]
  /\ begun' = [begun EXCEPT ![p] = now]
  /\ \/ /\ Goes(p, "trying")
        /\ due' = [due EXCEPT ![p] = now]
        /\ UNCHANGED faults
     \/ /\ Goes(p, "merge")
        /\ due' = [due EXCEPT ![p] = now + MaxPublish]
        /\ Fault("no_database")
  /\ UNCHANGED <<now, lock, todo, half, stamp, merged, version, tree, manifest>>

\* Mutant of Stale: a boundary of one unit.
StaleAtOnce == lock # NoLock => now - lock.beat >= StaleAfter

Stale == lock # NoLock => now - lock.beat > StaleAfter

\* The immediate transaction.  The heartbeat timer set here never fires: from
\* here to the release the publish is one synchronous stretch.
TakeLock(p) ==
  /\ pc[p] = "trying" /\ now = due[p]
  /\ Stale
  /\ lock' = [owner |-> p, beat |-> now]
  /\ Goes(p, "merge")
  /\ due' = [due EXCEPT ![p] = now + MaxPublish]
  /\ UNCHANGED <<now, begun, todo, half, stamp, merged, version, tree, manifest, faults>>

\* Mutant of Deadline: the wait is as long as the stale window.
DeadlineAtStale(p) == IF p \in Waits THEN begun[p] + StaleAfter ELSE begun[p]

Deadline(p) == IF p \in Waits THEN begun[p] + MaxWait ELSE begun[p]

GiveUp(p) ==
  /\ pc[p] = "trying" /\ now = due[p]
  /\ ~Stale
  /\ now >= Deadline(p)
  /\ Goes(p, "refused")
  /\ UNCHANGED <<now, lock, begun, due, todo, half, stamp, merged, version, tree, manifest, faults>>

Sleep(p) ==
  /\ pc[p] = "trying" /\ now = due[p]
  /\ ~Stale
  /\ now < Deadline(p)
  /\ due' = [due EXCEPT ![p] = now + 1]
  /\ UNCHANGED <<now, lock, pc, begun, todo, half, stamp, merged, version, tree, manifest, faults>>
----------------------------------------------------------------------------
(* publishDocuments.                                                       *)

\* readManifest: an index.json that cannot be read or parsed is taken for none.
CannotRead(p) ==
  /\ tree[Index].plain # NoFile
  /\ merged' = [merged EXCEPT ![p] = [d \in Docs |-> NoFile]]
  /\ Fault("unreadable")

ReadManifest(p) ==
  /\ pc[p] = "merge"
  /\ Goes(p, "write")
  /\ version' = version + 1
  /\ stamp' = [stamp EXCEPT ![p] = version + 1]
  /\ todo' = [todo EXCEPT ![p] = Owns[p]]
  /\ half' = [half EXCEPT ![p] = {}]
  /\ \/ /\ merged' = [merged EXCEPT ![p] = manifest]
        /\ UNCHANGED faults
     \/ CannotRead(p)
  /\ UNCHANGED <<now, lock, begun, due, tree, manifest>>

\* writeDocument and writeAtomic: a document, then its .gz sibling, and its
\* digest into the manifest in memory; a page has neither.  The order of the
\* documents is fixed and of no consequence.
RenamePlain(p, f) ==
  /\ pc[p] = "write"
  /\ half[p] = {}
  /\ f \in todo[p]
  /\ tree' = [tree EXCEPT ![f] = [@ EXCEPT !.plain = stamp[p]]]
  /\ todo' = [todo EXCEPT ![p] = @ \ {f}]
  /\ half' = [half EXCEPT ![p] = {f} \cap Docs]
  /\ UNCHANGED <<now, lock, pc, begun, due, stamp, merged, version, manifest, faults>>

\* Mutant of RenameGz: a sibling that could not be written is let pass.
GzFails(p, d) ==
  /\ pc[p] = "write"
  /\ d \in half[p]
  /\ half' = [half EXCEPT ![p] = {}]
  /\ merged' = [merged EXCEPT ![p] = [@ EXCEPT ![d] = stamp[p]]]
  /\ UNCHANGED <<now, lock, pc, begun, due, todo, stamp, version, tree, manifest, faults>>

RenameGz(p, d) ==
  /\ pc[p] = "write"
  /\ d \in half[p]
  /\ tree' = [tree EXCEPT ![d] = [@ EXCEPT !.gz = stamp[p]]]
  /\ half' = [half EXCEPT ![p] = {}]
  /\ merged' = [merged EXCEPT ![p] = [@ EXCEPT ![d] = stamp[p]]]
  /\ UNCHANGED <<now, lock, pc, begun, due, todo, stamp, version, manifest, faults>>

\* Mutant of Manifest: this publish's documents replace what was there.
ManifestReplaced(p) == [d \in Docs |-> IF d \in Owns[p] THEN merged[p][d] ELSE NoFile]

Manifest(p) == merged[p]

\* Manifest last, always.
RenameIndex(p) ==
  /\ pc[p] = "write"
  /\ todo[p] = {} /\ half[p] = {}
  /\ manifest' = Manifest(p)
  /\ tree' = [tree EXCEPT ![Index] = [@ EXCEPT !.plain = stamp[p]]]
  /\ Goes(p, "index_gz")
  /\ UNCHANGED <<now, lock, begun, due, todo, half, stamp, merged, version, faults>>

RenameIndexGz(p) ==
  /\ pc[p] = "index_gz"
  /\ tree' = [tree EXCEPT ![Index] = [@ EXCEPT !.gz = stamp[p]]]
  /\ Goes(p, "release")
  /\ UNCHANGED <<now, lock, begun, due, todo, half, stamp, merged, version, manifest, faults>>

\* The locals of a publish die with it.
Forgets(p) ==
  /\ todo' = [todo EXCEPT ![p] = {}]
  /\ half' = [half EXCEPT ![p] = {}]
  /\ stamp' = [stamp EXCEPT ![p] = 0]
  /\ merged' = [merged EXCEPT ![p] = [d \in Docs |-> NoFile]]
  /\ UNCHANGED <<now, begun, version, tree, manifest>>

\* A write threw: the lock is released, the manifest is not written.
WriteFails(p) ==
  /\ pc[p] \in {"write", "index_gz"}
  /\ Fault("write")
  /\ Goes(p, "release")
  /\ Forgets(p)
  /\ UNCHANGED <<lock, due>>

\* A row taken since this process began is its own; one of an earlier process of
\* this cadence has another pid.
OwnLockGone(p) ==
  IF lock # NoLock /\ lock.owner = p /\ lock.beat >= begun[p] THEN NoLock ELSE lock

Release(p) ==
  /\ pc[p] = "release"
  /\ lock' = OwnLockGone(p)
  /\ Goes(p, "off")
  /\ Forgets(p)
  /\ due' = [due EXCEPT ![p] = 0]
  /\ UNCHANGED faults

\* The process dies; its lock row stays.
Crash(p) ==
  /\ pc[p] \notin {"off", "refused"}
  /\ Fault("crash")
  /\ Goes(p, "off")
  /\ Forgets(p)
  /\ due' = [due EXCEPT ![p] = 0]
  /\ UNCHANGED lock

\* Time passes while nobody has to act: sleepers wake on time, and a publish
\* takes at most MaxPublish.
Tick ==
  /\ now < MaxTime
  /\ \A p \in Publishers : pc[p] \notin {"off", "refused"} => now < due[p]
  /\ now' = now + 1
  /\ UNCHANGED <<lock, pc, begun, due, todo, half, stamp, merged, version, tree, manifest, faults>>

PublisherStep(p) ==
  \/ Begin(p)
  \/ TakeLock(p)
  \/ GiveUp(p)
  \/ Sleep(p)
  \/ ReadManifest(p)
  \/ \E f \in Docs \cup Pages : RenamePlain(p, f)
  \/ \E d \in Docs : RenameGz(p, d)
  \/ RenameIndex(p)
  \/ RenameIndexGz(p)
  \/ WriteFails(p)
  \/ Release(p)
  \/ Crash(p)

Next == Tick \/ \E p \in Publishers : PublisherStep(p)

Spec == Init /\ [][Next]_pubVars
----------------------------------------------------------------------------
(* Properties.                                                             *)

Guarded == "no_database" \notin faults

Readable == "unreadable" \notin faults

\* The lock lets one publisher into the tree at a time, whoever died holding it,
\* as long as a publish is over before its lock is stale.
OnePublisher == Guarded => \A p, q \in InTree : p = q

\* Inductive: a publisher in the tree holds the lock and is on time, ...
HoldsTheLock(p) ==
  /\ lock # NoLock /\ lock.owner = p
  /\ now <= due[p] /\ due[p] <= lock.beat + MaxPublish

\* ... what it has renamed so far is of the newest version, and what it has in
\* memory is what the manifest says or what it has renamed, if it could read it.
Merged(p, d) ==
  Readable /\ merged[p][d] # manifest[d] =>
    merged[p][d] = version /\ tree[d] = [plain |-> version, gz |-> version]

IsNewest(p) ==
  /\ pc[p] \in {"write", "index_gz"} => stamp[p] = version
  /\ pc[p] = "write" =>
       /\ tree[Index].plain # version
       /\ \A d \in half[p] : tree[d].plain = version
       /\ \A d \in Docs : Merged(p, d)
  /\ pc[p] = "index_gz" => tree[Index].plain = version

IInv ==
  /\ TypeOK
  /\ Guarded => /\ \A p \in InTree : HoldsTheLock(p) /\ IsNewest(p)
                /\ tree[Index].plain <= version

\* Every step of the publishers is one of PublicTree, whichever cadence takes it and
\* whatever failed before: what index.json says is never ahead of the files.
\* An unreadable index.json ends that: the publish that could not read it drops the
\* entries of every document it does not own.
KeepsTheTree == [][Guarded' /\ Readable' => TreeNext]_treeVars

\* A publish that reaches its end leaves its own documents, their .gz siblings
\* and their digests in agreement, and the entries of every other document as
\* they are in the manifest it replaces: merged, never replaced.
Agrees(d) == manifest[d] = tree[d].plain /\ tree[d].gz = tree[d].plain

PublishMerges ==
  [][\A p \in Publishers :
       Guarded /\ Readable /\ pc[p] = "write" /\ pc'[p] = "index_gz" =>
         \A d \in Docs : IF d \in Owns[p] THEN Agrees(d)' ELSE manifest'[d] = manifest[d]]_<<pc, tree, manifest>>

\* A waiting publisher gets its turn: a holder that died is stale before the wait
\* is over, and a live one has finished.
NoWaiterGivesUp == \A p \in Waits : pc[p] # "refused"
=============================================================================
