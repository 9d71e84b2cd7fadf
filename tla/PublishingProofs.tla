-------------------------- MODULE PublishingProofs --------------------------
(***************************************************************************)
(* The publishers, however many, whatever they own: with the lock, one at  *)
(* a time is in the tree, what they do to it is PublicTree, and a publish  *)
(* that ends has merged its documents.  Of the two cadences of the         *)
(* repository, the one that waits for the lock gets it.                    *)
(***************************************************************************)
EXTENDS Publishing, PublicTreeProofs

LEMMA Starts == Init => IInv
<1> SUFFICES ASSUME Init PROVE IInv
  OBVIOUS
<1>1. TreeInit
  BY DEF Init
<1>2. TypeOK
  BY <1>1 DEF Init, TypeOK, TreeInit, TreeTypeOK, NoFile, Files, Phases
<1>3. InTree = {}
  BY DEF Init, InTree
<1>4. tree[Index].plain <= version
  BY <1>1 DEF TreeInit, NoFile, Files
<1> QED BY <1>2, <1>3, <1>4 DEF IInv

\* A step keeps the types.
LEMMA TypeStep == ASSUME TypeOK, Next PROVE TypeOK'
<1> USE DEF TypeOK, TreeTypeOK, Files, Phases, Kinds
<1>1. CASE Tick
  <2>1. now' \in Nat
    BY <1>1 DEF Tick
  <2>2. UNCHANGED <<lock, pc, begun, due, todo, half, stamp, merged, treeVars, faults>>
    BY <1>1 DEF Tick, treeVars
  <2> QED BY <2>1, <2>2 DEF treeVars
<1>2. ASSUME NEW p \in Publishers, Begin(p) PROVE TypeOK'
  <2>1. begun' \in [Publishers -> Nat]
    BY <1>2 DEF Begin
  <2>2. now \in Nat /\ now + MaxPublish \in Nat
    BY TimesAreNat
  <2>3. due' \in [Publishers -> Nat]
    BY <1>2, <2>2 DEF Begin
  <2> QED BY <1>2, <2>1, <2>3 DEF Begin, Goes, Fault
<1>3. ASSUME NEW p \in Publishers, TakeLock(p) PROVE TypeOK'
  <2>1. due' \in [Publishers -> Nat]
    BY <1>3, TimesAreNat DEF TakeLock
  <2> QED BY <1>3, <2>1 DEF TakeLock, Goes
<1>4. ASSUME NEW p \in Publishers, GiveUp(p) PROVE TypeOK'
  BY <1>4 DEF GiveUp, Goes
<1>5. ASSUME NEW p \in Publishers, Sleep(p) PROVE TypeOK'
  <2>1. due' \in [Publishers -> Nat]
    BY <1>5 DEF Sleep
  <2> QED BY <1>5, <2>1 DEF Sleep
<1>6. ASSUME NEW p \in Publishers, ReadManifest(p) PROVE TypeOK'
  <2>1. version' \in Nat /\ stamp' \in [Publishers -> Nat]
    BY <1>6 DEF ReadManifest
  <2>2. manifest \in [Docs -> Nat] /\ [d \in Docs |-> NoFile] \in [Docs -> Nat]
    BY DEF NoFile
  <2>3. merged' \in [Publishers -> [Docs -> Nat]]
    BY <1>6, <2>2 DEF ReadManifest, CannotRead
  <2>4. faults' \subseteq Kinds
    BY <1>6 DEF ReadManifest, CannotRead, Fault
  <2> QED BY <1>6, <2>1, <2>3, <2>4, OwnsType DEF ReadManifest, Goes
<1>7. ASSUME NEW p \in Publishers, NEW f \in Docs \cup Pages, RenamePlain(p, f) PROVE TypeOK'
  BY <1>7 DEF RenamePlain
<1>8. ASSUME NEW p \in Publishers, NEW d \in Docs, RenameGz(p, d) PROVE TypeOK'
  <2>1. tree' \in [Files -> [plain : Nat, gz : Nat]]
    BY <1>8 DEF RenameGz
  <2>2. merged' \in [Publishers -> [Docs -> Nat]]
    BY <1>8 DEF RenameGz
  <2> QED BY <1>8, <2>1, <2>2 DEF RenameGz
<1>9. ASSUME NEW p \in Publishers, RenameIndex(p) PROVE TypeOK'
  BY <1>9 DEF RenameIndex, Goes, Manifest
<1>10. ASSUME NEW p \in Publishers, RenameIndexGz(p) PROVE TypeOK'
  BY <1>10 DEF RenameIndexGz, Goes
<1>11. ASSUME NEW p \in Publishers, Forgets(p)
       PROVE /\ todo' \in [Publishers -> SUBSET (Docs \cup Pages)]
             /\ half' \in [Publishers -> SUBSET Docs]
             /\ stamp' \in [Publishers -> Nat]
             /\ merged' \in [Publishers -> [Docs -> Nat]]
             /\ now' \in Nat /\ begun' \in [Publishers -> Nat]
             /\ TreeTypeOK'
  BY <1>11 DEF Forgets, NoFile
<1>12. ASSUME NEW p \in Publishers, WriteFails(p) PROVE TypeOK'
  BY <1>11, <1>12 DEF WriteFails, Goes, Fault
<1>13. ASSUME NEW p \in Publishers, Release(p) PROVE TypeOK'
  BY <1>11, <1>13 DEF Release, Goes, OwnLockGone
<1>14. ASSUME NEW p \in Publishers, Crash(p) PROVE TypeOK'
  BY <1>11, <1>14 DEF Crash, Goes, Fault
<1> QED
  BY <1>1, <1>2, <1>3, <1>4, <1>5, <1>6, <1>7, <1>8, <1>9, <1>10, <1>12, <1>13, <1>14
  DEF Next, PublisherStep

\* Two that hold the lock are one.
LEMMA OneHolder == IInv => OnePublisher
BY DEF IInv, OnePublisher, HoldsTheLock

\* Faults are not forgotten.
LEMMA FaultsStay == Next => faults \subseteq faults'
BY DEF Next, PublisherStep, Tick, Begin, TakeLock, GiveUp, Sleep, ReadManifest, CannotRead, RenamePlain, RenameGz,
   RenameIndex, RenameIndexGz, WriteFails, Release, Crash, Fault, Forgets

LEMMA GuardedBefore == ASSUME Next, Guarded' PROVE Guarded
BY FaultsStay DEF Guarded

LEMMA ReadableBefore == ASSUME Next, Readable' PROVE Readable
BY FaultsStay DEF Readable

\* The lock is not stale while somebody is in the tree.
LEMMA TakenWhenEmpty == ASSUME IInv, Guarded, NEW p \in Publishers, TakeLock(p) PROVE InTree = {}
<1> SUFFICES ASSUME NEW q \in InTree PROVE FALSE
  OBVIOUS
<1>1. HoldsTheLock(q) /\ q \in Publishers
  BY DEF IInv, InTree
<1>2. lock.beat \in Nat /\ due[q] \in Nat /\ now \in Nat
  BY <1>1 DEF IInv, TypeOK, HoldsTheLock
<1>3. now - lock.beat > StaleAfter
  BY <1>1 DEF TakeLock, Stale, HoldsTheLock
<1> QED BY <1>1, <1>2, <1>3, TimesAreNat, PublishIsShort DEF HoldsTheLock

\* Whoever is in the tree after a step holds the lock and is on time.
LEMMA LockStep ==
  ASSUME IInv, Next, Guarded', NEW q \in InTree'
  PROVE  HoldsTheLock(q)'
<1>1. Guarded /\ TypeOK /\ \A p \in InTree : HoldsTheLock(p)
  BY GuardedBefore DEF IInv
<1>2. q \in Publishers
  BY DEF InTree
<1>3. CASE Tick
  <2>1. q \in InTree /\ now < due[q] /\ UNCHANGED <<lock, due>> /\ now' = now + 1
    BY <1>3, <1>2 DEF Tick, InTree
  <2> QED BY <1>1, <1>2, <2>1 DEF HoldsTheLock, TypeOK
<1>4. ASSUME NEW p \in Publishers, TakeLock(p) PROVE HoldsTheLock(q)'
  <2>1. q = p
    BY <1>1, <1>4, TakenWhenEmpty DEF TakeLock, Goes, InTree, TypeOK
  <2>2. lock' = [owner |-> p, beat |-> now] /\ due'[p] = now + MaxPublish /\ now' = now
    BY <1>1, <1>4 DEF TakeLock, TypeOK
  <2>3. lock' # NoLock
    BY <2>2, <1>1, NoLockIsNoRow DEF TypeOK
  <2> QED BY <2>1, <2>2, <2>3, <1>1, TimesAreNat DEF HoldsTheLock, TypeOK
<1>5. ASSUME NEW p \in Publishers, Release(p) PROVE HoldsTheLock(q)'
  <2>1. p \in InTree /\ q \in InTree /\ q # p
    BY <1>1, <1>2, <1>5 DEF Release, Goes, InTree, TypeOK
  <2> QED BY <1>1, <2>1 DEF HoldsTheLock
<1>6. ASSUME NEW p \in Publishers, Begin(p) PROVE HoldsTheLock(q)'
  <2>1. q \in InTree /\ q # p
    BY <1>1, <1>2, <1>6 DEF Begin, Fault, Guarded, Goes, InTree, TypeOK
  <2>2. now' = now /\ lock' = lock /\ due'[q] = due[q]
    BY <1>1, <1>2, <1>6, <2>1 DEF Begin, TypeOK
  <2> QED BY <1>1, <2>1, <2>2 DEF HoldsTheLock
<1>7. ASSUME NEW p \in Publishers, GiveUp(p) \/ Sleep(p) \/ Crash(p) PROVE HoldsTheLock(q)'
  <2>1. q \in InTree /\ q # p
    BY <1>1, <1>2, <1>7 DEF GiveUp, Sleep, Crash, Goes, InTree, TypeOK
  <2>2. now' = now /\ lock' = lock /\ due'[q] = due[q]
    BY <1>1, <1>2, <1>7, <2>1 DEF GiveUp, Sleep, Crash, Forgets, TypeOK
  <2> QED BY <1>1, <2>1, <2>2 DEF HoldsTheLock
<1>8. ASSUME NEW p \in Publishers,
             \/ ReadManifest(p) \/ RenameIndex(p) \/ RenameIndexGz(p) \/ WriteFails(p)
             \/ \E f \in Docs \cup Pages : RenamePlain(p, f)
             \/ \E d \in Docs : RenameGz(p, d)
      PROVE  HoldsTheLock(q)'
  <2>1. q \in InTree
    BY <1>1, <1>2, <1>8
    DEF ReadManifest, RenameIndex, RenameIndexGz, WriteFails, RenamePlain, RenameGz, Goes, InTree, TypeOK
  <2>2. UNCHANGED <<now, lock, due>>
    BY <1>8 DEF ReadManifest, RenameIndex, RenameIndexGz, WriteFails, RenamePlain, RenameGz, Forgets
  <2> QED BY <1>1, <2>1, <2>2 DEF HoldsTheLock
<1> QED BY <1>3, <1>4, <1>5, <1>6, <1>7, <1>8 DEF Next, PublisherStep

\* What the one publisher in the tree has renamed stays of the newest version.
LEMMA NewestStep ==
  ASSUME IInv, Next, Guarded'
  PROVE  /\ \A q \in InTree' : IsNewest(q)'
         /\ tree'[Index].plain <= version'
<1>1. /\ TypeOK /\ \A p \in InTree : IsNewest(p)
      /\ tree[Index].plain <= version
      /\ \A p, q \in InTree : p = q
  BY GuardedBefore, OneHolder DEF IInv, OnePublisher
<1>2. /\ Index \in Files /\ Docs \subseteq Files /\ Index \notin Docs
      /\ version \in Nat /\ tree \in [Files -> [plain : Nat, gz : Nat]]
  BY <1>1, FilesDiffer DEF Files, TypeOK, TreeTypeOK
<1>r. Readable' => Readable
  BY ReadableBefore
<1>3. ASSUME UNCHANGED treeVars, UNCHANGED <<half, stamp, merged>>,
             \A q \in InTree' : pc'[q] = "merge" \/ (q \in InTree /\ pc'[q] = pc[q]) \/ pc'[q] = "release"
      PROVE  /\ \A q \in InTree' : IsNewest(q)'
             /\ tree'[Index].plain <= version'
  BY <1>1, <1>r, <1>3 DEF IsNewest, Merged, treeVars
<1>4. CASE Tick
  <2>1. InTree' = InTree /\ pc' = pc
    BY <1>4 DEF Tick, InTree
  <2>2. UNCHANGED treeVars /\ UNCHANGED <<half, stamp, merged>>
    BY <1>4 DEF Tick, treeVars
  <2> QED BY <1>3, <2>1, <2>2
<1>5. ASSUME NEW p \in Publishers, Begin(p) \/ TakeLock(p) \/ GiveUp(p) \/ Sleep(p)
      PROVE  /\ \A q \in InTree' : IsNewest(q)'
             /\ tree'[Index].plain <= version'
  <2>1. \A q \in InTree' : pc'[q] = "merge" \/ (q \in InTree /\ pc'[q] = pc[q])
    BY <1>1, <1>5 DEF Begin, TakeLock, GiveUp, Sleep, Goes, InTree, TypeOK
  <2>2. UNCHANGED treeVars /\ UNCHANGED <<half, stamp, merged>>
    BY <1>5 DEF Begin, TakeLock, GiveUp, Sleep, treeVars
  <2> QED BY <1>3, <2>1, <2>2
<1>6. ASSUME NEW p \in Publishers, WriteFails(p) \/ Release(p) \/ Crash(p)
      PROVE  /\ \A q \in InTree' : IsNewest(q)'
             /\ tree'[Index].plain <= version'
  <2>1. UNCHANGED treeVars
    BY <1>6 DEF WriteFails, Release, Crash, Forgets, treeVars
  <2>2. ASSUME NEW q \in InTree' PROVE IsNewest(q)'
    <3>1. CASE q = p
      <4>1. pc'[q] = "release"
        BY <3>1, <1>1, <1>6 DEF WriteFails, Release, Crash, Goes, InTree, TypeOK
      <4> QED BY <4>1 DEF IsNewest
    <3>2. CASE q # p
      <4>1. q \in InTree /\ pc'[q] = pc[q]
        BY <3>2, <1>1, <1>6 DEF WriteFails, Release, Crash, Goes, InTree, TypeOK
      <4>2. half'[q] = half[q] /\ stamp'[q] = stamp[q] /\ merged'[q] = merged[q]
        BY <3>2, <4>1, <1>1, <1>6 DEF WriteFails, Release, Crash, Forgets, InTree, TypeOK
      <4> QED BY <4>1, <4>2, <2>1, <1>1, <1>r DEF IsNewest, Merged, treeVars
    <3> QED BY <3>1, <3>2
  <2> QED BY <2>1, <2>2, <1>1 DEF treeVars
<1>7. ASSUME NEW p \in Publishers,
             pc[p] \in {"merge", "write", "index_gz"}, pc'[p] \in {"write", "index_gz", "release"},
             \A q \in Publishers : q # p => pc'[q] = pc[q],
             IsNewest(p)'
      PROVE  \A q \in InTree' : IsNewest(q)'
  <2>1. p \in InTree
    BY <1>7 DEF InTree
  <2>2. \A q \in InTree' : q = p
    BY <1>1, <1>7, <2>1 DEF InTree
  <2> QED BY <1>7, <2>2
<1>8. ASSUME NEW p \in Publishers, ReadManifest(p)
      PROVE  /\ \A q \in InTree' : IsNewest(q)'
             /\ tree'[Index].plain <= version'
  <2>1. /\ pc[p] = "merge" /\ pc' = [pc EXCEPT ![p] = "write"]
        /\ tree' = tree /\ manifest' = manifest /\ version' = version + 1
        /\ stamp' = [stamp EXCEPT ![p] = version + 1]
        /\ Readable' => merged' = [merged EXCEPT ![p] = manifest]
        /\ half' = [half EXCEPT ![p] = {}]
        /\ \A q \in Publishers : q # p => pc'[q] = pc[q]
    BY <1>1, <1>8 DEF ReadManifest, CannotRead, Goes, TypeOK, Fault, Readable
  <2>2. tree'[Index].plain <= version' /\ tree'[Index].plain # version'
    BY <1>1, <1>2, <2>1
  <2>3. /\ pc'[p] = "write" /\ stamp'[p] = version' /\ half'[p] = {}
        /\ Readable' => merged'[p] = manifest'
    BY <1>1, <2>1 DEF TypeOK
  <2>4. IsNewest(p)'
    BY <2>2, <2>3 DEF IsNewest, Merged
  <2> QED BY <1>7, <2>1, <2>2, <2>3, <2>4
<1>9. ASSUME NEW p \in Publishers, NEW f \in Docs \cup Pages, RenamePlain(p, f)
      PROVE  /\ \A q \in InTree' : IsNewest(q)'
             /\ tree'[Index].plain <= version'
  <2>1. /\ pc[p] = "write" /\ pc' = pc /\ f # Index
        /\ tree' = [tree EXCEPT ![f] = [tree[f] EXCEPT !.plain = stamp[p]]]
        /\ UNCHANGED <<manifest, version, stamp, merged>>
        /\ half' = [half EXCEPT ![p] = {f} \cap Docs]
    BY <1>9, FilesDiffer DEF RenamePlain
  <2>2. p \in InTree /\ stamp[p] = version /\ IsNewest(p)
    BY <1>1, <2>1 DEF InTree, IsNewest
  <2>3. tree'[Index] = tree[Index] /\ tree'[f].plain = version /\ tree'[f].gz = tree[f].gz
    BY <1>2, <2>1, <2>2 DEF Files
  <2>4. \A d \in half'[p] : tree'[d].plain = version'
    BY <1>1, <2>1, <2>3 DEF TypeOK
  <2>5. ASSUME NEW d \in Docs PROVE Merged(p, d)'
    <3>1. Merged(p, d)
      BY <2>1, <2>2 DEF IsNewest
    <3>2. CASE d # f
      <4>1. tree'[d] = tree[d]
        BY <3>2, <1>2, <2>1
      <4> QED BY <1>r, <3>1, <4>1, <2>1 DEF Merged
    <3>3. CASE d = f
      <4>1. tree[d] = [plain |-> version, gz |-> version] => tree'[d] = [plain |-> version, gz |-> version]
        BY <3>3, <1>2, <2>1, <2>2
      <4> QED BY <1>r, <3>1, <4>1, <2>1 DEF Merged
    <3> QED BY <3>2, <3>3
  <2>6. IsNewest(p)'
    BY <2>1, <2>2, <2>3, <2>4, <2>5 DEF IsNewest
  <2> QED BY <1>1, <1>7, <2>1, <2>3, <2>6
<1>10. ASSUME NEW p \in Publishers, NEW d \in Docs, RenameGz(p, d)
       PROVE  /\ \A q \in InTree' : IsNewest(q)'
              /\ tree'[Index].plain <= version'
  <2>1. /\ pc[p] = "write" /\ pc' = pc /\ d \in half[p]
        /\ tree' = [tree EXCEPT ![d] = [tree[d] EXCEPT !.gz = stamp[p]]]
        /\ UNCHANGED <<manifest, version, stamp>>
        /\ merged' = [merged EXCEPT ![p] = [merged[p] EXCEPT ![d] = stamp[p]]]
        /\ half' = [half EXCEPT ![p] = {}]
    BY <1>10 DEF RenameGz
  <2>2. p \in InTree /\ stamp[p] = version /\ IsNewest(p) /\ tree[d].plain = version
    BY <1>1, <2>1 DEF InTree, IsNewest
  <2>3. tree'[Index] = tree[Index] /\ tree'[d] = [plain |-> version, gz |-> version]
    BY <1>2, <2>1, <2>2
  <2>4. half'[p] = {}
    BY <1>1, <2>1 DEF TypeOK
  <2>5. ASSUME NEW e \in Docs PROVE Merged(p, e)'
    <3>1. Merged(p, e)
      BY <2>1, <2>2 DEF IsNewest
    <3>2. CASE e # d
      <4>1. tree'[e] = tree[e] /\ merged'[p][e] = merged[p][e]
        BY <3>2, <1>1, <1>2, <2>1 DEF TypeOK
      <4> QED BY <1>r, <3>1, <4>1, <2>1 DEF Merged
    <3>3. CASE e = d
      <4>1. merged'[p][d] = version
        BY <1>1, <2>1, <2>2 DEF TypeOK
      <4> QED BY <3>3, <4>1, <2>1, <2>3 DEF Merged
    <3> QED BY <3>2, <3>3
  <2>6. IsNewest(p)'
    BY <2>1, <2>2, <2>3, <2>4, <2>5 DEF IsNewest
  <2> QED BY <1>1, <1>7, <2>1, <2>3, <2>6
<1>11. ASSUME NEW p \in Publishers, RenameIndex(p) \/ RenameIndexGz(p)
       PROVE  /\ \A q \in InTree' : IsNewest(q)'
              /\ tree'[Index].plain <= version'
  <2>1. /\ pc[p] \in {"write", "index_gz"} /\ pc'[p] \in {"index_gz", "release"}
        /\ \A q \in Publishers : q # p => pc'[q] = pc[q]
        /\ UNCHANGED <<version, stamp>>
    BY <1>1, <1>11 DEF RenameIndex, RenameIndexGz, Goes, TypeOK
  <2>2. p \in InTree /\ stamp[p] = version /\ IsNewest(p)
    BY <1>1, <2>1 DEF InTree, IsNewest
  <2>3. tree'[Index].plain = version
    BY <1>2, <1>11, <2>2 DEF RenameIndex, RenameIndexGz, IsNewest
  <2>4. IsNewest(p)'
    BY <2>1, <2>2, <2>3 DEF IsNewest
  <2> QED BY <1>2, <1>7, <2>1, <2>3, <2>4
<1> QED BY <1>4, <1>5, <1>6, <1>8, <1>9, <1>10, <1>11 DEF Next, PublisherStep

\* A step of a publisher is a step of the tree, or leaves it alone.
LEMMA TreeKept ==
  ASSUME IInv, Next, Guarded', Readable'
  PROVE  TreeNext \/ UNCHANGED treeVars
<1>1. TypeOK /\ Readable /\ \A p \in InTree : IsNewest(p)
  BY GuardedBefore, ReadableBefore DEF IInv
<1>2. /\ Index \in Files /\ Docs \subseteq Files /\ Pages \subseteq Files
      /\ Index \notin Docs /\ Index \notin Pages /\ Docs \cap Pages = {}
  BY FilesDiffer DEF Files
<1>3. CASE Tick
  BY <1>3 DEF Tick, treeVars
<1>4. ASSUME NEW p \in Publishers,
             \/ Begin(p) \/ TakeLock(p) \/ GiveUp(p) \/ Sleep(p)
             \/ WriteFails(p) \/ Release(p) \/ Crash(p)
      PROVE  UNCHANGED treeVars
  BY <1>4 DEF Begin, TakeLock, GiveUp, Sleep, WriteFails, Release, Crash, Forgets, treeVars
<1>5. ASSUME NEW p \in Publishers, ReadManifest(p) PROVE NewVersion
  BY <1>5 DEF ReadManifest, NewVersion
<1>6. ASSUME NEW p \in Publishers, NEW f \in Docs \cup Pages, RenamePlain(p, f)
      PROVE  \E g \in Files : ReplacePlain(g)
  <2>1. pc[p] = "write" /\ stamp[p] = version
    BY <1>1, <1>6 DEF RenamePlain, InTree, IsNewest
  <2>2. ReplacePlain(f)
    BY <1>2, <1>6, <2>1 DEF RenamePlain, ReplacePlain, Plain
  <2> QED BY <1>2, <2>2
<1>7. ASSUME NEW p \in Publishers, NEW d \in Docs, RenameGz(p, d)
      PROVE  \E g \in Files : ReplaceGz(g)
  <2>1. pc[p] = "write" /\ stamp[p] = version /\ tree[d].plain = version
    BY <1>1, <1>7 DEF RenameGz, InTree, IsNewest
  <2>2. ReplaceGz(d)
    BY <1>2, <1>7, <2>1 DEF RenameGz, ReplaceGz, Gz
  <2> QED BY <1>2, <2>2
<1>8. ASSUME NEW p \in Publishers, RenameIndex(p) PROVE ReplaceIndex
  <2>1. pc[p] = "write" /\ stamp[p] = version /\ IsNewest(p)
    BY <1>1, <1>8 DEF RenameIndex, InTree, IsNewest
  <2>2. manifest' = merged[p] /\ tree' = Plain(Index) /\ version' = version
    BY <1>8, <2>1 DEF RenameIndex, Manifest, Plain
  <2>3. tree[Index].plain # version /\ \A d \in Docs : Merged(p, d)
    BY <2>1 DEF IsNewest
  <2>4. merged[p] \in [Docs -> Nat]
    BY <1>1 DEF TypeOK
  <2>5. \A d \in Docs : manifest'[d] # manifest[d] => d \in Placed /\ manifest'[d] = version
    BY <1>1, <2>2, <2>3 DEF Merged, Placed
  <2>6. manifest' \in [Docs -> {manifest[d] : d \in Docs} \cup {version}]
    BY <2>2, <2>4, <2>5
  <2> QED BY <2>2, <2>3, <2>5, <2>6 DEF ReplaceIndex
<1>9. ASSUME NEW p \in Publishers, RenameIndexGz(p) PROVE \E g \in Files : ReplaceGz(g)
  <2>1. pc[p] = "index_gz" /\ stamp[p] = version /\ tree[Index].plain = version
    BY <1>1, <1>9 DEF RenameIndexGz, InTree, IsNewest
  <2>2. ReplaceGz(Index)
    BY <1>2, <1>9, <2>1 DEF RenameIndexGz, ReplaceGz, Gz
  <2> QED BY <1>2, <2>2
<1> QED BY <1>3, <1>4, <1>5, <1>6, <1>7, <1>8, <1>9 DEF Next, PublisherStep, TreeNext
----------------------------------------------------------------------------
LEMMA Inductive == IInv /\ [Next]_pubVars => IInv'
<1>1. ASSUME IInv, Next PROVE IInv'
  <2>1. TypeOK'
    BY <1>1, TypeStep DEF IInv
  <2> QED BY <1>1, <2>1, LockStep, NewestStep DEF IInv
<1>2. ASSUME IInv, UNCHANGED pubVars PROVE IInv'
  BY <1>2 DEF IInv, TypeOK, TreeTypeOK, Guarded, Readable, InTree, HoldsTheLock, IsNewest, Merged, pubVars, treeVars
<1> QED BY <1>1, <1>2

\* The inductive invariant of the publishers: who is in the tree holds the lock, is
\* on time, and has renamed only what it says it has.
THEOREM Invariance == Spec => []IInv
BY Starts, Inductive, PTL DEF Spec

\* The lock lets one publisher into the tree at a time, for any number of them that
\* may die anywhere, as long as a publish is shorter than the stale window.
THEOREM OneAtATime == Spec => []OnePublisher
BY Invariance, OneHolder, PTL

\* Whatever the publishers do with the lock is a step of PublicTree, as long as they can
\* read the manifest they merge into.
THEOREM TreeIsKept == Spec => KeepsTheTree
<1>1. IInv /\ [Next]_pubVars => [Guarded' /\ Readable' => TreeNext]_treeVars
  BY TreeKept DEF pubVars, treeVars
<1> QED BY <1>1, Invariance, PTL DEF Spec, KeepsTheTree

\* With a database to hold the lock and a manifest that can be read, publishing
\* implements PublicTree.
THEOREM Implements == Spec /\ []Guarded /\ []Readable => TreeSpec
<1>1. Init => TreeInit
  BY DEF Init
<1> QED BY <1>1, TreeIsKept, PTL DEF Spec, TreeSpec, KeepsTheTree

\* So a crash or a failed write anywhere leaves no digest ahead of its file.
THEOREM NeverAhead == Spec /\ []Guarded /\ []Readable => []DigestsNeverAhead
BY Implements, TreeDigestsNeverAhead, PTL
----------------------------------------------------------------------------
(* Merging.                                                                *)

\* What a publish has done so far: each document of its own is still to do, lacks its
\* .gz, or is in place and in the manifest in memory; of the others memory has what the
\* manifest says.
InPlace(p, d) == merged[p][d] = version /\ tree[d] = [plain |-> version, gz |-> version]

HasDone(p) ==
  /\ todo[p] \subseteq Owns[p] /\ half[p] \subseteq Owns[p]
  /\ \A c, d \in half[p] : c = d
  /\ \A d \in Docs :
       IF d \in Owns[p] THEN d \in todo[p] \/ d \in half[p] \/ InPlace(p, d)
       ELSE merged[p][d] = manifest[d]

IsMerging(p) == pc[p] = "write" => HasDone(p)

MergeInv == Guarded /\ Readable => \A p \in InTree : IsMerging(p)

\* A step of whoever publishes keeps it: nobody else is in the tree.
LEMMA MergeStep ==
  ASSUME IInv, MergeInv, Next, Guarded', Readable', NEW q \in InTree'
  PROVE  IsMerging(q)'
<1>1. Guarded /\ TypeOK /\ \A p \in InTree : IsNewest(p) /\ IsMerging(p)
  BY GuardedBefore, ReadableBefore DEF IInv, MergeInv
<1>2. \A p, r \in InTree : p = r
  BY <1>1, OneHolder DEF OnePublisher
<1>3. /\ Index \in Files /\ Docs \subseteq Files /\ Index \notin Docs /\ Docs \cap Pages = {}
      /\ version \in Nat /\ tree \in [Files -> [plain : Nat, gz : Nat]]
  BY <1>1, FilesDiffer DEF Files, TypeOK, TreeTypeOK
<1>4. q \in Publishers
  BY DEF InTree
<1> SUFFICES ASSUME pc'[q] = "write"
             PROVE  HasDone(q)'
  BY DEF IsMerging, HasDone
<1>5. ASSUME UNCHANGED treeVars, UNCHANGED <<todo, half, merged>>, pc[q] = "write"
      PROVE  HasDone(q)'
  <2>1. q \in InTree
    BY <1>4, <1>5 DEF InTree
  <2> QED BY <1>1, <1>5, <2>1 DEF IsMerging, HasDone, InPlace, treeVars
<1>6. CASE Tick
  BY <1>5, <1>6 DEF Tick, treeVars
<1>7. ASSUME NEW p \in Publishers, Begin(p) \/ TakeLock(p) \/ GiveUp(p) \/ Sleep(p)
      PROVE  pc[q] = "write" /\ UNCHANGED treeVars /\ UNCHANGED <<todo, half, merged>>
  BY <1>1, <1>4, <1>7 DEF Begin, TakeLock, GiveUp, Sleep, Goes, TypeOK, treeVars
<1>8. ASSUME NEW p \in Publishers, WriteFails(p) \/ Release(p) \/ Crash(p)
      PROVE  HasDone(q)'
  <2>1. q # p /\ pc[q] = "write" /\ q \in InTree /\ UNCHANGED treeVars
    BY <1>1, <1>4, <1>8 DEF WriteFails, Release, Crash, Goes, Forgets, TypeOK, InTree, treeVars
  <2>2. todo'[q] = todo[q] /\ half'[q] = half[q] /\ merged'[q] = merged[q]
    BY <1>1, <1>4, <1>8, <2>1 DEF WriteFails, Release, Crash, Forgets, TypeOK
  <2> QED BY <1>1, <2>1, <2>2 DEF IsMerging, HasDone, InPlace, treeVars
<1>9. ASSUME NEW p \in Publishers, ReadManifest(p)
      PROVE  HasDone(q)'
  <2>1. p \in InTree /\ q \in InTree
    BY <1>1, <1>4, <1>9 DEF ReadManifest, Goes, InTree, TypeOK
  <2>2. q = p
    BY <1>2, <2>1
  <2>3. merged' = [merged EXCEPT ![p] = manifest]
    BY <1>9 DEF ReadManifest, CannotRead, Fault, Readable
  <2> QED BY <1>1, <1>9, <2>2, <2>3 DEF ReadManifest, TypeOK, HasDone
<1>10. ASSUME NEW p \in Publishers, p \in InTree,
              RenameIndex(p) \/ RenameIndexGz(p)
       PROVE  FALSE
  <2>1. q \in InTree
    BY <1>1, <1>4, <1>10 DEF RenameIndex, RenameIndexGz, Goes, InTree, TypeOK
  <2>2. q = p
    BY <1>2, <1>10, <2>1
  <2> QED BY <1>1, <1>4, <1>10, <2>2 DEF RenameIndex, RenameIndexGz, Goes, TypeOK
<1>11. ASSUME NEW p \in Publishers, NEW f \in Docs \cup Pages, RenamePlain(p, f)
       PROVE  HasDone(q)'
  <2>1. p \in InTree /\ q \in InTree
    BY <1>1, <1>4, <1>11 DEF RenamePlain, InTree
  <2>2. q = p /\ pc[p] = "write" /\ half[p] = {} /\ f \in todo[p] /\ IsMerging(p)
    BY <1>1, <1>2, <1>11, <2>1 DEF RenamePlain
  <2>3. /\ todo'[p] = todo[p] \ {f} /\ half'[p] = {f} \cap Docs
        /\ UNCHANGED <<merged, version, manifest>>
    BY <1>1, <1>11 DEF RenamePlain, TypeOK
  <2>4. \A d \in Docs : d # f => tree'[d] = tree[d]
    BY <1>3, <1>11 DEF RenamePlain
  <2>5. ASSUME NEW d \in Docs, d \in Owns[p] PROVE d \in todo'[p] \/ d \in half'[p] \/ InPlace(p, d)'
    <3>1. d = f => d \in half'[p]
      BY <2>3, <2>5
    <3>2. d # f => d \in todo'[p] \/ InPlace(p, d)'
      BY <2>2, <2>3, <2>4, <2>5 DEF IsMerging, HasDone, InPlace
    <3> QED BY <3>1, <3>2
  <2> QED BY <2>2, <2>3, <2>5 DEF IsMerging, HasDone
<1>12. ASSUME NEW p \in Publishers, NEW e \in Docs, RenameGz(p, e)
       PROVE  HasDone(q)'
  <2>1. p \in InTree /\ q \in InTree
    BY <1>1, <1>4, <1>12 DEF RenameGz, InTree
  <2>2. q = p /\ pc[p] = "write" /\ e \in half[p] /\ IsMerging(p) /\ IsNewest(p)
    BY <1>1, <1>2, <1>12, <2>1 DEF RenameGz
  <2>3. /\ todo'[p] = todo[p] /\ half'[p] = {} /\ UNCHANGED <<version, manifest>>
        /\ merged'[p] = [merged[p] EXCEPT ![e] = version]
    BY <1>1, <1>12, <2>2 DEF RenameGz, TypeOK, IsNewest
  <2>4. tree' = [tree EXCEPT ![e] = [tree[e] EXCEPT !.gz = version]] /\ tree[e].plain = version
    BY <1>12, <2>2 DEF RenameGz, IsNewest
  <2>5. tree'[e] = [plain |-> version, gz |-> version]
    BY <1>3, <2>4
  <2>6. \A d \in Docs : d # e => d \notin half[p]
    BY <2>2 DEF IsMerging, HasDone
  <2>7. ASSUME NEW d \in Docs, d \in Owns[p] PROVE d \in todo'[p] \/ InPlace(p, d)'
    <3>1. CASE d = e
      BY <1>1, <2>3, <2>5, <3>1 DEF InPlace, TypeOK
    <3>2. CASE d # e
      <4>1. tree'[d] = tree[d] /\ merged'[p][d] = merged[p][d] /\ d \notin half[p]
        BY <1>1, <1>3, <2>3, <2>4, <2>6, <3>2 DEF TypeOK
      <4> QED BY <2>2, <2>3, <2>7, <4>1 DEF IsMerging, HasDone, InPlace
    <3> QED BY <3>1, <3>2
  <2>8. ASSUME NEW d \in Docs, d \notin Owns[p] PROVE merged'[p][d] = manifest'[d]
    <3>1. d # e
      BY <2>2, <2>8 DEF IsMerging, HasDone
    <3> QED BY <1>1, <2>2, <2>3, <2>8, <3>1 DEF IsMerging, HasDone, TypeOK
  <2> QED BY <2>2, <2>3, <2>7, <2>8 DEF IsMerging, HasDone
<1> QED BY <1>5, <1>6, <1>7, <1>8, <1>9, <1>10, <1>11, <1>12 DEF Next, PublisherStep, RenameIndex, RenameIndexGz, InTree

LEMMA MergeInductive == IInv /\ MergeInv /\ [Next]_pubVars => MergeInv'
<1>1. ASSUME IInv, MergeInv, Next PROVE MergeInv'
  BY <1>1, MergeStep DEF MergeInv
<1>2. ASSUME MergeInv, UNCHANGED pubVars PROVE MergeInv'
  BY <1>2 DEF MergeInv, Guarded, Readable, InTree, IsMerging, HasDone, InPlace, pubVars, treeVars
<1> QED BY <1>1, <1>2

\* The end of a publish, which is RenameIndex.
LEMMA EndOfPublish ==
  ASSUME IInv, MergeInv, Next, NEW p \in Publishers, Guarded, Readable,
         pc[p] = "write", pc'[p] = "index_gz", NEW d \in Docs
  PROVE  IF d \in Owns[p] THEN Agrees(d)' ELSE manifest'[d] = manifest[d]
<1>1. TypeOK /\ p \in InTree /\ IsMerging(p)
  BY DEF IInv, MergeInv, InTree
<1>2. RenameIndex(p)
  <2>1. ~ Tick
    BY DEF Tick
  <2>2. PICK r \in Publishers : PublisherStep(r)
    BY <2>1 DEF Next
  <2>3. r = p
    BY <1>1, <2>2
    DEF PublisherStep, Begin, TakeLock, GiveUp, Sleep, ReadManifest, RenamePlain, RenameGz, RenameIndex,
        RenameIndexGz, WriteFails, Release, Crash, Goes, TypeOK
  <2>4. ~ (\/ Begin(p) \/ TakeLock(p) \/ GiveUp(p) \/ Sleep(p) \/ ReadManifest(p)
           \/ RenameIndexGz(p) \/ WriteFails(p) \/ Release(p) \/ Crash(p))
    BY <1>1
    DEF Begin, TakeLock, GiveUp, Sleep, ReadManifest, RenameIndexGz, WriteFails, Release, Crash, Goes, TypeOK
  <2>5. \A f : ~ RenamePlain(p, f) /\ ~ RenameGz(p, f)
    BY DEF RenamePlain, RenameGz
  <2> QED BY <2>2, <2>3, <2>4, <2>5 DEF PublisherStep
<1>3. /\ todo[p] = {} /\ half[p] = {}
      /\ manifest' = merged[p] /\ tree'= [tree EXCEPT ![Index] = [tree[Index] EXCEPT !.plain = stamp[p]]]
  BY <1>2 DEF RenameIndex, Manifest
<1>4. tree'[d] = tree[d]
  BY <1>1, <1>3, FilesDiffer DEF Files, TypeOK, TreeTypeOK
<1>5. CASE d \in Owns[p]
  BY <1>1, <1>3, <1>4, <1>5 DEF IsMerging, HasDone, InPlace, Agrees
<1>6. CASE d \notin Owns[p]
  BY <1>1, <1>3, <1>6 DEF IsMerging, HasDone
<1> QED BY <1>5, <1>6

\* A publish that reaches its end, whoever took over whatever lock before it, leaves its
\* own documents, their .gz siblings and their digests in agreement and every other
\* entry of the manifest as it was (publishDocuments).
THEOREM PublishesMerge == Spec => PublishMerges
<1>1. Init => MergeInv
  BY DEF Init, MergeInv, InTree
<1>2. Spec => [](IInv /\ MergeInv)
  BY <1>1, Starts, Inductive, MergeInductive, PTL DEF Spec
<1> DEFINE Merges ==
      \A p \in Publishers :
        Guarded /\ Readable /\ pc[p] = "write" /\ pc'[p] = "index_gz" =>
          \A d \in Docs : IF d \in Owns[p] THEN Agrees(d)' ELSE manifest'[d] = manifest[d]
<1>3. IInv /\ MergeInv /\ Next => Merges
  BY EndOfPublish
<1>4. UNCHANGED pubVars => UNCHANGED <<pc, tree, manifest>>
  BY DEF pubVars, treeVars
<1>5. IInv /\ MergeInv /\ [Next]_pubVars => [Merges]_<<pc, tree, manifest>>
  BY <1>3, <1>4
<1>6. Spec => [][Merges]_<<pc, tree, manifest>>
  <2> HIDE DEF Merges
  <2> QED BY <1>2, <1>5, PTL DEF Spec
<1> QED BY <1>6 DEF PublishMerges
----------------------------------------------------------------------------
(* Waiting.                                                                *)

\* The two cadences of the repository: the daily run waits for the lock, the findings run
\* skips.  The wait is longer than the stale window, a wait and a stale row are over when
\* the daily run starts again, and a stale row when the findings run does.
TwoCadences(w, o) ==
  /\ w # o /\ Publishers = {w, o} /\ Waits = {w}
  /\ StaleAfter < MaxWait
  /\ MaxWait + StaleAfter < Period[w]
  /\ StaleAfter + 1 < Period[o]

\* The row is one of the last publish that took it, and the waiter's own is no longer in
\* its way when it starts again.
RowIsOf(w, o) ==
  lock # NoLock =>
    /\ lock.beat <= now /\ begun[lock.owner] > 0
    /\ lock.owner = o => lock.beat <= begun[o]
    /\ lock.owner = w => /\ lock.beat <= begun[w] + MaxWait
                         /\ pc[w] = "trying" => lock.beat + StaleAfter < begun[w]

\* While the waiter waits, the other one has not started again: what the waiter found
\* fresh at its last poll is of a start that a period separates from the next one.
IsWaiting(w, o) ==
  pc[w] = "trying" =>
    /\ begun[w] <= due[w] /\ due[w] <= begun[w] + MaxWait
    /\ begun[o] <= begun[w]
    /\ begun[w] < due[w] => begun[o] > 0 /\ due[w] <= begun[o] + StaleAfter + 1

WaitInv(w, o) ==
  /\ \A p \in Publishers : begun[p] <= now /\ (pc[p] \notin {"off", "refused"} => now <= due[p])
  /\ now > 0
  /\ pc[o] = "trying" => due[o] = begun[o]
  /\ \A p \in Publishers : pc[p] = "trying" => begun[p] > 0
  /\ RowIsOf(w, o)
  /\ IsWaiting(w, o)
  /\ pc[w] # "refused"

LEMMA WaitStarts == ASSUME NEW w, NEW o, TwoCadences(w, o), Init PROVE WaitInv(w, o)
<1>1. o \in Publishers /\ w \in Publishers
  BY DEF TwoCadences
<1> QED BY <1>1 DEF Init, WaitInv, RowIsOf, IsWaiting

\* A row that is not stale when the waiter polls is of the other one's last start.
LEMMA FreshRow ==
  ASSUME NEW w, NEW o, TwoCadences(w, o), TypeOK, WaitInv(w, o),
         pc[w] = "trying", now = due[w], ~ Stale
  PROVE  /\ now <= begun[o] + StaleAfter
         /\ begun[o] > 0
<1>1. /\ w \in Publishers /\ o \in Publishers /\ now \in Nat /\ begun[o] \in Nat /\ begun[w] \in Nat
      /\ due[w] \in Nat /\ StaleAfter \in Nat
  BY TimesAreNat DEF TwoCadences, TypeOK
<1>2. lock # NoLock /\ ~(now - lock.beat > StaleAfter)
  BY DEF Stale
<1>3. lock.owner \in {w, o} /\ lock.beat \in Nat
  BY <1>2 DEF TypeOK, TwoCadences
<1>4. lock.owner # w
  BY <1>1, <1>2, <1>3 DEF WaitInv, RowIsOf, IsWaiting
<1>5. lock.owner = o
  BY <1>3, <1>4
<1>6. lock.beat <= begun[o] /\ begun[o] > 0
  BY <1>2, <1>5 DEF WaitInv, RowIsOf
<1> QED BY <1>1, <1>2, <1>3, <1>6

\* So the wait is long enough.
LEMMA TurnComes ==
  ASSUME NEW w, NEW o, TwoCadences(w, o), TypeOK, WaitInv(w, o)
  PROVE  ~ GiveUp(w)
<1> SUFFICES ASSUME GiveUp(w) PROVE FALSE
  OBVIOUS
<1>1. /\ w \in Publishers /\ o \in Publishers /\ now \in Nat /\ begun[o] \in Nat /\ begun[w] \in Nat
      /\ due[w] \in Nat /\ StaleAfter \in Nat /\ MaxWait \in Nat /\ StaleAfter < MaxWait
  BY TimesAreNat DEF TwoCadences, TypeOK
<1>2. pc[w] = "trying" /\ now = due[w] /\ ~ Stale /\ now >= begun[w] + MaxWait
  BY DEF GiveUp, Deadline, TwoCadences
<1>3. now <= begun[o] + StaleAfter
  BY <1>2, FreshRow
<1>4. begun[o] <= begun[w]
  BY <1>2 DEF WaitInv, IsWaiting
<1> QED BY <1>1, <1>2, <1>3, <1>4

\* The other one starts while the waiter waits only in the very second of its start.
LEMMA OtherStarts ==
  ASSUME NEW w, NEW o, TwoCadences(w, o), TypeOK, WaitInv(w, o), pc[w] = "trying", Begin(o)
  PROVE  now = begun[w] /\ due[w] = begun[w]
<1>1. /\ w \in Publishers /\ o \in Publishers /\ now \in Nat /\ begun[o] \in Nat /\ begun[w] \in Nat
      /\ due[w] \in Nat /\ StaleAfter \in Nat /\ Period[o] \in Nat /\ StaleAfter + 1 < Period[o]
  BY TimesAreNat DEF TwoCadences, TypeOK
<1>2. begun[o] = 0 \/ now >= begun[o] + Period[o]
  BY DEF Begin
<1>3. /\ begun[w] <= due[w] /\ begun[w] <= now /\ now <= due[w]
      /\ begun[w] < due[w] => begun[o] > 0 /\ due[w] <= begun[o] + StaleAfter + 1
  BY <1>1 DEF WaitInv, IsWaiting
<1> QED BY <1>1, <1>2, <1>3

LEMMA WaitStep ==
  ASSUME NEW w, NEW o, TwoCadences(w, o), TypeOK, WaitInv(w, o), Next
  PROVE  WaitInv(w, o)'
<1>1. /\ w \in Publishers /\ o \in Publishers /\ w # o /\ Publishers = {w, o} /\ now \in Nat
      /\ begun \in [Publishers -> Nat] /\ due \in [Publishers -> Nat] /\ pc \in [Publishers -> Phases]
      /\ StaleAfter \in Nat /\ MaxWait \in Nat /\ MaxPublish \in Nat /\ Period \in [Publishers -> Nat]
      /\ lock # NoLock => lock.owner \in {w, o} /\ lock.beat \in Nat
      /\ MaxWait + StaleAfter < Period[w]
  BY TimesAreNat DEF TwoCadences, TypeOK
<1>2. ~ GiveUp(w)
  BY TurnComes
<1>3. CASE Tick
  <2>1. /\ now' = now + 1 /\ UNCHANGED <<lock, pc, begun, due>>
        /\ \A p \in Publishers : pc[p] \notin {"off", "refused"} => now < due[p]
    BY <1>3 DEF Tick
  <2> QED BY <1>1, <2>1 DEF WaitInv, RowIsOf, IsWaiting
<1>4. CASE Begin(w)
  <2>1. /\ pc[w] \in {"off", "refused"} /\ (begun[w] = 0 \/ now >= begun[w] + Period[w])
        /\ begun' = [begun EXCEPT ![w] = now] /\ UNCHANGED <<now, lock>>
        /\ \/ pc' = [pc EXCEPT ![w] = "trying"] /\ due' = [due EXCEPT ![w] = now]
           \/ pc' = [pc EXCEPT ![w] = "merge"] /\ due' = [due EXCEPT ![w] = now + MaxPublish]
    BY <1>4 DEF Begin, Goes
  <2>2. lock # NoLock /\ lock.owner = w => lock.beat + StaleAfter < now
    BY <1>1, <2>1 DEF WaitInv, RowIsOf
  <2>3. RowIsOf(w, o)'
    BY <1>1, <2>1, <2>2 DEF WaitInv, RowIsOf
  <2>4. IsWaiting(w, o)'
    BY <1>1, <2>1 DEF WaitInv, IsWaiting
  <2> QED BY <1>1, <2>1, <2>3, <2>4 DEF WaitInv
<1>5. CASE Begin(o)
  <2>1. /\ pc[o] \in {"off", "refused"}
        /\ begun' = [begun EXCEPT ![o] = now] /\ UNCHANGED <<now, lock>>
        /\ \/ pc' = [pc EXCEPT ![o] = "trying"] /\ due' = [due EXCEPT ![o] = now]
           \/ pc' = [pc EXCEPT ![o] = "merge"] /\ due' = [due EXCEPT ![o] = now + MaxPublish]
    BY <1>5 DEF Begin, Goes
  <2>2. pc[w] = "trying" => now = begun[w] /\ due[w] = begun[w]
    BY <1>5, OtherStarts
  <2>3. RowIsOf(w, o)'
    BY <1>1, <2>1 DEF WaitInv, RowIsOf
  <2>4. IsWaiting(w, o)'
    BY <1>1, <2>1, <2>2 DEF WaitInv, IsWaiting
  <2> QED BY <1>1, <2>1, <2>3, <2>4 DEF WaitInv
<1>6. ASSUME NEW p \in Publishers, TakeLock(p) PROVE WaitInv(w, o)'
  <2>1. /\ pc[p] = "trying" /\ now = due[p] /\ lock' = [owner |-> p, beat |-> now]
        /\ pc' = [pc EXCEPT ![p] = "merge"] /\ due' = [due EXCEPT ![p] = now + MaxPublish]
        /\ UNCHANGED <<now, begun>>
    BY <1>6 DEF TakeLock, Goes
  <2>2. begun'[p] > 0 /\ lock'.beat = now /\ lock'.owner = p
    BY <1>1, <2>1 DEF WaitInv
  <2>3. p = o => now <= begun[o]
    BY <2>1 DEF WaitInv
  <2>4. p = w => now <= begun[w] + MaxWait /\ pc'[w] # "trying"
    BY <1>1, <2>1 DEF WaitInv, IsWaiting
  <2>5. RowIsOf(w, o)'
    BY <1>1, <2>1, <2>2, <2>3, <2>4 DEF RowIsOf
  <2>6. IsWaiting(w, o)'
    BY <1>1, <2>1 DEF WaitInv, IsWaiting
  <2> QED BY <1>1, <2>1, <2>5, <2>6 DEF WaitInv
<1>7. CASE GiveUp(o)
  <2>1. pc' = [pc EXCEPT ![o] = "refused"] /\ UNCHANGED <<now, lock, begun, due>>
    BY <1>7 DEF GiveUp, Goes
  <2>2. RowIsOf(w, o)' /\ IsWaiting(w, o)'
    BY <1>1, <2>1 DEF WaitInv, RowIsOf, IsWaiting
  <2> QED BY <1>1, <2>1, <2>2 DEF WaitInv
<1>8. CASE Sleep(w)
  <2>1. /\ pc[w] = "trying" /\ now = due[w] /\ ~ Stale /\ now < begun[w] + MaxWait
        /\ due' = [due EXCEPT ![w] = now + 1] /\ UNCHANGED <<now, lock, pc, begun>>
    BY <1>8 DEF Sleep, Deadline, TwoCadences
  <2>2. now <= begun[o] + StaleAfter /\ begun[o] > 0
    BY <2>1, FreshRow
  <2>3. IsWaiting(w, o)'
    BY <1>1, <2>1, <2>2 DEF WaitInv, IsWaiting
  <2>4. RowIsOf(w, o)'
    BY <1>1, <2>1 DEF WaitInv, RowIsOf
  <2> QED BY <1>1, <2>1, <2>3, <2>4 DEF WaitInv
<1>9. ~ Sleep(o)
  BY <1>1 DEF Sleep, Deadline, TwoCadences, WaitInv
<1>10. ASSUME NEW p \in Publishers, UNCHANGED <<now, begun>>, lock' \in {lock, NoLock},
              pc'[p] # "trying", pc'[p] # "refused", \A q \in Publishers : q # p => pc'[q] = pc[q],
              \A q \in Publishers : q # p => due'[q] = due[q],
              pc'[p] = "off" \/ (due'[p] = due[p] /\ pc[p] \notin {"off", "refused"})
       PROVE  WaitInv(w, o)'
  <2>1. RowIsOf(w, o)' /\ IsWaiting(w, o)'
    BY <1>1, <1>10 DEF WaitInv, RowIsOf, IsWaiting
  <2> QED BY <1>1, <1>10, <2>1 DEF WaitInv
<1>11. ASSUME NEW p \in Publishers,
              ReadManifest(p) \/ RenameIndex(p) \/ RenameIndexGz(p) \/ WriteFails(p) \/ Release(p) \/ Crash(p)
       PROVE  WaitInv(w, o)'
  BY <1>1, <1>10, <1>11
  DEF ReadManifest, RenameIndex, RenameIndexGz, WriteFails, Release, Crash, Forgets, OwnLockGone, Goes
<1>12. ASSUME NEW p \in Publishers, \E f : RenamePlain(p, f) \/ RenameGz(p, f) PROVE WaitInv(w, o)'
  <2>1. UNCHANGED <<now, lock, pc, begun, due>>
    BY <1>12 DEF RenamePlain, RenameGz
  <2> QED BY <2>1 DEF WaitInv, RowIsOf, IsWaiting
<1>13. \A p \in Publishers : PublisherStep(p) => WaitInv(w, o)'
  BY <1>1, <1>2, <1>4, <1>5, <1>6, <1>7, <1>8, <1>9, <1>11, <1>12 DEF PublisherStep
<1> QED BY <1>3, <1>13 DEF Next

\* The daily run never goes without its publish for the lock's sake: whoever dies
\* holding it, the row is stale before the wait is over (publish.ts:48-55).
THEOREM WaitersPublish ==
  ASSUME NEW w, NEW o, TwoCadences(w, o)
  PROVE  Spec => []NoWaiterGivesUp
<1>1. Init => WaitInv(w, o)
  BY WaitStarts
<1>2. IInv /\ WaitInv(w, o) /\ [Next]_pubVars => WaitInv(w, o)'
  <2>1. ASSUME UNCHANGED pubVars, WaitInv(w, o) PROVE WaitInv(w, o)'
    BY <2>1 DEF WaitInv, RowIsOf, IsWaiting, pubVars
  <2> QED BY <2>1, WaitStep DEF IInv
<1>3. WaitInv(w, o) => NoWaiterGivesUp
  BY DEF TwoCadences, WaitInv, NoWaiterGivesUp
<1> QED BY <1>1, <1>2, <1>3, Invariance, PTL DEF Spec
=============================================================================
