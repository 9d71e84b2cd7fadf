-------------------------- MODULE PublicTreeProofs --------------------------
(* public/ as the publisher keeps it: digests are never ahead of the files. *)
EXTENDS PublicTree, TLAPS

\* The inductive invariant holds in the empty tree.
LEMMA TreeStarts == TreeInit => TreeInv
BY DEF TreeInit, TreeInv, TreeTypeOK, DigestsNeverAhead, NoFile, Files

\* A step replaces one file by the newest version, and digests only grow.
LEMMA TreeStep ==
  ASSUME TreeInv, TreeNext
  PROVE  /\ TreeInv'
         /\ \A d \in Docs : manifest[d] <= manifest'[d]
         /\ \A f \in Files : tree[f].plain <= tree'[f].plain
<1> USE DEF TreeInv, TreeTypeOK, DigestsNeverAhead, Files, Plain, Gz
<1>1. CASE NewVersion
  BY <1>1 DEF NewVersion
<1>2. ASSUME NEW f \in Files, ReplacePlain(f)
      PROVE  /\ TreeInv'
             /\ \A d \in Docs : manifest[d] <= manifest'[d]
             /\ \A g \in Files : tree[g].plain <= tree'[g].plain
  BY <1>2 DEF ReplacePlain
<1>3. ASSUME NEW f \in Files, ReplaceGz(f)
      PROVE  /\ TreeInv'
             /\ \A d \in Docs : manifest[d] <= manifest'[d]
             /\ \A g \in Files : tree[g].plain <= tree'[g].plain
  BY <1>3 DEF ReplaceGz
<1>4. CASE ReplaceIndex
  <2>1. tree' = [tree EXCEPT ![Index] = [@ EXCEPT !.plain = version]] /\ version' = version
    BY <1>4 DEF ReplaceIndex
  <2>2. \A d \in Docs : tree'[d] = tree[d] /\ tree[d] \in [plain : Nat, gz : Nat]
    BY <2>1, FilesDiffer
  <2>3. tree' \in [Files -> [plain : Nat, gz : Nat]] /\ version' \in Nat
    BY <2>1
  <2>4. \A f \in Files : /\ tree'[f].gz <= tree'[f].plain /\ tree'[f].plain <= version'
                         /\ tree[f].plain <= tree'[f].plain
    BY <2>1
  <2>5. manifest' \in [Docs -> Nat]
    BY <1>4 DEF ReplaceIndex
  <2>6. ASSUME NEW d \in Docs PROVE manifest'[d] <= tree'[d].gz /\ manifest[d] <= manifest'[d]
    <3>1. CASE manifest'[d] = manifest[d]
      BY <3>1, <2>2, <2>5
    <3>2. CASE manifest'[d] # manifest[d]
      BY <3>2, <2>2, <2>5, <1>4 DEF ReplaceIndex, Placed
    <3> QED BY <3>1, <3>2
  <2> QED BY <2>2, <2>3, <2>4, <2>5, <2>6
<1> QED BY <1>1, <1>2, <1>3, <1>4 DEF TreeNext

\* Publishes as PublicTree allows them never put a digest ahead of its file.
THEOREM TreeInvariance == TreeSpec => []TreeInv
<1>1. TreeInv /\ UNCHANGED treeVars => TreeInv'
  BY DEF TreeInv, TreeTypeOK, DigestsNeverAhead, treeVars
<1>2. TreeInv /\ [TreeNext]_treeVars => TreeInv'
  BY <1>1, TreeStep
<1> QED BY TreeStarts, <1>2, PTL DEF TreeSpec

\* index.json never carries a digest newer than the bytes it points at.
THEOREM TreeDigestsNeverAhead == TreeSpec => []DigestsNeverAhead
<1>1. TreeInv => DigestsNeverAhead
  BY DEF TreeInv
<1> QED BY <1>1, TreeInvariance, PTL
=============================================================================
