----------------------------- MODULE PublicTree -----------------------------
(***************************************************************************)
(* What the publisher promises about public/, whoever publishes and        *)
(* whatever goes wrong: files are replaced one at a time by newer ones, a  *)
(* .gz sibling follows its file, and index.json takes up the digest of a   *)
(* document only once the document and its sibling both have it, and never *)
(* drops one.  Publishing implements this; Serving reads it.               *)
(*                                                                         *)
(* A version is the serial number of a publish.  It stands for the bytes,  *)
(* their digest and their mtime: every document carries the time it was    *)
(* generated, so no bytes come twice.                                      *)
(***************************************************************************)
EXTENDS Naturals

CONSTANTS
  Docs,   \* documents with a digest in the manifest
  Pages,  \* files without: the homepage and its archive
  Index   \* the manifest, index.json

Files == Docs \cup Pages \cup {Index}

ASSUME FilesDiffer == Docs \cap Pages = {} /\ Index \notin Docs \cup Pages

VARIABLES
  tree,     \* [Files -> [plain, gz]]: the version of each file and of its .gz
  manifest, \* [Docs -> the version whose digest index.json carries]
  version   \* the newest publish

treeVars == <<tree, manifest, version>>

NoFile == 0

TreeTypeOK ==
  /\ tree \in [Files -> [plain : Nat, gz : Nat]]
  /\ manifest \in [Docs -> Nat]
  /\ version \in Nat

TreeInit ==
  /\ tree = [f \in Files |-> [plain |-> NoFile, gz |-> NoFile]]
  /\ manifest = [d \in Docs |-> NoFile]
  /\ version = 0

NewVersion ==
  /\ version' = version + 1
  /\ UNCHANGED <<tree, manifest>>

\* Mutant of Plain: written in place, a file is empty before it is full.
PlainInPlace(f) ==
  IF tree[f].plain \in {NoFile, version} THEN [tree EXCEPT ![f] = [@ EXCEPT !.plain = version]]
  ELSE [tree EXCEPT ![f] = [@ EXCEPT !.plain = NoFile]]

Plain(f) == [tree EXCEPT ![f] = [@ EXCEPT !.plain = version]]
Gz(f) == [tree EXCEPT ![f] = [@ EXCEPT !.gz = version]]

ReplacePlain(f) ==
  /\ f # Index
  /\ tree' = Plain(f)
  /\ UNCHANGED <<manifest, version>>

ReplaceGz(f) ==
  /\ f \notin Pages
  /\ tree[f].plain = version
  /\ tree' = Gz(f)
  /\ UNCHANGED <<manifest, version>>

\* Documents whose digest may go into the manifest.
Placed == {d \in Docs : tree[d] = [plain |-> version, gz |-> version]}

ReplaceIndex ==
  /\ tree[Index].plain # version
  /\ manifest' \in [Docs -> {manifest[d] : d \in Docs} \cup {version}]
  /\ \A d \in Docs : manifest'[d] # manifest[d] => d \in Placed /\ manifest'[d] = version
  /\ tree' = Plain(Index)
  /\ UNCHANGED version

TreeNext ==
  \/ NewVersion
  \/ \E f \in Files : ReplacePlain(f) \/ ReplaceGz(f)
  \/ ReplaceIndex

TreeSpec == TreeInit /\ [][TreeNext]_treeVars
----------------------------------------------------------------------------
\* index.json never carries a digest newer than the bytes it points at, neither
\* the plain ones nor the compressed: every document is in place before the
\* manifest says so, in the middle of a publish and after a failed one too.
DigestsNeverAhead ==
  \A d \in Docs : manifest[d] <= tree[d].gz /\ tree[d].gz <= tree[d].plain

\* Inductive: the invariant, and no file is newer than the newest publish.
TreeInv ==
  /\ TreeTypeOK
  /\ DigestsNeverAhead
  /\ \A f \in Files : tree[f].gz <= tree[f].plain /\ tree[f].plain <= version
=============================================================================
