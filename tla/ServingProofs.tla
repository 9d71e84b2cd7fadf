--------------------------- MODULE ServingProofs ---------------------------
(***************************************************************************)
(* The server and its clients over a public/ that changes at any moment:   *)
(* no client holds bytes older than their digest, or sees a file go back.  *)
(***************************************************************************)
EXTENDS Serving, PublicTreeProofs

LEMMA Starts == ServingInit => IInv
<1> SUFFICES ASSUME ServingInit PROVE IInv
  OBVIOUS
<1>1. TreeInv
  BY TreeStarts DEF ServingInit
<1>2. ServingTypeOK
  BY <1>1 DEF ServingInit, ServingTypeOK, TreeInv, NoDigests, NoCopy, NoFile, Tags
<1>3. Index \in Files
  BY DEF Files
<1>4. tree[Index].plain \in Nat /\ manifest \in [Docs -> Nat]
  BY <1>1, <1>3 DEF TreeInv, TreeTypeOK
<1>5. CacheIsSound /\ CachedDigestsAreCurrent /\ RequestIsSound
  BY <1>4 DEF ServingInit, CacheIsSound, CachedDigestsAreCurrent, RequestIsSound, NoDigests, NoFile, Digested
<1>6. CopyCoversItsDigest
  BY DEF ServingInit, CopyCoversItsDigest, NoCopy, Files
<1>7. CopiesAreSound
  <2> SUFFICES ASSUME NEW c \in Clients, NEW f \in Files PROVE copy[c][f].bytes <= Newest(c, f)
    BY DEF CopiesAreSound
  <2>1. copy[c][f].bytes = 0
    BY DEF ServingInit, NoCopy, NoFile
  <2>2. Newest(c, f) \in Nat
    BY <1>1 DEF Newest, TreeInv, TreeTypeOK
  <2> QED BY <2>1, <2>2
<1> QED BY <1>1, <1>2, <1>5, <1>6, <1>7 DEF IInv

\* The publisher never makes a file that a client may get older.
LEMMA NewestGrows ==
  ASSUME TreeInv, TreeNext, NEW c \in Clients, NEW f \in Files
  PROVE  Newest(c, f) <= Newest(c, f)' /\ Newest(c, f) \in Nat /\ Newest(c, f)' \in Nat
<1>1. TreeInv' /\ tree[f].plain <= tree'[f].plain
  BY TreeStep
<1>2. /\ tree[f] \in [plain : Nat, gz : Nat] /\ tree'[f] \in [plain : Nat, gz : Nat]
      /\ tree[f].gz <= tree[f].plain /\ tree[f].plain <= version
      /\ version \in Nat
  BY <1>1 DEF TreeInv, TreeTypeOK
<1>3. tree'[f].gz = tree[f].gz \/ (tree'[f].gz = version /\ tree[f].plain = version)
  BY DEF TreeNext, NewVersion, ReplacePlain, ReplaceGz, ReplaceIndex, Plain, Gz, TreeInv, TreeTypeOK
<1> QED BY <1>1, <1>2, <1>3 DEF Newest, NoFile

\* A step of the publisher, which the server and the clients do not see.
LEMMA PublishedStep ==
  ASSUME IInv, Published
  PROVE  IInv'
<1>1. TreeInv /\ TreeNext /\ UNCHANGED serverVars
  BY DEF IInv, Published
<1>2. TreeInv' /\ \A d \in Docs : manifest[d] <= manifest'[d]
  BY <1>1, TreeStep
<1>3. /\ Index \in Files /\ Docs \subseteq Files
      /\ tree \in [Files -> [plain : Nat, gz : Nat]] /\ tree' \in [Files -> [plain : Nat, gz : Nat]]
      /\ manifest \in [Docs -> Nat] /\ manifest' \in [Docs -> Nat]
      /\ tree[Index].plain <= tree'[Index].plain
  BY <1>1, <1>2, TreeStep DEF TreeInv, TreeTypeOK, Files
<1>4. ServingTypeOK /\ UNCHANGED <<digests, req, copy>>
  BY <1>1 DEF IInv, serverVars
<1>5. ServingTypeOK'
  BY <1>2, <1>4 DEF ServingTypeOK, TreeInv
<1>6. CopyCoversItsDigest'
  BY <1>4 DEF IInv, CopyCoversItsDigest
<1>7. digests.mtime \in Nat /\ digests.of \in [Digested -> Nat]
  BY <1>4 DEF ServingTypeOK
<1>8. CacheIsSound'
  <2>1. CacheIsSound
    BY DEF IInv
  <2>2. digests'.mtime <= tree'[Index].plain
    BY <1>3, <1>4, <1>7, <2>1 DEF CacheIsSound
  <2>3. ASSUME NEW d \in Docs PROVE digests'.of[d] <= manifest'[d]
    <3>1. digests.of[d] \in Nat
      BY <1>7 DEF Digested
    <3> QED BY <1>2, <1>3, <1>4, <2>1, <3>1 DEF CacheIsSound
  <2> QED BY <2>2, <2>3 DEF CacheIsSound
<1>9. CachedDigestsAreCurrent'
  <2>1. CASE ReplaceIndex
    <3>1. tree'[Index].plain = version /\ tree[Index].plain # version
      BY <1>3, <2>1 DEF ReplaceIndex, Plain
    <3>2. version \in Nat /\ tree[Index].plain <= version
      BY <1>1, <1>3 DEF TreeInv, TreeTypeOK
    <3>3. digests.mtime <= tree[Index].plain
      BY DEF IInv, CacheIsSound
    <3>4. digests'.mtime # tree'[Index].plain
      BY <1>3, <1>4, <1>7, <3>1, <3>2, <3>3
    <3> QED BY <3>4 DEF CachedDigestsAreCurrent
  <2>2. CASE NewVersion \/ \E f \in Files : ReplacePlain(f) \/ ReplaceGz(f)
    <3>1. tree'[Index].plain = tree[Index].plain /\ manifest' = manifest
      BY <1>3, <2>2 DEF NewVersion, ReplacePlain, ReplaceGz, Plain, Gz
    <3>2. InIndex' = InIndex
      BY <3>1 DEF InIndex
    <3> QED BY <1>4, <3>1, <3>2 DEF IInv, CachedDigestsAreCurrent
  <2> QED BY <1>1, <2>1, <2>2 DEF TreeNext
<1>10. RequestIsSound'
  <2> SUFFICES ASSUME req # NoRequest PROVE RequestIsSound'
    BY <1>4 DEF RequestIsSound
  <2>1. req \in Requests /\ req' = req /\ copy' = copy /\ RequestIsSound
    BY <1>4 DEF ServingTypeOK, IInv
  <2>2. req'.mtime <= tree'[Index].plain
    BY <1>3, <2>1 DEF RequestIsSound, Requests
  <2>3. req'.file \in Docs => req'.hint <= manifest'[req'.file]
    BY <1>2, <1>3, <2>1 DEF RequestIsSound, Requests
  <2>4. PICK c \in Clients, f \in Files : req.client = c /\ req.file = f
    BY <2>1 DEF Requests
  <2>5. req.at = "answer" => req.bytes <= Newest(c, f)'
    <3>1. /\ Newest(c, f) <= Newest(c, f)'
          /\ Newest(c, f) \in Nat /\ Newest(c, f)' \in Nat
      BY <1>1, NewestGrows
    <3>2. req.at = "answer" => req.bytes <= Newest(c, f)
      BY <2>1, <2>4 DEF RequestIsSound
    <3>3. req.bytes \in Nat
      BY <2>1 DEF Requests
    <3> QED BY <3>1, <3>2, <3>3
  <2>6. (req.at = "answer" => req.bytes <= Newest(req.client, req.file))'
    BY <2>1, <2>4, <2>5 DEF Newest
  <2> QED BY <2>1, <2>2, <2>3, <2>6 DEF RequestIsSound
<1>11. CopiesAreSound'
  <2> SUFFICES ASSUME NEW c \in Clients, NEW f \in Files PROVE copy'[c][f].bytes <= Newest(c, f)'
    BY DEF CopiesAreSound
  <2>1. copy[c][f].bytes <= Newest(c, f) /\ copy[c][f].bytes \in Nat /\ copy' = copy
    BY <1>4 DEF IInv, CopiesAreSound, ServingTypeOK
  <2> QED BY <1>1, <2>1, NewestGrows
<1> QED BY <1>2, <1>5, <1>6, <1>8, <1>9, <1>10, <1>11 DEF IInv

\* A step that leaves the tree and the copies alone keeps what is said of them.
LEMMA TreeAlone ==
  ASSUME IInv, UNCHANGED treeVars
  PROVE  /\ TreeInv'
         /\ copy' = copy => CopyCoversItsDigest' /\ CopiesAreSound'
         /\ digests' = digests => CacheIsSound' /\ CachedDigestsAreCurrent'
<1>1. tree' = tree /\ manifest' = manifest /\ version' = version
  BY DEF treeVars
<1>2. TreeInv'
  BY <1>1 DEF IInv, TreeInv, TreeTypeOK, DigestsNeverAhead
<1>3. copy' = copy => CopyCoversItsDigest' /\ CopiesAreSound'
  BY <1>1 DEF IInv, CopyCoversItsDigest, CopiesAreSound, Newest
<1>4. digests' = digests => CacheIsSound' /\ CachedDigestsAreCurrent'
  BY <1>1 DEF IInv, CacheIsSound, CachedDigestsAreCurrent, InIndex
<1> QED BY <1>2, <1>3, <1>4

LEMMA ReceiveStep ==
  ASSUME IInv, NEW c \in Clients, NEW f \in Files, Receive(c, f)
  PROVE  IInv'
<1>1. UNCHANGED treeVars /\ copy' = copy /\ digests' = digests
  BY DEF Receive
<1>2. req' = [client |-> c, file |-> f, at |-> "stat",
              mtime |-> 0, hint |-> 0, bytes |-> 0, gzip |-> FALSE]
  BY DEF Receive, NoFile
<1>3. ServingTypeOK'
  BY <1>1, <1>2, TreeAlone DEF IInv, ServingTypeOK, TreeInv, Requests
<1>4. tree[Index].plain \in Nat /\ manifest \in [Docs -> Nat]
  BY DEF IInv, TreeInv, TreeTypeOK, Files
<1>5. RequestIsSound'
  BY <1>1, <1>2, <1>4 DEF RequestIsSound, treeVars
<1> QED BY <1>1, <1>3, <1>5, TreeAlone DEF IInv

LEMMA StatIndexStep == ASSUME IInv, StatIndex PROVE IInv'
<1>1. UNCHANGED treeVars /\ copy' = copy /\ req \in Requests /\ req.at = "stat"
  BY DEF StatIndex, IInv, ServingTypeOK
<1>2. /\ tree[Index].plain \in Nat /\ manifest \in [Docs -> Nat]
      /\ digests \in [mtime : Nat, of : [Digested -> Nat]]
      /\ RequestIsSound /\ CacheIsSound /\ CachedDigestsAreCurrent
  BY DEF IInv, TreeInv, TreeTypeOK, Files, ServingTypeOK
<1>3. digests' \in {digests, NoDigests}
  BY DEF StatIndex
<1>4. NoDigests \in [mtime : Nat, of : [Digested -> Nat]]
  BY DEF NoDigests, NoFile
<1>5. CacheIsSound' /\ CachedDigestsAreCurrent'
  <2>1. CASE digests' = digests
    BY <2>1, <1>1, TreeAlone
  <2>2. CASE digests' = NoDigests
    BY <2>2, <1>1, <1>2 DEF CacheIsSound, CachedDigestsAreCurrent, NoDigests, NoFile, Digested, treeVars
  <2> QED BY <1>3, <2>1, <2>2
<1>6. /\ req.mtime \in Nat /\ req.hint \in Nat /\ req.file \in Files
      /\ req.mtime <= tree[Index].plain
      /\ req.file \in Docs => req.hint <= manifest[req.file]
  BY <1>1, <1>2, NoRequestIsNone DEF RequestIsSound, Requests
<1>7. /\ req' \in Requests
      /\ req'.at # "answer" /\ req'.mtime <= tree[Index].plain
      /\ req'.file \in Docs => req'.hint <= manifest[req'.file]
  <2>1. CASE tree[Index].plain = NoFile
    <3>1. req' = [req EXCEPT !.at = "read"]
      BY <2>1 DEF StatIndex
    <3> QED BY <3>1, <1>1, <1>6 DEF Requests
  <2>2. CASE tree[Index].plain # NoFile /\ digests.mtime = tree[Index].plain
    <3>1. req' = [req EXCEPT !.at = "read", !.hint = HintFrom(digests)]
      BY <2>2 DEF StatIndex
    <3>2. HintFrom(digests) \in Nat /\ (req.file \in Docs => HintFrom(digests) <= manifest[req.file])
      <4>1. CASE req.file \in Digested
        <5>1. HintFrom(digests) = digests.of[req.file] /\ digests.of[req.file] \in Nat
          BY <4>1, <1>2 DEF HintFrom
        <5> QED BY <5>1, <1>2 DEF CacheIsSound
      <4>2. CASE req.file \notin Digested
        BY <4>2 DEF HintFrom, NoFile, Digested
      <4> QED BY <4>1, <4>2
    <3> QED BY <3>1, <3>2, <1>1, <1>6 DEF Requests
  <2>3. CASE tree[Index].plain # NoFile /\ digests.mtime # tree[Index].plain
    <3>1. req' = [req EXCEPT !.at = "load", !.mtime = tree[Index].plain]
      BY <2>3 DEF StatIndex
    <3>2. tree[Index].plain \in Nat
      BY <1>2
    <3>3. req' \in Requests
      BY <3>1, <3>2, <1>1 DEF Requests
    <3>4. /\ req'.at = "load" /\ req'.mtime = tree[Index].plain
          /\ req'.hint = req.hint /\ req'.file = req.file
      BY <3>1, <1>1 DEF Requests
    <3> QED BY <3>2, <3>3, <3>4, <1>6
  <2> QED BY <2>1, <2>2, <2>3
<1>8. ServingTypeOK'
  BY <1>1, <1>2, <1>3, <1>4, <1>7, TreeAlone DEF IInv, ServingTypeOK, TreeInv
<1>9. RequestIsSound'
  BY <1>1, <1>7 DEF RequestIsSound, treeVars
<1> QED BY <1>1, <1>5, <1>8, <1>9, TreeAlone DEF IInv

LEMMA LoadDigestsStep == ASSUME IInv, LoadDigests PROVE IInv'
<1>1. /\ UNCHANGED treeVars /\ copy' = copy /\ req \in Requests /\ req.at = "load"
      /\ digests' = Loaded
      /\ req' = [req EXCEPT !.at = "read", !.mtime = 0, !.hint = HintFrom(Loaded)]
  BY DEF LoadDigests, IInv, ServingTypeOK, NoFile
<1>2. /\ tree[Index].plain \in Nat /\ manifest \in [Docs -> Nat]
      /\ req.mtime \in Nat /\ req.mtime <= tree[Index].plain
  BY <1>1, NoRequestIsNone DEF IInv, TreeInv, TreeTypeOK, Files, RequestIsSound, Requests
<1>3. /\ Loaded \in [mtime : Nat, of : [Digested -> Nat]]
      /\ Loaded.mtime = req.mtime /\ Loaded.of = InIndex
      /\ \A d \in Docs : Loaded.of[d] = manifest[d]
  BY <1>2, FilesDiffer DEF Loaded, InIndex, Digested
<1>4. HintFrom(Loaded) \in Nat /\ (req.file \in Docs => HintFrom(Loaded) <= manifest[req.file])
  BY <1>2, <1>3 DEF HintFrom, NoFile, Digested
<1>5. CacheIsSound' /\ CachedDigestsAreCurrent'
  BY <1>1, <1>2, <1>3 DEF CacheIsSound, CachedDigestsAreCurrent, InIndex, treeVars
<1>6. ServingTypeOK'
  BY <1>1, <1>3, <1>4, TreeAlone DEF IInv, ServingTypeOK, TreeInv, Requests
<1>7. RequestIsSound'
  BY <1>1, <1>2, <1>4 DEF RequestIsSound, Requests, treeVars
<1> QED BY <1>1, <1>5, <1>6, <1>7, TreeAlone DEF IInv

LEMMA ReadBytesStep == ASSUME IInv, ReadBytes PROVE IInv'
<1>1. /\ UNCHANGED treeVars /\ copy' = copy /\ digests' = digests /\ req \in Requests
      /\ req' = [req EXCEPT !.at = "answer", !.bytes = Served, !.gzip = UsesGz]
  BY DEF ReadBytes, IInv, ServingTypeOK
<1>2. /\ req.client \in Clients /\ req.file \in Files
      /\ req.hint \in Nat
      /\ tree[req.file] \in [plain : Nat, gz : Nat] /\ manifest \in [Docs -> Nat]
      /\ req.mtime <= tree[Index].plain
      /\ req.file \in Docs => req.hint <= manifest[req.file]
  BY <1>1, NoRequestIsNone DEF IInv, TreeInv, TreeTypeOK, RequestIsSound, Requests
<1>3. Served = Newest(req.client, req.file) /\ Served \in Nat /\ UsesGz \in BOOLEAN
  BY <1>2 DEF Served, UsesGz, Newest
<1>4. copy[req.client][req.file].bytes <= Served
  BY <1>2, <1>3 DEF IInv, CopiesAreSound
<1>5. req.file \in Docs => req.hint <= Served
  <2> SUFFICES ASSUME req.file \in Docs PROVE req.hint <= Served
    OBVIOUS
  <2>1. /\ req.hint <= manifest[req.file] /\ manifest[req.file] \in Nat
        /\ manifest[req.file] <= tree[req.file].gz /\ tree[req.file].gz <= tree[req.file].plain
    BY <1>2 DEF IInv, TreeInv, DigestsNeverAhead
  <2> QED BY <1>2, <2>1 DEF Served
<1>6. req' \in Requests
  BY <1>1, <1>3 DEF Requests
<1>7. /\ req'.mtime = req.mtime /\ req'.file = req.file /\ req'.client = req.client
      /\ req'.hint = req.hint /\ req'.bytes = Served
  BY <1>1 DEF Requests
<1>8. RequestIsSound'
  <2>1. Newest(req.client, req.file)' = Newest(req.client, req.file)
    BY <1>1, <1>7 DEF Newest, treeVars
  <2>2. (req.bytes <= Newest(req.client, req.file))'
    BY <1>3, <1>7, <2>1
  <2> QED BY <1>1, <1>2, <1>4, <1>5, <1>7, <2>2 DEF RequestIsSound, treeVars
<1>9. ServingTypeOK'
  BY <1>1, <1>6, TreeAlone DEF IInv, ServingTypeOK, TreeInv
<1> QED BY <1>1, <1>8, <1>9, TreeAlone DEF IInv

\* What a client holds after an answer: what it had, or the bytes that were read.
LEMMA Answered ==
  ASSUME IInv, Answer, NEW c \in Clients, NEW f \in Files
  PROVE  \/ copy'[c][f] = copy[c][f]
         \/ /\ c = req.client /\ f = req.file
            /\ copy'[c][f] = [bytes |-> req.bytes, tag |-> ETag]
<1>1. copy \in [Clients -> [Files -> [bytes : Nat, tag : Tags]]]
  BY DEF IInv, ServingTypeOK
<1>2. CASE NotModified
  BY <1>2 DEF Answer
<1>3. CASE ~NotModified
  <2>1. copy' = [copy EXCEPT ![req.client] =
                   [copy[req.client] EXCEPT ![req.file] = [bytes |-> req.bytes, tag |-> ETag]]]
    BY <1>3 DEF Answer
  <2> QED BY <1>1, <2>1
<1> QED BY <1>2, <1>3

LEMMA AnswerStep ==
  ASSUME IInv, Answer
  PROVE  /\ IInv'
         /\ \A c \in Clients, f \in Files : copy[c][f].bytes <= copy'[c][f].bytes
<1>1. UNCHANGED treeVars /\ digests' = digests /\ req' = NoRequest /\ req \in Requests
  BY DEF Answer, IInv, ServingTypeOK
<1>2. /\ req.client \in Clients /\ req.file \in Files /\ req.bytes \in Nat /\ req.hint \in Nat
      /\ tree[req.file].plain \in Nat /\ req.gzip \in BOOLEAN
      /\ copy[req.client][req.file].bytes <= req.bytes
      /\ req.bytes <= Newest(req.client, req.file)
      /\ req.file \in Docs => req.hint <= req.bytes
  BY <1>1, NoRequestIsNone DEF Answer, IInv, TreeInv, TreeTypeOK, RequestIsSound, Requests
<1>3. ETag \in Tags /\ (~ETag.weak => ETag.of = req.hint)
  BY <1>2 DEF ETag, Tags
<1>4. copy \in [Clients -> [Files -> [bytes : Nat, tag : Tags]]]
  BY DEF IInv, ServingTypeOK
<1>5. copy' \in [Clients -> [Files -> [bytes : Nat, tag : Tags]]]
  <2>1. [bytes |-> req.bytes, tag |-> ETag] \in [bytes : Nat, tag : Tags]
    BY <1>2, <1>3
  <2>2. [copy[req.client] EXCEPT ![req.file] = [bytes |-> req.bytes, tag |-> ETag]]
          \in [Files -> [bytes : Nat, tag : Tags]]
    BY <1>2, <1>4, <2>1
  <2>3. CASE NotModified
    BY <2>3, <1>4 DEF Answer
  <2>4. CASE ~NotModified
    BY <2>4, <1>2, <1>4, <2>2 DEF Answer
  <2> QED BY <2>3, <2>4
<1>6. \A c \in Clients, f \in Files : copy[c][f].bytes <= copy'[c][f].bytes
  <2> SUFFICES ASSUME NEW c \in Clients, NEW f \in Files PROVE copy[c][f].bytes <= copy'[c][f].bytes
    OBVIOUS
  <2>1. copy[c][f].bytes \in Nat
    BY <1>4
  <2> QED BY <1>2, <2>1, Answered
<1>7. CopyCoversItsDigest'
  <2> SUFFICES ASSUME NEW c \in Clients, NEW d \in Docs
               PROVE  ~copy'[c][d].tag.weak => copy'[c][d].tag.of <= copy'[c][d].bytes
    BY DEF CopyCoversItsDigest
  <2>1. d \in Files
    BY DEF Files
  <2> QED BY <1>2, <1>3, <2>1, Answered DEF IInv, CopyCoversItsDigest
<1>8. CopiesAreSound'
  <2> SUFFICES ASSUME NEW c \in Clients, NEW f \in Files PROVE copy'[c][f].bytes <= Newest(c, f)'
    BY DEF CopiesAreSound
  <2>1. Newest(c, f)' = Newest(c, f)
    BY <1>1 DEF Newest, treeVars
  <2> QED BY <1>2, <2>1, Answered DEF IInv, CopiesAreSound
<1>9. RequestIsSound'
  BY <1>1 DEF RequestIsSound
<1>10. ServingTypeOK'
  BY <1>1, <1>5, TreeAlone DEF IInv, ServingTypeOK, TreeInv
<1> QED BY <1>1, <1>6, <1>7, <1>8, <1>9, <1>10, TreeAlone DEF IInv

LEMMA RestartStep == ASSUME IInv, Restart PROVE IInv'
<1>1. UNCHANGED treeVars /\ copy' = copy /\ digests' = NoDigests /\ req' = NoRequest
  BY DEF Restart
<1>2. tree[Index].plain \in Nat /\ manifest \in [Docs -> Nat]
  BY DEF IInv, TreeInv, TreeTypeOK, Files
<1>3. CacheIsSound' /\ CachedDigestsAreCurrent' /\ RequestIsSound'
  BY <1>1, <1>2 DEF CacheIsSound, CachedDigestsAreCurrent, RequestIsSound, NoDigests, NoFile, Digested, treeVars
<1>4. ServingTypeOK'
  BY <1>1, TreeAlone DEF IInv, ServingTypeOK, TreeInv, NoDigests, NoFile
<1> QED BY <1>1, <1>3, <1>4, TreeAlone DEF IInv
----------------------------------------------------------------------------
LEMMA Inductive == IInv /\ [Next]_servingVars => IInv'
<1>1. ASSUME IInv, Next PROVE IInv'
  BY <1>1, PublishedStep, ReceiveStep, StatIndexStep, LoadDigestsStep, ReadBytesStep, AnswerStep, RestartStep
  DEF Next, ServerStep
<1>2. ASSUME IInv, UNCHANGED servingVars PROVE IInv'
  <2>1. UNCHANGED treeVars /\ UNCHANGED <<digests, req, copy>>
    BY <1>2 DEF servingVars, serverVars
  <2>2. ServingTypeOK'
    BY <1>2, <2>1, TreeAlone DEF IInv, ServingTypeOK, TreeInv
  <2>3. RequestIsSound'
    BY <1>2, <2>1 DEF IInv, RequestIsSound, Newest, treeVars
  <2> QED BY <1>2, <2>1, <2>2, <2>3, TreeAlone DEF IInv
<1> QED BY <1>1, <1>2

\* The inductive invariant of the server: what it has read is between what the
\* client holds and what is in public/.
THEOREM Invariance == Spec => []IInv
BY Starts, Inductive, PTL DEF Spec

\* A client never holds a document older than the digest it is tagged with.
THEOREM CopiesCoverTheirDigests == Spec => []CopyCoversItsDigest
<1>1. IInv => CopyCoversItsDigest
  BY DEF IInv
<1> QED BY <1>1, Invariance, PTL

\* The digest cache is never taken for the manifest it is not.
THEOREM CacheIsCurrent == Spec => []CachedDigestsAreCurrent
<1>1. IInv => CachedDigestsAreCurrent
  BY DEF IInv
<1> QED BY <1>1, Invariance, PTL

\* No client sees any file go back in time, compressed or not.
THEOREM NeverBack == Spec => CopiesNeverGoBack
<1>1. IInv /\ [Next]_servingVars =>
        [\A c \in Clients, f \in Files : copy[c][f].bytes <= copy'[c][f].bytes]_servingVars
  <2> SUFFICES ASSUME IInv, Next
               PROVE  \A c \in Clients, f \in Files : copy[c][f].bytes <= copy'[c][f].bytes
    OBVIOUS
  <2>1. CASE Answer
    BY <2>1, AnswerStep
  <2>2. CASE copy' = copy
    BY <2>2 DEF IInv, ServingTypeOK
  <2> QED
    BY <2>1, <2>2
    DEF Next, Published, serverVars, Receive, ServerStep, StatIndex, LoadDigests, ReadBytes, Restart
<1> QED BY <1>1, Invariance, PTL DEF Spec, CopiesNeverGoBack
=============================================================================
