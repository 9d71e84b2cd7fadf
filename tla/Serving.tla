------------------------------ MODULE Serving ------------------------------
(***************************************************************************)
(* The server (src/server) over a public/ that is being replaced under it, *)
(* and the clients that revalidate what they hold.                         *)
(*                                                                         *)
(* The server handles one request at a time and never yields, but between  *)
(* its system calls the publisher, another process, may replace any file:  *)
(* it stats index.json, reads it when its mtime is new, reads the bytes of *)
(* the file, and stats that file for an ETag if the manifest had none.     *)
(*                                                                         *)
(* A 503, 404 or 405 and a HEAD leave what a client holds alone and are    *)
(* left out, with the requests that get them.                              *)
(***************************************************************************)
EXTENDS PublicTree

CONSTANTS
  Clients,
  Gzip,       \* the clients that accept gzip
  Polls,      \* [Clients -> SUBSET Files]: what each one asks for
  NoRequest,
  MaxVersion  \* bound: publishes

ASSUME GzipType == Gzip \subseteq Clients
ASSUME PollsType == Polls \in [Clients -> SUBSET Files]

VARIABLES
  digests, \* manifestCache: [mtime of index.json, digest per document and Index]
  req,     \* the request being handled, or NoRequest
  copy     \* [Clients -> [Files -> [bytes, tag]]]: what each client holds

serverVars == <<digests, req, copy>>
servingVars == <<treeVars, serverVars>>

\* An ETag: the version of a digest, or of an mtime (weak), and the encoding.
Tags == [weak : BOOLEAN, of : Nat, gzip : BOOLEAN]

NoCopy == [bytes |-> NoFile, tag |-> [weak |-> TRUE, of |-> NoFile, gzip |-> FALSE]]

Digested == Docs \cup {Index}

NoDigests == [mtime |-> NoFile, of |-> [d \in Digested |-> NoFile]]

Requests ==
  [client : Clients, file : Files, at : {"stat", "load", "read", "answer"},
   mtime : Nat, hint : Nat, bytes : Nat, gzip : BOOLEAN]

ASSUME NoRequestIsNone == NoRequest \notin Requests

ServingTypeOK ==
  /\ TreeTypeOK
  /\ digests \in [mtime : Nat, of : [Digested -> Nat]]
  /\ req \in Requests \cup {NoRequest}
  /\ copy \in [Clients -> [Files -> [bytes : Nat, tag : Tags]]]

ServingInit ==
  /\ TreeInit
  /\ digests = NoDigests
  /\ req = NoRequest
  /\ copy = [c \in Clients |-> [f \in Files |-> NoCopy]]
----------------------------------------------------------------------------
(* handle.                                                                 *)

\* A request for a file that exists, with what the client holds of it.
Receive(c, f) ==
  /\ f \in Polls[c]
  /\ req = NoRequest
  /\ tree[f].plain # NoFile
  /\ f \in Pages \/ tree[Index].plain # NoFile
  /\ req' = [client |-> c, file |-> f, at |-> "stat",
             mtime |-> NoFile, hint |-> NoFile, bytes |-> NoFile, gzip |-> FALSE]
  /\ UNCHANGED <<treeVars, digests, copy>>

\* manifestEtags: the digest of the file requested, none for a page.
HintFrom(cache) == IF req.file \in Digested THEN cache.of[req.file] ELSE NoFile

StatIndex ==
  /\ req # NoRequest /\ req.at = "stat"
  /\ \/ /\ tree[Index].plain = NoFile
        /\ digests' = NoDigests
        /\ req' = [req EXCEPT !.at = "read"]
     \/ /\ tree[Index].plain # NoFile /\ digests.mtime = tree[Index].plain
        /\ req' = [req EXCEPT !.at = "read", !.hint = HintFrom(digests)]
        /\ UNCHANGED digests
     \/ /\ tree[Index].plain # NoFile /\ digests.mtime # tree[Index].plain
        /\ req' = [req EXCEPT !.at = "load", !.mtime = tree[Index].plain]
        /\ UNCHANGED digests
  /\ UNCHANGED <<treeVars, copy>>

\* The manifest as it is now; its own digest is hashed here.
InIndex == [d \in Digested |-> IF d = Index THEN tree[Index].plain ELSE manifest[d]]

\* Mutant of Loaded: the digests seen first are kept for good.
LoadedOnce ==
  IF digests = NoDigests THEN [mtime |-> req.mtime, of |-> InIndex]
  ELSE [digests EXCEPT !.mtime = req.mtime]

\* Kept under the mtime seen before.
Loaded == [mtime |-> req.mtime, of |-> InIndex]

LoadDigests ==
  /\ req # NoRequest /\ req.at = "load"
  /\ digests' = Loaded
  /\ req' = [req EXCEPT !.at = "read", !.mtime = NoFile, !.hint = HintFrom(Loaded)]
  /\ UNCHANGED <<treeVars, copy>>

\* readFile: the sibling, when the client accepts it and there is one.
UsesGz == req.client \in Gzip /\ tree[req.file].gz # NoFile

Served == IF UsesGz THEN tree[req.file].gz ELSE tree[req.file].plain

ReadBytes ==
  /\ req # NoRequest /\ req.at = "read"
  /\ req' = [req EXCEPT !.at = "answer", !.bytes = Served, !.gzip = UsesGz]
  /\ UNCHANGED <<treeVars, digests, copy>>

\* Mutant of ETag: the digest is looked up after the bytes are read.
ETagLate ==
  [weak |-> req.file \in Pages,
   of |-> IF req.file \in Digested THEN InIndex[req.file] ELSE tree[req.file].plain,
   gzip |-> req.gzip]

\* The mtime of a file whose bytes were read before.
ETag == [weak |-> req.hint = NoFile,
         of |-> IF req.hint = NoFile THEN tree[req.file].plain ELSE req.hint,
         gzip |-> req.gzip]

NotModified == copy[req.client][req.file].tag = ETag

\* 200 with the bytes, or 304 and the client keeps what it has.
Answer ==
  /\ req # NoRequest /\ req.at = "answer"
  /\ copy' = IF NotModified THEN copy
             ELSE [copy EXCEPT ![req.client] =
                     [@ EXCEPT ![req.file] = [bytes |-> req.bytes, tag |-> ETag]]]
  /\ req' = NoRequest
  /\ UNCHANGED <<treeVars, digests>>

\* The server is restarted: the cache is empty and the client gets no answer.
Restart ==
  /\ digests' = NoDigests
  /\ req' = NoRequest
  /\ UNCHANGED <<treeVars, copy>>

ServerStep == StatIndex \/ LoadDigests \/ ReadBytes \/ Answer

Published ==
  /\ TreeNext
  /\ version' <= MaxVersion
  /\ UNCHANGED serverVars

Next ==
  \/ Published
  \/ \E c \in Clients, f \in Files : Receive(c, f)
  \/ ServerStep
  \/ Restart

Spec == ServingInit /\ [][Next]_servingVars

\* Handling is synchronous, so a request is answered; clients poll for ever.
Fairness ==
  /\ WF_servingVars(ServerStep)
  /\ \A c \in Clients : \A f \in Polls[c] : SF_servingVars(Receive(c, f))

LiveSpec == Spec /\ Fairness
----------------------------------------------------------------------------
(* Properties.                                                             *)

\* A client that holds a document under a digest holds the bytes of that digest or
\* newer ones, never older: the bytes are read after the digest, and the digest is
\* never ahead of the bytes, plain or compressed.
CopyCoversItsDigest ==
  \A c \in Clients, d \in Docs :
    ~copy[c][d].tag.weak => copy[c][d].tag.of <= copy[c][d].bytes

\* The digests kept under the mtime index.json has now are the ones in it now: a
\* manifest replaced between the stat and the read is filed under a mtime that
\* does not come again.
CachedDigestsAreCurrent ==
  digests.mtime # NoFile /\ digests.mtime = tree[Index].plain => digests.of = InIndex

\* No client sees a file go back in time, whether it takes the compressed sibling
\* or not, and though the sibling lags behind and may appear after the file.
CopiesNeverGoBack ==
  [][\A c \in Clients, f \in Files : copy[c][f].bytes <= copy'[c][f].bytes]_servingVars

\* Once file f stays as it is and the restarts are over, every client that polls
\* comes to hold it as it is.
Settled(f) ==
  /\ tree[f].plain # NoFile /\ tree[Index].plain # NoFile
  /\ f \notin Pages => tree[f].gz = tree[f].plain
  /\ f \in Docs => manifest[f] = tree[f].plain

Converges(f) ==
  <>[][~Restart]_servingVars /\ <>[]Settled(f) =>
    \A c \in {b \in Clients : f \in Polls[b]} : <>[](copy[c][f].bytes = tree[f].plain)

\* A client that polls a document with If-None-Match is not kept on an old one by
\* 304s: a copy newer than its tag is fetched again when the manifest catches up.
DocumentCopiesConverge == \A d \in Docs : Converges(d)

\* The same of index.json, the polling target, whose ETag is the digest of its bytes.
ManifestCopiesConverge == Converges(Index)
----------------------------------------------------------------------------
(* The inductive invariant.                                                *)

\* The newest bytes that client c can get of file f.
Newest(c, f) ==
  IF c \in Gzip /\ tree[f].gz # NoFile THEN tree[f].gz ELSE tree[f].plain

\* A digest the server has is not ahead of the manifest, nor the bytes it read ahead
\* of the file or behind what the client holds or the digest that goes with them.
CacheIsSound ==
  /\ digests.mtime <= tree[Index].plain
  /\ \A d \in Docs : digests.of[d] <= manifest[d]

RequestIsSound ==
  req # NoRequest =>
    /\ req.mtime <= tree[Index].plain
    /\ req.file \in Docs => req.hint <= manifest[req.file]
    /\ req.at = "answer" =>
         /\ copy[req.client][req.file].bytes <= req.bytes
         /\ req.bytes <= Newest(req.client, req.file)
         /\ req.file \in Docs => req.hint <= req.bytes

CopiesAreSound ==
  \A c \in Clients, f \in Files : copy[c][f].bytes <= Newest(c, f)

IInv ==
  /\ ServingTypeOK /\ TreeInv
  /\ CopyCoversItsDigest /\ CachedDigestsAreCurrent
  /\ CacheIsSound /\ RequestIsSound /\ CopiesAreSound
=============================================================================
