--------------------------- MODULE CrawlerProofs ---------------------------
(***************************************************************************)
(* Proofs about Crawler: its inductive invariant, with the bound on the    *)
(* nodes of a crawl, and what it implies of a crawl that has ended; that   *)
(* the analysis of NodeReport leaves the crawl as it was, that the islands *)
(* it finds are apart and each holds a seed, that the sections of its      *)
(* report agree, and that the betweenness it reports, which is accumulated *)
(* one source at a time, is the one its definition counts path by path.    *)
(***************************************************************************)
EXTENDS NodeReport, FiniteSetTheorems, NaturalsInduction, WellFoundedInduction, TLAPS

(***************************************************************************)
(* Kept selects: its elements are those at the indices it is given.        *)
(***************************************************************************)
LEMMA IndicesAreFinite ==
  ASSUME NEW n \in Nat, NEW W \in SUBSET (1 .. n)
  PROVE  /\ IsFiniteSet(W)
         /\ Cardinality(W) \in Nat /\ Cardinality(W) <= n
         /\ \A i \in W : i \in Nat
<1>1. 1 \in Int /\ n \in Int
  OBVIOUS
<1>2. IsFiniteSet(1 .. n) /\ Cardinality(1 .. n) = IF 1 > n THEN 0 ELSE n - 1 + 1
  BY <1>1, FS_Interval
<1>3. Cardinality(1 .. n) = n
  BY <1>2
<1>4. IsFiniteSet(W) /\ Cardinality(W) <= Cardinality(1 .. n)
  BY <1>2, FS_Subset
<1>5. Cardinality(W) \in Nat
  BY <1>4, FS_CardinalityType
<1>. QED
  BY <1>3, <1>4, <1>5

LEMMA RankIsBounded ==
  ASSUME NEW n \in Nat, NEW W \in SUBSET (1 .. n), NEW i \in W
  PROVE  Rank(W, i) \in 1 .. Cardinality(W)
<1>. DEFINE below == {j \in W : j <= i}
<1>1. IsFiniteSet(W) /\ Cardinality(W) \in Nat /\ \A k \in W : k \in Nat
  BY IndicesAreFinite
<1>2. below \subseteq W /\ i \in below
  BY <1>1
<1>3. IsFiniteSet(below) /\ Cardinality(below) <= Cardinality(W)
  BY <1>1, <1>2, FS_Subset
<1>4. Cardinality(below) \in Nat /\ Cardinality(W) \in Nat
  BY <1>1, <1>3, FS_CardinalityType
<1>5. Cardinality(below) # 0
  BY <1>2, <1>3, FS_EmptySet
<1>. QED
  BY <1>3, <1>4, <1>5 DEF Rank

LEMMA RanksDiffer ==
  ASSUME NEW n \in Nat, NEW W \in SUBSET (1 .. n), NEW i \in W, NEW j \in W, i < j
  PROVE  Rank(W, i) < Rank(W, j)
<1>. DEFINE low == {k \in W : k <= i}
            high == {k \in W : k <= j}
<1>1. IsFiniteSet(W) /\ Cardinality(W) \in Nat /\ \A k \in W : k \in Nat
  BY IndicesAreFinite
<1>2. low \subseteq high /\ j \in high /\ j \notin low /\ high \subseteq W
  <2>1. i \in Nat /\ j \in Nat
    BY <1>1
  <2>2. \A k \in W : k <= i => k <= j
    BY <1>1, <2>1
  <2>3. ~(j <= i) /\ j <= j
    BY <2>1
  <2>. QED
    BY <2>2, <2>3
<1>3. IsFiniteSet(high) /\ IsFiniteSet(low)
  BY <1>1, <1>2, FS_Subset
<1>4. Cardinality(low) <= Cardinality(high) /\ Cardinality(low) # Cardinality(high)
  BY <1>2, <1>3, FS_Subset
<1>5. Cardinality(low) \in Nat /\ Cardinality(high) \in Nat
  BY <1>3, FS_CardinalityType
<1>. QED
  BY <1>4, <1>5 DEF Rank

\* Ranks are one to one, and so each of 1 .. Cardinality(W) is the rank of an index.
LEMMA EveryRankIsTaken ==
  ASSUME NEW n \in Nat, NEW W \in SUBSET (1 .. n), NEW k \in 1 .. Cardinality(W)
  PROVE  \E i \in W : Rank(W, i) = k
<1>. DEFINE f == [i \in W |-> Rank(W, i)]
            ranks == {f[i] : i \in W}
<1>1. IsFiniteSet(W) /\ Cardinality(W) \in Nat /\ \A i \in W : i \in Nat
  BY IndicesAreFinite
<1>2. Cardinality(W) \in Nat
  BY <1>1
<1>3. ranks \subseteq 1 .. Cardinality(W)
  BY RankIsBounded
<1>4. \A i, j \in W : f[i] = f[j] => i = j
  <2>1. ASSUME NEW i \in W, NEW j \in W, f[i] = f[j], i # j
        PROVE  FALSE
    <3>1. Rank(W, i) \in 1 .. Cardinality(W) /\ Rank(W, j) \in 1 .. Cardinality(W)
      BY RankIsBounded
    <3>2. i < j \/ j < i
      BY <1>1, <2>1
    <3>. QED
      BY <2>1, <3>1, <3>2, <1>2, RanksDiffer
  <2>. QED
    BY <2>1
<1>5. ExistsBijection(W, ranks)
  <2>1. f \in Bijection(W, ranks)
    BY <1>4 DEF Bijection, Injection, Surjection, IsInjective
  <2>. QED
    BY <2>1 DEF ExistsBijection
<1>6. Cardinality(ranks) = Cardinality(W)
  BY <1>1, <1>5, FS_Bijection
<1>7. IsFiniteSet(1 .. Cardinality(W)) /\ Cardinality(1 .. Cardinality(W)) = Cardinality(W)
  <2>1. 1 \in Int /\ Cardinality(W) \in Int
    BY <1>2
  <2>2. /\ IsFiniteSet(1 .. Cardinality(W))
        /\ Cardinality(1 .. Cardinality(W)) = IF 1 > Cardinality(W) THEN 0 ELSE Cardinality(W) - 1 + 1
    BY <2>1, FS_Interval
  <2>. QED
    BY <1>2, <2>2
<1>8. ranks = 1 .. Cardinality(W)
  BY <1>3, <1>6, <1>7, FS_Subset
<1>. QED
  BY <1>8

LEMMA KeptElements ==
  ASSUME NEW S, NEW s \in Seq(S), NEW W \in SUBSET (1 .. Len(s))
  PROVE  /\ Kept(s, W) \in Seq(S)
         /\ Len(Kept(s, W)) = Cardinality(W)
         /\ Cardinality(W) \in Nat /\ Cardinality(W) <= Len(s)
         /\ Elements(Kept(s, W)) = {s[i] : i \in W}
<1>1. Len(s) \in Nat
  OBVIOUS
<1>2. Cardinality(W) \in Nat /\ Cardinality(W) <= Len(s) /\ \A i \in W : i \in Nat
  BY <1>1, IndicesAreFinite
<1>. DEFINE at(k) == CHOOSE i \in W : Rank(W, i) = k
<1>3. ASSUME NEW k \in 1 .. Cardinality(W)
      PROVE  at(k) \in W /\ Rank(W, at(k)) = k
  <2>1. \E i \in W : Rank(W, i) = k
    BY <1>1, EveryRankIsTaken
  <2>. QED
    BY <2>1
<1>. HIDE DEF at
<1>4. ASSUME NEW i \in W
      PROVE  Rank(W, i) \in 1 .. Cardinality(W) /\ at(Rank(W, i)) = i
  <2>1. Rank(W, i) \in 1 .. Cardinality(W)
    BY <1>1, RankIsBounded
  <2>2. at(Rank(W, i)) \in W /\ Rank(W, at(Rank(W, i))) = Rank(W, i)
    BY <2>1, <1>3
  <2>3. PICK j \in W : j = at(Rank(W, i)) /\ Rank(W, j) = Rank(W, i)
    BY <2>2
  <2>4. ASSUME i < j
        PROVE  FALSE
    <3>1. Rank(W, i) < Rank(W, j)
      BY <2>4, <1>1, RanksDiffer
    <3>. QED
      BY <2>1, <2>3, <3>1, <1>2
  <2>5. ASSUME j < i
        PROVE  FALSE
    <3>1. Rank(W, j) < Rank(W, i)
      BY <2>5, <1>1, RanksDiffer
    <3>. QED
      BY <2>1, <2>3, <3>1, <1>2
  <2>. QED
    BY <2>1, <2>3, <2>4, <2>5, <1>2
<1>5. Kept(s, W) = [k \in 1 .. Cardinality(W) |-> s[at(k)]]
  BY DEF Kept, at
<1>6. Kept(s, W) \in Seq(S) /\ Len(Kept(s, W)) = Cardinality(W)
  <2>0. \A i \in W : s[i] \in S
    OBVIOUS
  <2>1. \A k \in 1 .. Cardinality(W) : s[at(k)] \in S
    BY <1>3, <2>0
  <2>2. [k \in 1 .. Cardinality(W) |-> s[at(k)]] \in [1 .. Cardinality(W) -> S]
    BY <2>1
  <2>3. ASSUME NEW n \in Nat, NEW f \in [1 .. n -> S]
        PROVE  f \in Seq(S) /\ Len(f) = n
    OBVIOUS
  <2>. QED
    BY <1>2, <1>5, <2>2, <2>3
<1>7. Elements(Kept(s, W)) = {s[i] : i \in W}
  <2>1. ASSUME NEW e \in Elements(Kept(s, W))
        PROVE  e \in {s[i] : i \in W}
    <3>1. PICK k \in 1 .. Cardinality(W) : e = s[at(k)]
      BY <1>5, <1>6 DEF Elements
    <3>. QED
      BY <1>3, <3>1
  <2>2. ASSUME NEW i \in W
        PROVE  s[i] \in Elements(Kept(s, W))
    <3>1. PICK k \in 1 .. Cardinality(W) : at(k) = i
      BY <1>4
    <3>2. Kept(s, W)[k] = s[i]
      BY <1>5, <3>1
    <3>. QED
      BY <1>6, <3>2 DEF Elements
  <2>. QED
    BY <2>1, <2>2
<1>. QED
  BY <1>2, <1>6, <1>7

(***************************************************************************)
(* What is queued.                                                         *)
(***************************************************************************)
LEMMA NormalizedType ==
  ASSUME NEW peer \in Written, IsAddress(peer)
  PROVE  Normalized(peer) \in Addresses
BY DEF Written, IsAddress, Normalized, Addresses, PortTexts

LEMMA NormalizeAllType ==
  ASSUME NEW peers \in Seq(Written)
  PROVE  /\ NormalizeAll(peers) \in Seq(Addresses)
         /\ Len(NormalizeAll(peers)) \in Nat /\ Len(NormalizeAll(peers)) <= Len(peers)
<1>. DEFINE W == {i \in 1 .. Len(peers) : IsAddress(peers[i])}
            kept == Kept(peers, W)
            all == [i \in 1 .. Len(kept) |-> Normalized(kept[i])]
<1>1. W \in SUBSET (1 .. Len(peers))
  OBVIOUS
<1>2. /\ kept \in Seq(Written) /\ Len(kept) = Cardinality(W)
      /\ Cardinality(W) \in Nat /\ Cardinality(W) <= Len(peers)
      /\ Elements(kept) = {peers[i] : i \in W}
  BY <1>1, KeptElements
<1>3. ASSUME NEW i \in 1 .. Len(kept)
      PROVE  Normalized(kept[i]) \in Addresses
  <2>1. kept[i] \in Written
    BY <1>2
  <2>2. kept[i] \in {peers[j] : j \in W}
    BY <1>2 DEF Elements
  <2>3. IsAddress(kept[i])
    BY <2>2
  <2>. QED
    BY <2>1, <2>3, NormalizedType
<1>. HIDE DEF W, kept
<1>4. all \in [1 .. Len(kept) -> Addresses]
  BY <1>3
<1>5. ASSUME NEW n \in Nat, NEW f \in [1 .. n -> Addresses]
      PROVE  f \in Seq(Addresses) /\ Len(f) = n
  OBVIOUS
<1>6. all \in Seq(Addresses) /\ Len(all) = Len(kept)
  BY <1>2, <1>4, <1>5
<1>7. NormalizeAll(peers) = all
  BY DEF NormalizeAll, W, kept
<1>. QED
  BY <1>2, <1>6, <1>7

LEMMA WantedPeers ==
  ASSUME NEW peers \in Seq(Addresses)
  PROVE  /\ Wanted(peers) \in Seq(Addresses)
         /\ \A a \in Elements(peers) : a \in visited \/ Enough \/ a \in Elements(Wanted(peers))
         /\ Elements(Wanted(peers)) \subseteq Addresses
<1>. DEFINE W == {i \in 1 .. Len(peers) : peers[i] \notin visited /\ ~Enough}
<1>1. W \in SUBSET (1 .. Len(peers))
  OBVIOUS
<1>2. /\ Kept(peers, W) \in Seq(Addresses)
      /\ Elements(Kept(peers, W)) = {peers[i] : i \in W}
  BY <1>1, KeptElements
<1>3. Wanted(peers) = Kept(peers, W)
  BY DEF Wanted
<1>4. ASSUME NEW a \in Elements(peers), a \notin visited, ~Enough
      PROVE  a \in {peers[i] : i \in W}
  <2>1. PICK i \in 1 .. Len(peers) : a = peers[i]
    BY DEF Elements
  <2>. QED
    BY <1>4, <2>1
<1>5. {peers[i] : i \in W} \subseteq Addresses
  OBVIOUS
<1>. QED
  BY <1>2, <1>3, <1>4, <1>5

\* No more is queued than there is room for, and nothing that is not wanted.
LEMMA AdmittedPeers ==
  ASSUME TypeOK, NEW peers \in Seq(Addresses)
  PROVE  /\ Admitted(peers) \in Seq(Addresses)
         /\ Len(Admitted(peers)) = 0 \/ Len(queue) + Len(Admitted(peers)) <= MaxQueueSize
<1>. DEFINE wanted == Wanted(peers)
            room == IF Len(queue) < MaxQueueSize THEN MaxQueueSize - Len(queue) ELSE 0
<1>1. wanted \in Seq(Addresses) /\ Len(wanted) \in Nat
  BY WantedPeers
<1>2. Len(queue) \in Nat /\ MaxQueueSize \in Nat
  BY LimitsAreNat DEF TypeOK, MaxQueueSize
<1>3. room \in Nat /\ (room = 0 \/ Len(queue) + room <= MaxQueueSize)
  BY <1>2
<1>4. Admitted(peers) = IF Len(wanted) <= room THEN wanted ELSE SubSeq(wanted, 1, room)
  BY DEF Admitted
<1>. HIDE DEF wanted, room
<1>5. CASE Len(wanted) <= room
  BY <1>1, <1>2, <1>3, <1>4, <1>5
<1>6. CASE ~(Len(wanted) <= room)
  <2>1. SubSeq(wanted, 1, room) \in Seq(Addresses) /\ Len(SubSeq(wanted, 1, room)) = room
    BY <1>1, <1>3, <1>6
  <2>. QED
    BY <1>2, <1>3, <1>4, <1>6, <2>1
<1>. QED
  BY <1>5, <1>6

LEMMA ElementsOfConcat ==
  ASSUME NEW S, NEW s \in Seq(S), NEW t \in Seq(S)
  PROVE  Elements(s \o t) = Elements(s) \cup Elements(t)
<1>1. /\ Len(s \o t) = Len(s) + Len(t) /\ Len(s) \in Nat /\ Len(t) \in Nat
      /\ \A i \in 1 .. Len(s) + Len(t) :
           (s \o t)[i] = IF i <= Len(s) THEN s[i] ELSE t[i - Len(s)]
  OBVIOUS
<1>2. ASSUME NEW e \in Elements(s \o t)
      PROVE  e \in Elements(s) \cup Elements(t)
  <2>1. PICK i \in 1 .. Len(s) + Len(t) : e = (s \o t)[i]
    BY <1>1 DEF Elements
  <2>2. CASE i <= Len(s)
    BY <1>1, <2>1, <2>2 DEF Elements
  <2>3. CASE ~(i <= Len(s))
    <3>1. i - Len(s) \in 1 .. Len(t) /\ e = t[i - Len(s)]
      BY <1>1, <2>1, <2>3
    <3>. QED
      BY <3>1 DEF Elements
  <2>. QED
    BY <2>2, <2>3
<1>3. ASSUME NEW e \in Elements(s)
      PROVE  e \in Elements(s \o t)
  <2>1. PICK i \in 1 .. Len(s) : e = s[i]
    BY DEF Elements
  <2>2. i \in 1 .. Len(s \o t) /\ e = (s \o t)[i]
    BY <1>1, <2>1
  <2>. QED
    BY <2>2 DEF Elements
<1>4. ASSUME NEW e \in Elements(t)
      PROVE  e \in Elements(s \o t)
  <2>1. PICK i \in 1 .. Len(t) : e = t[i]
    BY DEF Elements
  <2>2. Len(s) + i \in 1 .. Len(s \o t) /\ e = (s \o t)[Len(s) + i]
    BY <1>1, <2>1
  <2>. QED
    BY <2>2 DEF Elements
<1>. QED
  BY <1>2, <1>3, <1>4

(***************************************************************************)
(* Initial states.                                                         *)
(***************************************************************************)
LEMMA RequestsAreFinite ==
  ASSUME NEW R \in SUBSET Workers
  PROVE  /\ IsFiniteSet(R) /\ Cardinality(R) \in Nat /\ Cardinality(Workers) \in Nat
         /\ Cardinality(R) <= Cardinality(Workers)
<1>1. IsFiniteSet(R) /\ Cardinality(R) <= Cardinality(Workers)
  BY WorkersAssumption, FS_Subset
<1>. QED
  BY <1>1, WorkersAssumption, FS_CardinalityType

LEMMA InitInvariant == Init => IInv
<1>. SUFFICES ASSUME Init PROVE IInv
  OBVIOUS
<1>1. queue \in Seq(Addresses) /\ Len(queue) \in Nat /\ Len(queue) <= Len(Seeds)
  BY NormalizeAllType, PeersAreWritten DEF Init
<1>2. Crawled = {}
  BY DEF Init, Crawled
<1>3. TypeOK
  BY <1>1, <1>2 DEF Init, TypeOK, Worker, At
<1>4. Requesting = {}
  BY DEF Init, Requesting, At
<1>5. CrawlIsBounded
  <2>1. Cardinality(Crawled) = 0 /\ Cardinality(Requesting) = 0
    BY <1>2, <1>4, FS_EmptySet
  <2>2. MaxNodes \in Nat /\ MaxNodes > 0 /\ Cardinality(Workers) \in Nat
    BY LimitsAreNat, WorkersAssumption, FS_CardinalityType
  <2>. QED
    BY <2>1, <2>2 DEF CrawlIsBounded
<1>6. ~Finished
  BY WorkersAssumption DEF Init, Finished, Done, At
<1>7. NothingIsForgotten /\ EdgesComeFromAnswers
  BY <1>2 DEF Init, NothingIsForgotten, EdgesComeFromAnswers
<1>8. IsFiniteSet(Crawled)
  BY <1>2, FS_EmptySet
<1>. QED
  BY <1>1, <1>2, <1>3, <1>4, <1>5, <1>6, <1>7, <1>8
     DEF IInv, OneWorkerPerAddress, QueueIsServed, QueueIsBounded

(***************************************************************************)
(* The loop.                                                               *)
(***************************************************************************)

\* A worker that has the turn asks for nothing, nor does one that goes on with the loop.
LEMMA TheTurn ==
  ASSUME NEW w \in Workers, HasTheTurn(w)
  PROVE  w \notin Requesting /\ ~Done(w)
BY DEF HasTheTurn, Requesting, Done

LEMMA TakeInvariant ==
  ASSUME IInv, NEW w \in Workers, Take(w)
  PROVE  IInv'
<1>1. PICK i \in 1 .. Len(queue) :
        /\ IsNext(i)
        /\ queue' = SubSeq(queue, i + 1, Len(queue))
        /\ visited' = visited \cup {queue[i]}
        /\ worker' = [worker EXCEPT ![w] = IF PortIsValid(queue[i])
                                           THEN At("info", queue[i])
                                           ELSE At("loop", NoAddress)]
  BY DEF Take
<1>. DEFINE a == queue[i]
<1>2. /\ TypeOK /\ Len(queue) \in Nat /\ i \in Nat
      /\ a \in Addresses /\ a \notin visited
      /\ UNCHANGED <<nodes, edges, responsive, failed, dropped>>
      /\ w \notin Requesting /\ ~Enough
  BY <1>1, TheTurn DEF Take, IInv, TypeOK, IsNext
<1>3. /\ queue' \in Seq(Addresses) /\ Len(queue') = Len(queue) - i
      /\ \A j \in 1 .. Len(queue) - i : queue'[j] = queue[i + j]
  BY <1>1, <1>2 DEF TypeOK
<1>4. \A v \in Workers : v # w => worker'[v] = worker[v]
  BY <1>1, <1>2 DEF TypeOK
<1>5. /\ worker'[w].pc \in {"info", "loop"}
      /\ worker'[w].pc = "info" => worker'[w].address = a
      /\ worker' \in [Workers -> Worker]
  BY <1>1, <1>2 DEF TypeOK, Worker, At
<1>6. TypeOK'
  BY <1>1, <1>2, <1>3, <1>5 DEF TypeOK, Crawled
<1>7. \A v \in Requesting' : v \in Requesting \/ (v = w /\ worker'[v].address = a)
  BY <1>4, <1>5 DEF Requesting
<1>8. OneWorkerPerAddress'
  <2>1. ASSUME NEW v \in Requesting'
        PROVE  worker'[v].address \in visited' \ Crawled'
    BY <2>1, <1>1, <1>2, <1>4, <1>7 DEF IInv, OneWorkerPerAddress, Crawled, Requesting
  <2>2. ASSUME NEW v \in Requesting', NEW u \in Requesting',
               worker'[u].address = worker'[v].address
        PROVE  u = v
    <3>1. CASE v = w /\ u # w
      BY <2>2, <3>1, <1>2, <1>4, <1>5, <1>7 DEF IInv, OneWorkerPerAddress, Requesting
    <3>2. CASE u = w /\ v # w
      BY <2>2, <3>2, <1>2, <1>4, <1>5, <1>7 DEF IInv, OneWorkerPerAddress, Requesting
    <3>3. CASE u # w /\ v # w
      BY <2>2, <3>3, <1>2, <1>4, <1>7 DEF IInv, OneWorkerPerAddress, Requesting
    <3>. QED
      BY <3>1, <3>2, <3>3
  <2>. QED
    BY <2>1, <2>2 DEF OneWorkerPerAddress
<1>9. NothingIsForgotten'
  <2>1. ASSUME NEW b \in Elements(queue)
        PROVE  b \in visited' \cup Elements(queue')
    <3>1. PICK k \in 1 .. Len(queue) : b = queue[k]
      BY DEF Elements
    <3>2. CASE k < i
      <4>1. k \in 1 .. i - 1
        BY <3>2, <1>2
      <4>. QED
        BY <3>1, <4>1, <1>1 DEF IsNext
    <3>3. CASE k = i
      BY <3>1, <3>3, <1>1
    <3>4. CASE k > i
      <4>1. k - i \in 1 .. Len(queue') /\ queue'[k - i] = b
        BY <3>1, <3>4, <1>2, <1>3
      <4>. QED
        BY <4>1 DEF Elements
    <3>. QED
      BY <3>2, <3>3, <3>4, <1>2
  <2>2. \A e \in edges : e[2] \in visited \cup Elements(queue) \cup dropped
    BY <1>2 DEF IInv, NothingIsForgotten
  <2>. QED
    BY <2>1, <2>2, <1>1, <1>2 DEF NothingIsForgotten
<1>10. CrawlIsBounded'
  <2>1. Requesting' \subseteq Workers
    BY DEF Requesting
  <2>2. /\ Cardinality(Requesting') \in Nat /\ Cardinality(Workers) \in Nat
        /\ Cardinality(Requesting') <= Cardinality(Workers)
    BY <2>1, RequestsAreFinite
  <2>3. Cardinality(Crawled) \in Nat
    BY FS_CardinalityType DEF IInv
  <2>4. Cardinality(Crawled) < MaxNodes /\ MaxNodes \in Nat
    BY <2>3, <1>2, LimitsAreNat DEF Enough
  <2>5. Crawled' = Crawled
    BY <1>2 DEF Crawled
  <2>. QED
    BY <2>2, <2>3, <2>4, <2>5 DEF CrawlIsBounded
<1>11. ~Finished'
  BY <1>5 DEF Finished, Done
<1>12. QueueIsBounded'
  BY <1>2, <1>3, LimitsAreNat, PeersAreWritten DEF IInv, QueueIsBounded, MaxQueueSize
<1>. QED
  BY <1>1, <1>2, <1>6, <1>8, <1>9, <1>10, <1>11, <1>12
     DEF IInv, QueueIsServed, EdgesComeFromAnswers, Crawled

LEMMA LeaveInvariant ==
  ASSUME IInv, NEW w \in Workers, Leave(w)
  PROVE  IInv'
<1>1. /\ TypeOK /\ w \notin Requesting
      /\ UNCHANGED <<visited, nodes, edges, responsive, failed, dropped>>
      /\ worker' = [worker EXCEPT ![w] = At("done", NoAddress)]
  BY TheTurn DEF Leave, IInv
<1>2. \A v \in Workers : worker'[v] = IF v = w THEN At("done", NoAddress) ELSE worker[v]
  BY <1>1 DEF TypeOK
<1>3. Requesting' = Requesting
  BY <1>1, <1>2 DEF Requesting, At
<1>4. queue' = queue \/ queue' = <<>>
  BY DEF Leave
<1>5. TypeOK'
  <2>1. worker' \in [Workers -> Worker]
    BY <1>1 DEF TypeOK, Worker, At
  <2>2. queue \in Seq(Addresses) /\ <<>> \in Seq(Addresses)
    BY <1>1 DEF TypeOK
  <2>3. queue' \in Seq(Addresses)
    BY <1>4, <2>2
  <2>. QED
    BY <1>1, <2>1, <2>3 DEF TypeOK, Crawled
<1>6. OneWorkerPerAddress'
  BY <1>1, <1>2, <1>3 DEF IInv, OneWorkerPerAddress, Crawled, Requesting
<1>7. NothingIsForgotten'
  BY <1>1 DEF Leave, IInv, NothingIsForgotten, Enough, Crawled
<1>8. CrawlIsBounded'
  BY <1>1, <1>3 DEF IInv, CrawlIsBounded, Crawled
<1>9. QueueIsServed'
  BY <1>1 DEF Leave, QueueIsServed, Enough, Crawled
<1>10. QueueIsBounded'
  <2>1. MaxQueueSize \in Nat /\ Len(Seeds) \in Nat
    BY LimitsAreNat, PeersAreWritten DEF MaxQueueSize
  <2>2. MaxQueueSize' = MaxQueueSize
    BY DEF MaxQueueSize
  <2>. QED
    BY <1>4, <2>1, <2>2 DEF IInv, QueueIsBounded
<1>. QED
  BY <1>1, <1>5, <1>6, <1>7, <1>8, <1>9, <1>10 DEF IInv, EdgesComeFromAnswers, Crawled

(***************************************************************************)
(* Requests that go on: a worker keeps its address.                        *)
(***************************************************************************)
LEMMA SameRequests ==
  ASSUME IInv, NEW w \in Workers, worker[w].pc \in {"info", "peers"},
         UNCHANGED <<queue, visited, nodes, edges, failed, dropped>>, responsive' \in Nat,
         NEW next \in Worker, next.pc \in {"info", "peers"}, next.address = worker[w].address,
         worker' = [worker EXCEPT ![w] = next]
  PROVE  IInv'
<1>1. \A v \in Workers : worker'[v] = IF v = w THEN next ELSE worker[v]
  BY DEF IInv, TypeOK
<1>2. Requesting' = Requesting
  BY <1>1 DEF Requesting
<1>3. \A v \in Requesting : worker'[v].address = worker[v].address
  BY <1>1 DEF Requesting
<1>4. TypeOK'
  BY DEF IInv, TypeOK, Crawled
<1>5. OneWorkerPerAddress'
  BY <1>2, <1>3 DEF IInv, OneWorkerPerAddress, Crawled
<1>6. ~Finished'
  BY <1>1 DEF Finished, Done
<1>7. CrawlIsBounded'
  BY <1>2 DEF IInv, CrawlIsBounded, Crawled
<1>. QED
  BY <1>4, <1>5, <1>6, <1>7 DEF IInv, EdgesComeFromAnswers, NothingIsForgotten, QueueIsServed,
     QueueIsBounded, MaxQueueSize, Enough, Crawled

LEMMA RequestsInvariant ==
  ASSUME IInv, NEW w \in Workers, InfoAnswers(w) \/ RetryInfo(w) \/ Cut(w)
  PROVE  IInv'
<1>1. worker[w] \in Worker /\ worker[w].pc \in {"info", "peers"} /\ responsive \in Nat
  BY DEF IInv, TypeOK, InfoAnswers, RetryInfo, Cut, Waiting
<1>2. CASE InfoAnswers(w)
  <2>. DEFINE next == At("peers", worker[w].address)
  <2>1. next \in Worker /\ next.pc = "peers" /\ next.address = worker[w].address
    BY <1>1 DEF Worker, At
  <2>2. /\ worker' = [worker EXCEPT ![w] = next] /\ responsive' = responsive + 1
        /\ UNCHANGED <<queue, visited, nodes, edges, failed, dropped>>
    BY <1>2 DEF InfoAnswers
  <2>3. responsive' \in Nat
    BY <1>1, <2>2
  <2>. HIDE DEF next
  <2>. QED
    BY <1>1, <2>1, <2>2, <2>3, SameRequests
<1>3. CASE RetryInfo(w)
  <2>. DEFINE next == [worker[w] EXCEPT !.attempt = worker[w].attempt + 1]
  <2>1. next \in Worker /\ next.pc = worker[w].pc /\ next.address = worker[w].address
    BY <1>1 DEF Worker
  <2>2. worker' = [worker EXCEPT ![w] = next]
    BY <1>3 DEF RetryInfo
  <2>. HIDE DEF next
  <2>. QED
    BY <1>1, <1>3, <2>1, <2>2, SameRequests DEF RetryInfo
<1>4. CASE Cut(w)
  <2>. DEFINE next == [worker[w] EXCEPT !.cut = TRUE]
  <2>1. next \in Worker /\ next.pc = worker[w].pc /\ next.address = worker[w].address
    BY <1>1 DEF Worker
  <2>2. worker' = [worker EXCEPT ![w] = next]
    BY <1>4 DEF Cut
  <2>. HIDE DEF next
  <2>. QED
    BY <1>1, <1>4, <2>1, <2>2, SameRequests DEF Cut
<1>. QED
  BY <1>2, <1>3, <1>4

(***************************************************************************)
(* Requests that return: the address of the worker becomes a node.         *)
(***************************************************************************)
LEMMA NodeIsAdded ==
  ASSUME IInv, NEW w \in Requesting, Returned(w), visited' = visited,
         Crawled' = Crawled \cup {worker[w].address}
  PROVE  /\ worker[w].address \in (Addresses \cap visited) \ Crawled
         /\ worker' \in [Workers -> Worker]
         /\ ~Finished'
         /\ OneWorkerPerAddress'
         /\ Crawled' \subseteq visited' /\ IsFiniteSet(Crawled)'
         /\ CrawlIsBounded'
         /\ Enough => Enough'
<1>. DEFINE a == worker[w].address
<1>1. w \in Workers /\ TypeOK /\ a \in visited \ Crawled /\ a \in Addresses
  BY DEF IInv, Requesting, OneWorkerPerAddress, TypeOK
<1>2. \A v \in Workers : worker'[v] = IF v = w THEN At("loop", NoAddress) ELSE worker[v]
  BY <1>1 DEF Returned, TypeOK
<1>3. worker' \in [Workers -> Worker]
  BY <1>1 DEF Returned, TypeOK, Worker, At
<1>4. Requesting' = Requesting \ {w}
  BY <1>1, <1>2 DEF Requesting, At
<1>5. ~Finished'
  BY <1>1, <1>2 DEF Finished, Done, At
<1>6. OneWorkerPerAddress'
  <2>1. ASSUME NEW v \in Requesting'
        PROVE  /\ v \in Requesting /\ v # w
               /\ worker'[v].address = worker[v].address
               /\ worker'[v].address \in visited' \ Crawled'
    <3>1. v \in Requesting /\ v # w /\ v \in Workers
      BY <1>4 DEF Requesting
    <3>2. worker'[v] = worker[v]
      BY <3>1, <1>2
    <3>. QED
      BY <3>1, <3>2, <1>1 DEF IInv, OneWorkerPerAddress
  <2>. QED
    BY <2>1 DEF IInv, OneWorkerPerAddress
<1>7. /\ IsFiniteSet(Crawled') /\ Cardinality(Crawled) \in Nat
      /\ Cardinality(Crawled') = Cardinality(Crawled) + 1
  BY <1>1, FS_AddElement, FS_CardinalityType DEF IInv
<1>8. /\ Cardinality(Requesting') = Cardinality(Requesting) - 1
      /\ Cardinality(Requesting) \in Nat /\ Cardinality(Workers) \in Nat
  <2>1. Requesting \in SUBSET Workers
    BY DEF Requesting
  <2>2. IsFiniteSet(Requesting)
    BY <2>1, RequestsAreFinite
  <2>. QED
    BY <1>4, <2>1, <2>2, RequestsAreFinite, FS_RemoveElement
<1>9. CrawlIsBounded' /\ (Enough => Enough')
  BY <1>7, <1>8, LimitsAreNat DEF IInv, CrawlIsBounded, Enough
<1>. QED
  BY <1>1, <1>3, <1>5, <1>6, <1>7, <1>9 DEF IInv

LEMMA FailureInvariant ==
  ASSUME IInv, NEW w \in Workers, InfoFails(w) \/ PeersFail(w)
  PROVE  IInv'
<1>. DEFINE a == worker[w].address
<1>1. PICK answered \in BOOLEAN : nodes' = Added(a, answered)
  BY DEF InfoFails, PeersFail
<1>2. /\ w \in Requesting /\ Returned(w) /\ failed' \in Nat /\ TypeOK
      /\ UNCHANGED <<queue, visited, edges, responsive, dropped>>
  <2>1. failed \in Nat /\ TypeOK
    BY DEF IInv, TypeOK
  <2>2. CASE InfoFails(w)
    BY <2>1, <2>2 DEF InfoFails, Waiting, Requesting
  <2>3. CASE PeersFail(w)
    BY <2>1, <2>3 DEF PeersFail, Waiting, Requesting
  <2>. QED
    BY <2>2, <2>3
<1>3. Crawled' = Crawled \cup {a}
  BY <1>1 DEF Added, Crawled
<1>4. /\ a \in (Addresses \cap visited) \ Crawled
      /\ worker' \in [Workers -> Worker]
      /\ ~Finished' /\ OneWorkerPerAddress' /\ CrawlIsBounded'
      /\ Crawled' \subseteq visited' /\ IsFiniteSet(Crawled)'
      /\ Enough => Enough'
  BY <1>2, <1>3, NodeIsAdded
<1>5. ASSUME NEW b \in Crawled'
      PROVE  nodes'[b] = IF b = a THEN [isResponsive |-> answered, inboundPeers |-> {}]
                         ELSE nodes[b]
  BY <1>1, <1>3 DEF Added
<1>6. TypeOK'
  <2>1. nodes' \in [Crawled' -> Node]
    <3>1. ASSUME NEW b \in Crawled \cup {a}
          PROVE  (IF b = a THEN [isResponsive |-> answered, inboundPeers |-> {}] ELSE nodes[b])
                 \in Node
      BY <1>2 DEF TypeOK, Node
    <3>. QED
      BY <1>1, <1>3, <3>1 DEF Added
  <2>. QED
    BY <1>2, <1>3, <1>4, <2>1 DEF TypeOK
<1>7. EdgesComeFromAnswers'
  <2>1. \A e \in edges : e[1] # a
    BY <1>4 DEF IInv, EdgesComeFromAnswers
  <2>. QED
    BY <1>2, <1>3, <1>5, <2>1 DEF IInv, EdgesComeFromAnswers
<1>8. NothingIsForgotten'
  BY <1>2, <1>4 DEF IInv, NothingIsForgotten
<1>. QED
  BY <1>2, <1>4, <1>6, <1>7, <1>8 DEF IInv, QueueIsServed, QueueIsBounded, MaxQueueSize

LEMMA PeersInvariant ==
  ASSUME IInv, NEW w \in Workers, PeersAnswer(w)
  PROVE  IInv'
<1>. DEFINE source == worker[w].address
<1>1. PICK list \in Lists[source[1]] :
        LET peers == NormalizeAll(list)
        IN  /\ edges' = edges \cup {<<source, target>> : target \in Elements(peers)}
            /\ nodes' = [a \in Crawled \cup {source} |->
                           IF a = source THEN [isResponsive |-> TRUE, inboundPeers |-> {}]
                           ELSE IF a \in Elements(peers)
                           THEN [nodes[a] EXCEPT !.inboundPeers = @ \cup {source}]
                           ELSE nodes[a]]
            /\ queue' = queue \o Admitted(peers)
            /\ dropped' = dropped \cup (Elements(Wanted(peers)) \ Elements(Admitted(peers)))
  BY DEF PeersAnswer
<1>. DEFINE peers == NormalizeAll(list)
<1>2. /\ w \in Requesting /\ Returned(w) /\ TypeOK
      /\ UNCHANGED <<visited, responsive, failed>>
  BY DEF PeersAnswer, Waiting, Requesting, IInv
<1>3. Crawled' = Crawled \cup {source}
  BY <1>1 DEF Crawled
<1>4. /\ source \in (Addresses \cap visited) \ Crawled
      /\ worker' \in [Workers -> Worker]
      /\ ~Finished' /\ OneWorkerPerAddress' /\ CrawlIsBounded'
      /\ Crawled' \subseteq visited' /\ IsFiniteSet(Crawled)'
      /\ Enough => Enough'
  BY <1>2, <1>3, NodeIsAdded
<1>5. peers \in Seq(Addresses)
  <2>1. source[1] \in IPv4
    BY DEF PeersAnswer, CanAnswer
  <2>2. list \in Seq(Written)
    BY <1>1, <2>1, PeersAreWritten
  <2>. QED
    BY <2>2, NormalizeAllType
<1>. HIDE DEF peers
<1>6. /\ Wanted(peers) \in Seq(Addresses)
      /\ \A a \in Elements(peers) : a \in visited \/ Enough \/ a \in Elements(Wanted(peers))
      /\ Elements(Wanted(peers)) \subseteq Addresses
  BY <1>5, WantedPeers
<1>7. /\ Admitted(peers) \in Seq(Addresses)
      /\ Len(Admitted(peers)) = 0 \/ Len(queue) + Len(Admitted(peers)) <= MaxQueueSize
  BY <1>2, <1>5, AdmittedPeers
<1>8. Elements(peers) \subseteq Addresses
  BY <1>5 DEF Elements
<1>9. /\ edges' = edges \cup {<<source, target>> : target \in Elements(peers)}
      /\ queue' = queue \o Admitted(peers)
      /\ dropped' = dropped \cup (Elements(Wanted(peers)) \ Elements(Admitted(peers)))
  BY <1>1 DEF peers
<1>10. ASSUME NEW a \in Crawled'
       PROVE  /\ a = source => nodes'[a] = [isResponsive |-> TRUE, inboundPeers |-> {}]
              /\ a # source => /\ a \in Crawled /\ nodes'[a] \in Node
                               /\ nodes'[a].isResponsive = nodes[a].isResponsive
                               /\ \A p \in nodes'[a].inboundPeers :
                                    \/ p \in nodes[a].inboundPeers
                                    \/ p = source /\ a \in Elements(peers)
  <2>1. nodes'[a] = IF a = source THEN [isResponsive |-> TRUE, inboundPeers |-> {}]
                    ELSE IF a \in Elements(peers)
                    THEN [nodes[a] EXCEPT !.inboundPeers = @ \cup {source}]
                    ELSE nodes[a]
    BY <1>1, <1>3 DEF peers
  <2>2. CASE a = source
    BY <2>1, <2>2
  <2>3. CASE a # source
    <3>1. a \in Crawled /\ nodes[a] \in Node /\ source \in Addresses
      BY <1>2, <1>3, <1>4, <2>3 DEF TypeOK
    <3>. QED
      BY <2>1, <2>3, <3>1 DEF Node
  <2>. QED
    BY <2>2, <2>3
<1>11. TypeOK'
  <2>1. nodes' \in [Crawled' -> Node]
    <3>1. ASSUME NEW a \in Crawled'
          PROVE  nodes'[a] \in Node
      <4>1. [isResponsive |-> TRUE, inboundPeers |-> {}] \in Node
        BY DEF Node
      <4>. QED
        BY <1>10, <4>1
    <3>2. nodes' = [a \in Crawled' |-> nodes'[a]]
      BY <1>1, <1>3
    <3>. QED
      BY <3>1, <3>2
  <2>2. queue' \in Seq(Addresses)
    BY <1>2, <1>7, <1>9 DEF TypeOK
  <2>3. edges' \subseteq Addresses \X Addresses /\ dropped' \subseteq Addresses
    BY <1>2, <1>4, <1>6, <1>8, <1>9 DEF TypeOK
  <2>. QED
    BY <1>2, <1>3, <1>4, <2>1, <2>2, <2>3 DEF TypeOK
<1>12. EdgesComeFromAnswers'
  <2>1. ASSUME NEW e \in edges'
        PROVE  e[1] \in Crawled' /\ nodes'[e[1]].isResponsive
    <3>1. CASE e \in edges
      <4>1. e[1] \in Crawled /\ nodes[e[1]].isResponsive /\ e[1] # source
        BY <3>1, <1>4 DEF IInv, EdgesComeFromAnswers
      <4>. QED
        BY <4>1, <1>3, <1>10
    <3>2. CASE e \notin edges
      <4>1. e[1] = source
        BY <3>2, <1>9
      <4>. QED
        BY <4>1, <1>3, <1>10
    <3>. QED
      BY <3>1, <3>2
  <2>2. ASSUME NEW a \in Crawled', NEW p \in nodes'[a].inboundPeers
        PROVE  <<p, a>> \in edges'
    <3>1. a # source
      BY <1>10
    <3>2. a \in Crawled /\ (p \in nodes[a].inboundPeers \/ (p = source /\ a \in Elements(peers)))
      BY <1>10, <3>1
    <3>. QED
      BY <3>2, <1>9 DEF IInv, EdgesComeFromAnswers
  <2>. QED
    BY <2>1, <2>2 DEF EdgesComeFromAnswers
<1>13. NothingIsForgotten'
  <2>1. Elements(queue') = Elements(queue) \cup Elements(Admitted(peers))
    BY <1>2, <1>7, <1>9, ElementsOfConcat DEF TypeOK
  <2>2. ASSUME ~Enough', NEW e \in edges'
        PROVE  e[2] \in visited' \cup Elements(queue') \cup dropped'
    <3>1. ~Enough
      BY <1>4, <2>2
    <3>2. CASE e \in edges
      BY <3>1, <3>2, <2>1, <1>2, <1>9 DEF IInv, NothingIsForgotten
    <3>3. CASE e \notin edges
      <4>1. e[2] \in Elements(peers)
        BY <3>3, <1>9
      <4>2. e[2] \in visited \/ e[2] \in Elements(Wanted(peers))
        BY <4>1, <3>1, <1>6
      <4>. QED
        BY <4>2, <2>1, <1>2, <1>9
    <3>. QED
      BY <3>2, <3>3
  <2>. QED
    BY <2>2 DEF NothingIsForgotten
<1>14. QueueIsBounded'
  <2>1. Len(queue') = Len(queue) + Len(Admitted(peers))
    BY <1>2, <1>7, <1>9 DEF TypeOK
  <2>2. Len(queue) \in Nat /\ Len(Admitted(peers)) \in Nat
    BY <1>2, <1>7 DEF TypeOK
  <2>3. MaxQueueSize' = MaxQueueSize
    BY DEF MaxQueueSize
  <2>. QED
    BY <1>7, <2>1, <2>2, <2>3 DEF IInv, QueueIsBounded
<1>. QED
  BY <1>4, <1>11, <1>12, <1>13, <1>14 DEF IInv, QueueIsServed

(***************************************************************************)
(* The theorems.                                                           *)
(***************************************************************************)

\* The inductive invariant: the types; that no address is asked by two workers or twice;
\* that edges and inbound peers come from answers; that below the limit a listed peer is
\* visited, queued, or found the queue full; that the last worker leaves an empty queue;
\* the bounds on nodes and queue.
THEOREM Invariance == Spec => []IInv
<1>1. Init => IInv
  BY InitInvariant
<1>2. IInv /\ [Next]_vars => IInv'
  <2>. SUFFICES ASSUME IInv, [Next]_vars PROVE IInv'
    OBVIOUS
  <2>1. CASE UNCHANGED vars
    BY <2>1 DEF vars, IInv, TypeOK, OneWorkerPerAddress, EdgesComeFromAnswers,
       NothingIsForgotten, QueueIsServed, CrawlIsBounded, QueueIsBounded, MaxQueueSize,
       Enough, Finished, Done, Requesting, Crawled
  <2>2. ASSUME NEW w \in Workers, Take(w) PROVE IInv'
    BY <2>2, TakeInvariant
  <2>3. ASSUME NEW w \in Workers, Leave(w) PROVE IInv'
    BY <2>3, LeaveInvariant
  <2>4. ASSUME NEW w \in Workers, InfoAnswers(w) \/ RetryInfo(w) \/ Cut(w) PROVE IInv'
    BY <2>4, RequestsInvariant
  <2>5. ASSUME NEW w \in Workers, InfoFails(w) \/ PeersFail(w) PROVE IInv'
    BY <2>5, FailureInvariant
  <2>6. ASSUME NEW w \in Workers, PeersAnswer(w) PROVE IInv'
    BY <2>6, PeersInvariant
  <2>. QED
    BY <2>1, <2>2, <2>3, <2>4, <2>5, <2>6 DEF Next, Proceeds
<1>. QED
  BY <1>1, <1>2, PTL DEF Spec

\* However many workers run, a crawl finds fewer than MaxNodes + concurrency nodes.
THEOREM CrawlBound == Spec => []CrawlIsBounded
<1>1. IInv => CrawlIsBounded
  BY DEF IInv
<1>. QED
  BY <1>1, Invariance, PTL

\* Whatever order the answers come in, and although workers leave early, a crawl that
\* ends below its limit has visited every peer listed, but for those the queue refused.
THEOREM FrontierIsServed == Spec => []NoFrontierIsLeft
<1>1. IInv => NoFrontierIsLeft
  <2>. SUFFICES ASSUME IInv, Finished, ~Enough
                PROVE  \A e \in edges : e[2] \in visited \cup dropped
    BY DEF NoFrontierIsLeft
  <2>1. queue = <<>>
    BY DEF IInv, QueueIsServed
  <2>2. Elements(queue) = {}
    BY <2>1 DEF Elements
  <2>. QED
    BY <2>2 DEF IInv, NothingIsForgotten
<1>. QED
  BY <1>1, Invariance, PTL

LEMMA StepKeepsNode ==
  ASSUME IInv, Next, NEW a \in Crawled
  PROVE  KeepsNode(a)
<1>1. CASE UNCHANGED nodes
  BY <1>1 DEF Crawled, KeepsNode
<1>2. ASSUME NEW w \in Requesting, NEW answered \in BOOLEAN,
             nodes' = Added(worker[w].address, answered)
      PROVE  KeepsNode(a)
  <2>1. a # worker[w].address
    BY <1>2 DEF IInv, OneWorkerPerAddress
  <2>. QED
    BY <1>2, <2>1 DEF Added, Crawled, KeepsNode
<1>3. ASSUME NEW w \in Workers, PeersAnswer(w)
      PROVE  KeepsNode(a)
  <2>. DEFINE source == worker[w].address
  <2>1. w \in Requesting
    BY <1>3 DEF PeersAnswer, Waiting, Requesting
  <2>2. a # source
    BY <2>1 DEF IInv, OneWorkerPerAddress
  <2>3. nodes[a] \in Node
    BY DEF IInv, TypeOK
  <2>4. PICK list \in Lists[source[1]] :
          nodes' = [b \in Crawled \cup {source} |->
                      IF b = source THEN [isResponsive |-> TRUE, inboundPeers |-> {}]
                      ELSE IF b \in Elements(NormalizeAll(list))
                      THEN [nodes[b] EXCEPT !.inboundPeers = @ \cup {source}]
                      ELSE nodes[b]]
    BY <1>3 DEF PeersAnswer
  <2>5. /\ a \in Crawled'
        /\ \/ nodes'[a] = nodes[a]
           \/ nodes'[a] = [nodes[a] EXCEPT !.inboundPeers = @ \cup {source}]
    BY <2>2, <2>4 DEF Crawled
  <2>. QED
    BY <2>3, <2>5 DEF Node, KeepsNode
<1>. QED
  BY <1>1, <1>2, <1>3 DEF Next, Proceeds, Take, Leave, RetryInfo, InfoFails, PeersFail,
     InfoAnswers, Cut, Waiting, Requesting

\* What was found of a node stays, whatever is asked and answered later.
THEOREM CrawledOnce == Spec => NodesAreCrawledOnce
<1>1. IInv /\ [Next]_vars => [\A a \in Crawled : KeepsNode(a)]_vars
  BY StepKeepsNode
<1>. QED
  BY <1>1, Invariance, PTL DEF Spec, NodesAreCrawledOnce

(***************************************************************************)
(* The counts.                                                             *)
(***************************************************************************)
LEMMA CountedSetsAreFinite ==
  ASSUME IInv
  PROVE  /\ IsFiniteSet(Responsive) /\ IsFiniteSet(Failed) /\ IsFiniteSet(Answered)
         /\ Cardinality(Responsive) \in Nat /\ Cardinality(Failed) \in Nat
         /\ Cardinality(Answered) \in Nat
<1>1. Responsive \in SUBSET Crawled /\ Failed \in SUBSET Crawled /\ IsFiniteSet(Crawled)
  BY DEF Responsive, Failed, IInv
<1>2. IsFiniteSet(Responsive) /\ IsFiniteSet(Failed)
  BY <1>1, FS_Subset
<1>3. IsFiniteSet(Answered)
  <2>1. Answered \in SUBSET Workers
    BY DEF Answered
  <2>. QED
    BY <2>1, RequestsAreFinite
<1>. QED
  BY <1>2, <1>3, FS_CardinalityType

\* A node is added, and counted where it was not.
LEMMA AddedIsCounted ==
  ASSUME IInv, Next, CountsMatch, NEW a, a \notin Crawled, Crawled' = Crawled \cup {a}
  PROVE  /\ nodes'[a].isResponsive =>
              /\ Cardinality(Responsive') = Cardinality(Responsive) + 1
              /\ Failed' = Failed
         /\ ~nodes'[a].isResponsive =>
              /\ Cardinality(Failed') = Cardinality(Failed) + 1
              /\ Responsive' = Responsive
<1>1. \A b \in Crawled : nodes'[b].isResponsive = nodes[b].isResponsive
  BY StepKeepsNode DEF KeepsNode
<1>2. a \notin Responsive /\ a \notin Failed
  BY DEF Responsive, Failed
<1>3. CASE nodes'[a].isResponsive
  <2>1. Responsive' = Responsive \cup {a} /\ Failed' = Failed
    BY <1>1, <1>3 DEF Responsive, Failed
  <2>. QED
    BY <1>2, <1>3, <2>1, CountedSetsAreFinite, FS_AddElement
<1>4. CASE ~nodes'[a].isResponsive
  <2>1. Failed' = Failed \cup {a} /\ Responsive' = Responsive
    BY <1>1, <1>4 DEF Responsive, Failed
  <2>. QED
    BY <1>2, <1>4, <2>1, CountedSetsAreFinite, FS_AddElement
<1>. QED
  BY <1>3, <1>4

LEMMA CountsStep ==
  ASSUME IInv, [Next]_vars, CountsMatch
  PROVE  CountsMatch'
<1>1. worker \in [Workers -> Worker]
  BY DEF IInv, TypeOK
<1>2. CASE UNCHANGED vars
  BY <1>2 DEF vars, CountsMatch, Responsive, Failed, Answered, Crawled
<1>3. ASSUME NEW w \in Workers, Next, Take(w) \/ Leave(w) \/ RetryInfo(w) \/ Cut(w)
      PROVE  CountsMatch'
  <2>1. \A v \in Workers : worker'[v].pc = "peers" <=> worker[v].pc = "peers"
    <3>1. CASE Take(w) \/ Leave(w)
      BY <1>1, <3>1 DEF Take, Leave, HasTheTurn, At, Worker
    <3>2. CASE RetryInfo(w) \/ Cut(w)
      BY <1>1, <3>2 DEF RetryInfo, Cut, Worker
    <3>. QED
      BY <1>3, <3>1, <3>2
  <2>2. Answered' = Answered
    BY <2>1 DEF Answered
  <2>3. UNCHANGED <<nodes, responsive, failed>>
    BY <1>3 DEF Take, Leave, RetryInfo, Cut
  <2>. QED
    BY <2>2, <2>3 DEF CountsMatch, Responsive, Failed, Crawled
<1>4. ASSUME NEW w \in Workers, Next, InfoAnswers(w)
      PROVE  CountsMatch'
  <2>1. Answered' = Answered \cup {w} /\ w \notin Answered
    BY <1>1, <1>4 DEF InfoAnswers, Waiting, Answered, At
  <2>2. Cardinality(Answered') = Cardinality(Answered) + 1
    BY <2>1, CountedSetsAreFinite, FS_AddElement
  <2>3. UNCHANGED <<nodes, failed>> /\ responsive' = responsive + 1
    BY <1>4 DEF InfoAnswers
  <2>. QED
    BY <2>2, <2>3, CountedSetsAreFinite DEF CountsMatch, Responsive, Failed, Crawled
<1>5. ASSUME NEW w \in Workers, Next, InfoFails(w)
      PROVE  CountsMatch'
  <2>. DEFINE a == worker[w].address
  <2>1. /\ a \notin Crawled /\ Crawled' = Crawled \cup {a} /\ ~nodes'[a].isResponsive
        /\ failed' = failed + 1 /\ responsive' = responsive
    BY <1>5 DEF InfoFails, Waiting, Added, Crawled, IInv, OneWorkerPerAddress, Requesting
  <2>2. Answered' = Answered
    BY <1>1, <1>5 DEF InfoFails, Waiting, Returned, Answered, At
  <2>3. Cardinality(Failed') = Cardinality(Failed) + 1 /\ Responsive' = Responsive
    BY <1>5, <2>1, AddedIsCounted
  <2>. QED
    BY <2>1, <2>2, <2>3 DEF CountsMatch
<1>6. ASSUME NEW w \in Workers, Next, PeersFail(w) \/ PeersAnswer(w)
      PROVE  CountsMatch'
  <2>. DEFINE a == worker[w].address
  <2>1. /\ a \notin Crawled /\ Crawled' = Crawled \cup {a} /\ nodes'[a].isResponsive
        /\ failed' = failed /\ responsive' = responsive
    <3>1. a \notin Crawled
      BY <1>6 DEF PeersFail, PeersAnswer, Waiting, IInv, OneWorkerPerAddress, Requesting
    <3>2. CASE PeersFail(w)
      BY <3>1, <3>2 DEF PeersFail, Added, Crawled
    <3>3. CASE PeersAnswer(w)
      BY <3>1, <3>3 DEF PeersAnswer, Crawled
    <3>. QED
      BY <1>6, <3>2, <3>3
  <2>2. Answered' = Answered \ {w} /\ w \in Answered
    <3>1. worker[w].pc = "peers" /\ Returned(w)
      BY <1>6 DEF PeersFail, PeersAnswer, Waiting
    <3>. QED
      BY <1>1, <3>1 DEF Returned, Answered, At
  <2>3. Cardinality(Answered') = Cardinality(Answered) - 1
    BY <2>2, CountedSetsAreFinite, FS_RemoveElement
  <2>4. Cardinality(Responsive') = Cardinality(Responsive) + 1 /\ Failed' = Failed
    BY <1>6, <2>1, AddedIsCounted
  <2>. QED
    BY <2>1, <2>3, <2>4, CountedSetsAreFinite DEF CountsMatch
<1>. QED
  BY <1>2, <1>3, <1>4, <1>5, <1>6 DEF Next, Proceeds

\* What calculateStats reports is what was found.
THEOREM StatsAddUp == Spec => []CountsMatch
<1>1. Init => CountsMatch
  <2>. SUFFICES ASSUME Init PROVE CountsMatch
    OBVIOUS
  <2>1. Crawled = {} /\ Answered = {}
    BY DEF Init, Crawled, Answered, At
  <2>2. Responsive = {} /\ Failed = {}
    BY <2>1 DEF Responsive, Failed
  <2>. QED
    BY <2>1, <2>2, FS_EmptySet DEF Init, CountsMatch
<1>2. IInv /\ CountsMatch /\ [Next]_vars => CountsMatch'
  BY CountsStep
<1>. QED
  BY <1>1, <1>2, Invariance, PTL DEF Spec
-----------------------------------------------------------------------------
(***************************************************************************)
(* The analysis after the crawl.                                           *)
(***************************************************************************)
\* A crawl that is analyzed is a crawl: every step of the report is one of the crawl or
\* leaves it alone, and the workers proceed as fairly.
THEOREM ReportImplementsCrawl == ReportSpec => FairSpec
<1>1. ReportInit => Init
  BY DEF ReportInit
<1>2. [ReportNext]_<<vars, reportVars>> => [Next]_vars
  BY DEF ReportNext, Crawling, Report
<1>. QED
  BY <1>1, <1>2, PTL DEF ReportSpec, FairSpec, Spec

\* So what is analyzed and published is a crawl that left no listed peer out.
THEOREM ReportIsOfAWholeCrawl == ReportSpec => []NoFrontierIsLeft
BY ReportImplementsCrawl, FrontierIsServed, PTL DEF FairSpec

(***************************************************************************)
(* The components.                                                         *)
(***************************************************************************)
\* Of numbers there is a least.
LEMMA LeastIsThere ==
  ASSUME NEW S \in SUBSET Nat, S # {}
  PROVE  \E x \in S : \A y \in S : x <= y
<1>1. PICK x \in S : \A y \in S : <<y, x>> \notin OpToRel(<, Nat)
  BY NatLessThanWellFounded, WFMin
<1>2. ASSUME NEW y \in S
      PROVE  x <= y
  <2>1. x \in Nat /\ y \in Nat /\ <<y, x>> \in Nat \X Nat
    OBVIOUS
  <2>2. <<y, x>> \in OpToRel(<, Nat) <=> y < x
    BY <2>1 DEF OpToRel
  <2>3. ~(y < x)
    BY <1>1, <2>2, Zenon
  <2>. QED
    BY <2>1, <2>3
<1>. QED
  BY <1>2

\* An edge leads into C where it leads out of it.
IsClosed(C, E) == \A e \in E : e[1] \in C <=> e[2] \in C

Reach(G) == G.node \cup {e[2] : e \in G.edge}

\* One step of the search from all of X, and n of them from a.
Widened(G, X) == X \cup UNION {Neighbors(G, b) : b \in X}

Widens(G, a, n, reached) ==
  reached = [d \in 0 .. n |-> IF d = 0 THEN {a} ELSE Widened(G, reached[d - 1])]

LEMMA ComponentIs ==
  ASSUME NEW G, NEW a
  PROVE  LET n == Cardinality(Reach(G))
         IN  Component(G, a) = (CHOOSE reached : Widens(G, a, n, reached))[n]
<1>. DEFINE n == Cardinality(Reach(G))
            Recursive(reached) ==
              reached = [d \in 0 .. n |->
                           IF d = 0 THEN {a}
                           ELSE reached[d - 1] \cup UNION {Neighbors(G, b) : b \in reached[d - 1]}]
<1>1. Component(G, a) = (CHOOSE reached : Recursive(reached))[n]
  BY Zenon DEF Component, Reach
<1>2. \A reached : Widens(G, a, n, reached) <=> Recursive(reached)
  BY DEF Widens, Widened
<1>. HIDE DEF Recursive
<1>3. (CHOOSE reached : Recursive(reached)) = (CHOOSE reached : Widens(G, a, n, reached))
  BY <1>2, Zenon
<1>. QED
  BY <1>1, <1>3

LEMMA SearchesExist ==
  ASSUME NEW G, NEW a, NEW n \in Nat
  PROVE  \E reached : Widens(G, a, n, reached)
<1>. DEFINE bad == {k \in Nat : ~ \E reached : Widens(G, a, k, reached)}
<1>1. SUFFICES ASSUME bad # {} PROVE FALSE
  BY Zenon
<1>2. PICK k \in bad : \A i \in bad : k <= i
  <2>1. bad \in SUBSET Nat
    OBVIOUS
  <2>. HIDE DEF bad
  <2>. QED
    BY <1>1, <2>1, LeastIsThere
<1>3. k \in Nat /\ ~ \E reached : Widens(G, a, k, reached)
  OBVIOUS
<1>4. CASE k = 0
  <2>. DEFINE reached == [d \in 0 .. 0 |-> {a}]
  <2>1. Widens(G, a, 0, reached)
    BY DEF Widens
  <2>. QED
    BY <1>3, <1>4, <2>1, Zenon
<1>5. CASE k # 0
  <2>1. k - 1 \in Nat /\ ~(k <= k - 1)
    BY <1>3, <1>5
  <2>2. \E before : Widens(G, a, k - 1, before)
    BY <1>2, <2>1
  <2>3. PICK before : Widens(G, a, k - 1, before)
    BY <2>2, Zenon
  <2>. DEFINE reached == [d \in 0 .. k |-> IF d = 0 THEN {a} ELSE Widened(G, before[d - 1])]
  <2>4. ASSUME NEW d \in 0 .. k - 1
        PROVE  before[d] = IF d = 0 THEN {a} ELSE Widened(G, before[d - 1])
    BY <2>3 DEF Widens
  <2>5. ASSUME NEW d \in 0 .. k, d # 0
        PROVE  reached[d - 1] = before[d - 1]
    <3>1. d - 1 \in 0 .. k - 1 /\ d - 1 \in 0 .. k
      BY <1>3, <2>5
    <3>2. reached[d - 1] = IF d - 1 = 0 THEN {a} ELSE Widened(G, before[(d - 1) - 1])
      BY <3>1
    <3>. QED
      BY <2>4, <3>1, <3>2
  <2>6. Widens(G, a, k, reached)
    BY <2>5 DEF Widens
  <2>. QED
    BY <1>3, <2>6, Zenon
<1>. QED
  BY <1>4, <1>5

\* The search finds a set that is closed, and no more than it has to: it stays in every
\* closed set that it starts in.
LEMMA ComponentIsClosed ==
  ASSUME NEW G, NEW T, G.edge \subseteq G.node \X T, IsFiniteSet(Reach(G)), NEW a \in G.node
  PROVE  /\ a \in Component(G, a)
         /\ Component(G, a) \subseteq Reach(G)
         /\ IsClosed(Component(G, a), G.edge)
         /\ \A C : a \in C /\ IsClosed(C, G.edge) => Component(G, a) \subseteq C
<1>. DEFINE n == Cardinality(Reach(G))
            reached == CHOOSE f : Widens(G, a, n, f)
<1>1. n \in Nat
  BY FS_CardinalityType
<1>2. Widens(G, a, n, reached)
  <2>. HIDE DEF n
  <2>1. \E f : Widens(G, a, n, f)
    BY <1>1, SearchesExist
  <2>. QED
    BY <2>1, Zenon
<1>3. Component(G, a) = reached[n]
  BY ComponentIs
<1>. HIDE DEF n, reached
<1>4. reached[0] = {a} /\ \A d \in 1 .. n : reached[d] = Widened(G, reached[d - 1])
  <2>1. ASSUME NEW d \in 0 .. n
        PROVE  reached[d] = IF d = 0 THEN {a} ELSE Widened(G, reached[d - 1])
    BY <1>2 DEF Widens
  <2>2. 0 \in 0 .. n /\ \A d \in 1 .. n : d \in 0 .. n /\ d # 0
    BY <1>1
  <2>. QED
    BY <2>1, <2>2
<1>0. \A e \in G.edge : e = <<e[1], e[2]>> /\ e[1] \in G.node /\ e[1] \in Reach(G) /\ e[2] \in Reach(G)
  BY DEF Reach
\* A set that a step does not widen is closed.
<1>5. ASSUME NEW X, Widened(G, X) = X
      PROVE  IsClosed(X, G.edge)
  <2>1. ASSUME NEW b \in X
        PROVE  Neighbors(G, b) \subseteq X
    BY <1>5 DEF Widened
  <2>2. ASSUME NEW e \in G.edge, e[1] \in X
        PROVE  e[2] \in X
    <3>1. e[2] \in Neighbors(G, e[1])
      BY <1>0 DEF Neighbors, Reach
    <3>. QED
      BY <2>1, <2>2, <3>1
  <2>3. ASSUME NEW e \in G.edge, e[2] \in X
        PROVE  e[1] \in X
    <3>1. e[1] \in Neighbors(G, e[2])
      BY <1>0 DEF Neighbors, Reach
    <3>. QED
      BY <2>1, <2>3, <3>1
  <2>. QED
    BY <2>2, <2>3 DEF IsClosed
\* A step does not lead out of a closed set, nor out of the graph.
<1>6. ASSUME NEW X, NEW C, X \subseteq C, IsClosed(C, G.edge)
      PROVE  Widened(G, X) \subseteq C
  <2>1. ASSUME NEW b \in X, NEW c \in Neighbors(G, b)
        PROVE  c \in C
    <3>1. <<b, c>> \in G.edge \/ <<c, b>> \in G.edge
      BY DEF Neighbors
    <3>. QED
      BY <1>6, <3>1 DEF IsClosed
  <2>. QED
    BY <1>6, <2>1 DEF Widened
<1>7. \A X : X \subseteq Reach(G) => Widened(G, X) \subseteq Reach(G)
  BY DEF Widened, Neighbors, Reach
\* Each step widens, or the search is at its end.
<1>. DEFINE IsRight(d) == /\ a \in reached[d] /\ reached[d] \subseteq Reach(G)
                          /\ \A C : a \in C /\ IsClosed(C, G.edge) => reached[d] \subseteq C
                          /\ \/ IsClosed(reached[d], G.edge)
                             \/ Cardinality(reached[d]) > d
            bad == {d \in 0 .. n : ~IsRight(d)}
<1>8. IsRight(0)
  <2>1. IsFiniteSet({}) /\ Cardinality({}) = 0
    BY FS_EmptySet
  <2>2. Cardinality({a}) = 1
    BY FS_Singleton
  <2>3. a \in Reach(G)
    BY DEF Reach
  <2>. QED
    BY <1>4, <2>2, <2>3
<1>9. ASSUME NEW d \in 1 .. n, IsRight(d - 1)
      PROVE  IsRight(d)
  <2>. DEFINE X == reached[d - 1]
  <2>0. reached[d] = Widened(G, X) /\ d \in Nat /\ d - 1 \in Nat
    BY <1>4
  <2>. HIDE DEF X
  <2>1. a \in X /\ X \subseteq Reach(G) /\ (IsClosed(X, G.edge) \/ Cardinality(X) > d - 1)
    BY <1>9 DEF X
  <2>2. a \in reached[d] /\ X \subseteq reached[d] /\ reached[d] \subseteq Reach(G)
    BY <1>7, <2>0, <2>1 DEF Widened
  <2>3. \A C : a \in C /\ IsClosed(C, G.edge) => reached[d] \subseteq C
    BY <1>6, <1>9, <2>0 DEF X
  <2>4. CASE reached[d] = X
    BY <1>5, <2>0, <2>2, <2>3, <2>4
  <2>5. CASE reached[d] # X
    <3>1. ~IsClosed(X, G.edge)
      <4>1. ASSUME IsClosed(X, G.edge)
            PROVE  Widened(G, X) \subseteq X
        BY <4>1, <1>6
      <4>. QED
        BY <2>0, <2>2, <2>5, <4>1
    <3>2. IsFiniteSet(reached[d]) /\ IsFiniteSet(X)
      BY <2>1, <2>2, FS_Subset
    <3>3. Cardinality(X) <= Cardinality(reached[d]) /\ Cardinality(X) # Cardinality(reached[d])
      BY <2>2, <2>5, <3>2, FS_Subset
    <3>4. Cardinality(X) \in Nat /\ Cardinality(reached[d]) \in Nat
      BY <3>2, FS_CardinalityType
    <3>5. Cardinality(reached[d]) > d
      BY <2>0, <2>1, <3>1, <3>3, <3>4
    <3>. QED
      BY <2>2, <2>3, <3>5
  <2>. QED
    BY <2>4, <2>5
<1>10. bad = {}
  <2>1. SUFFICES ASSUME bad # {} PROVE FALSE
    BY Zenon
  <2>2. bad \in SUBSET Nat
    OBVIOUS
  <2>3. PICK d \in bad : \A i \in bad : d <= i
    <3>. HIDE DEF bad
    <3>. QED
      BY <2>1, <2>2, LeastIsThere
  <2>4. d \in 0 .. n /\ ~IsRight(d)
    OBVIOUS
  <2>. HIDE DEF IsRight
  <2>5. d \in 1 .. n
    BY <1>8, <2>4
  <2>6. d - 1 \in 0 .. n /\ ~(d <= d - 1)
    BY <1>1, <2>5
  <2>7. IsRight(d - 1)
    BY <2>3, <2>6
  <2>. QED
    BY <1>9, <2>4, <2>5, <2>7
<1>11. IsRight(n)
  <2>. HIDE DEF IsRight
  <2>1. n \in 0 .. n
    BY <1>1
  <2>. QED
    BY <1>10, <2>1
<1>12. IsClosed(reached[n], G.edge)
  <2>1. IsFiniteSet(reached[n]) /\ Cardinality(reached[n]) <= n
    BY <1>11, FS_Subset DEF n
  <2>2. Cardinality(reached[n]) \in Nat
    BY <2>1, FS_CardinalityType
  <2>. QED
    BY <1>1, <1>11, <2>1, <2>2
<1>. QED
  BY <1>3, <1>11, <1>12

LEMMA ComponentsAreApart ==
  ASSUME NEW G, NEW T, G.edge \subseteq G.node \X T, IsFiniteSet(Reach(G)),
         NEW a \in G.node, NEW b \in G.node, Component(G, a) # Component(G, b)
  PROVE  Component(G, a) \cap Component(G, b) = {}
<1>1. ASSUME NEW c \in G.node, NEW d \in G.node, c \notin Component(G, d)
      PROVE  Component(G, c) \cap Component(G, d) = {}
  <2>. DEFINE outside == Reach(G) \ Component(G, d)
  <2>1. IsClosed(Component(G, d), G.edge)
    BY ComponentIsClosed
  <2>2. \A e \in G.edge : e[1] \in Reach(G) /\ e[2] \in Reach(G)
    BY DEF Reach
  <2>3. IsClosed(outside, G.edge) /\ c \in outside
    BY <1>1, <2>1, <2>2 DEF IsClosed, Reach
  <2>. HIDE DEF outside
  <2>4. Component(G, c) \subseteq outside
    BY <2>3, ComponentIsClosed
  <2>. QED
    BY <2>4 DEF outside
<1>2. ASSUME NEW c \in G.node, NEW d \in G.node, c \in Component(G, d)
      PROVE  Component(G, c) \subseteq Component(G, d)
  <2>1. IsClosed(Component(G, d), G.edge)
    BY ComponentIsClosed
  <2>. QED
    BY <1>2, <2>1, ComponentIsClosed
<1>3. CASE a \in Component(G, b) /\ b \in Component(G, a)
  BY <1>2, <1>3
<1>. QED
  BY <1>1, <1>3

(***************************************************************************)
(* The graph of a crawl.                                                   *)
(***************************************************************************)
SeedAddresses == Elements(NormalizeAll(Seeds))

\* Whatever closed set a found address is in, a seed is in it: the addresses found are
\* those the seeds lead to.  And what leads anywhere leads to finitely many.
FoundFromSeeds ==
  /\ IsFiniteSet({e[2] : e \in edges})
  /\ \A C \in SUBSET Addresses :
       IsClosed(C, edges) /\ C \cap (visited \cup Elements(queue)) # {} => C \cap SeedAddresses # {}

LEMMA ElementsAreFinite ==
  ASSUME NEW S, NEW s \in Seq(S)
  PROVE  IsFiniteSet(Elements(s)) /\ Elements(s) \subseteq S
<1>1. Len(s) \in Nat /\ \A i \in 1 .. Len(s) : s[i] \in S
  OBVIOUS
<1>2. IsFiniteSet(1 .. Len(s))
  BY <1>1, FS_Interval
<1>. DEFINE f == [i \in 1 .. Len(s) |-> s[i]]
<1>3. f \in Surjection(1 .. Len(s), Elements(s))
  BY DEF Surjection, Elements
<1>4. IsFiniteSet(Elements(s))
  <2>. HIDE DEF f
  <2>. QED
    BY <1>2, <1>3, FS_Surjection
<1>. QED
  BY <1>1, <1>4 DEF Elements

LEMMA PartOfASequence ==
  ASSUME NEW S, NEW s \in Seq(S), NEW i \in Nat, NEW n \in Nat, 1 <= i, n <= Len(s)
  PROVE  Elements(SubSeq(s, i, n)) \subseteq Elements(s)
BY DEF Elements

LEMMA KeptAreElements ==
  ASSUME NEW S, NEW s \in Seq(S), NEW W \in SUBSET (1 .. Len(s))
  PROVE  Elements(Kept(s, W)) \subseteq Elements(s)
<1>1. Elements(Kept(s, W)) = {s[i] : i \in W}
  BY KeptElements
<1>2. {s[i] : i \in W} \subseteq Elements(s)
  BY DEF Elements
<1>. QED
  BY <1>1, <1>2

\* What is queued was listed.
LEMMA AdmittedAreListed ==
  ASSUME TypeOK, NEW peers \in Seq(Addresses)
  PROVE  Elements(Admitted(peers)) \subseteq Elements(peers)
<1>. DEFINE W == {i \in 1 .. Len(peers) : peers[i] \notin visited /\ ~Enough}
            room == IF Len(queue) < MaxQueueSize THEN MaxQueueSize - Len(queue) ELSE 0
            wanted == Wanted(peers)
<1>1. W \in SUBSET (1 .. Len(peers))
  OBVIOUS
<1>2. wanted = Kept(peers, W)
  BY DEF Wanted
<1>3. wanted \in Seq(Addresses) /\ Elements(wanted) \subseteq Elements(peers)
  <2>. HIDE DEF W
  <2>. QED
    BY <1>1, <1>2, WantedPeers, KeptAreElements
<1>4. Admitted(peers) = IF Len(wanted) <= room THEN wanted ELSE SubSeq(wanted, 1, room)
  BY DEF Admitted
<1>5. room \in Nat
  BY LimitsAreNat DEF TypeOK, MaxQueueSize
<1>. HIDE DEF wanted, room
<1>6. CASE Len(wanted) <= room
  BY <1>3, <1>4, <1>6
<1>7. CASE ~(Len(wanted) <= room)
  <2>1. room <= Len(wanted) /\ 1 \in Nat
    BY <1>3, <1>5, <1>7
  <2>2. Elements(SubSeq(wanted, 1, room)) \subseteq Elements(wanted)
    BY <1>3, <1>5, <2>1, PartOfASequence
  <2>. QED
    BY <1>3, <1>4, <1>7, <2>2
<1>. QED
  BY <1>6, <1>7

LEMMA FoundAtFirst == Init => FoundFromSeeds
<1>. SUFFICES ASSUME Init PROVE FoundFromSeeds
  OBVIOUS
<1>1. {e[2] : e \in edges} = {}
  BY DEF Init
<1>. QED
  BY <1>1, FS_EmptySet DEF Init, FoundFromSeeds, SeedAddresses

LEMMA FoundAfterAStep ==
  ASSUME IInv, FoundFromSeeds, [Next]_vars
  PROVE  FoundFromSeeds'
<1>0. TypeOK
  BY DEF IInv
\* Nothing but an answer adds to what is found.
<1>1. ASSUME edges' = edges, visited' \cup Elements(queue') \subseteq visited \cup Elements(queue)
      PROVE  FoundFromSeeds'
  <2>1. SeedAddresses' = SeedAddresses
    BY DEF SeedAddresses
  <2>. QED
    BY <1>1, <2>1 DEF FoundFromSeeds
<1>2. ASSUME NEW w \in Workers, Take(w)
      PROVE  FoundFromSeeds'
  <2>1. PICK i \in 1 .. Len(queue) :
          queue' = SubSeq(queue, i + 1, Len(queue)) /\ visited' = visited \cup {queue[i]}
    BY <1>2 DEF Take
  <2>2. queue \in Seq(Addresses) /\ Len(queue) \in Nat /\ i + 1 \in Nat /\ 1 <= i + 1
    BY <1>0 DEF TypeOK
  <2>3. Elements(queue') \subseteq Elements(queue)
    BY <2>1, <2>2, PartOfASequence
  <2>4. queue[i] \in Elements(queue)
    BY DEF Elements
  <2>. QED
    BY <1>1, <1>2, <2>1, <2>3, <2>4 DEF Take
<1>3. ASSUME NEW w \in Workers, Leave(w)
      PROVE  FoundFromSeeds'
  <2>1. queue' = queue \/ queue' = <<>>
    BY <1>3 DEF Leave
  <2>2. Elements(queue') \subseteq Elements(queue)
    BY <2>1 DEF Elements
  <2>. QED
    BY <1>1, <1>3, <2>2 DEF Leave
<1>4. ASSUME NEW w \in Workers,
             InfoAnswers(w) \/ RetryInfo(w) \/ Cut(w) \/ InfoFails(w) \/ PeersFail(w)
      PROVE  FoundFromSeeds'
  BY <1>1, <1>4 DEF InfoAnswers, RetryInfo, Cut, InfoFails, PeersFail
<1>5. ASSUME NEW w \in Workers, PeersAnswer(w)
      PROVE  FoundFromSeeds'
  <2>. DEFINE source == worker[w].address
  <2>1. source \in visited
    BY <1>5 DEF PeersAnswer, Waiting, IInv, OneWorkerPerAddress, Requesting
  <2>2. PICK list \in Lists[source[1]] :
          /\ edges' = edges \cup {<<source, target>> : target \in Elements(NormalizeAll(list))}
          /\ queue' = queue \o Admitted(NormalizeAll(list))
    BY <1>5 DEF PeersAnswer
  <2>3. visited' = visited
    BY <1>5 DEF PeersAnswer
  <2>. DEFINE peers == NormalizeAll(list)
  <2>4. peers \in Seq(Addresses)
    <3>1. source \in Addresses /\ CanAnswer(source)
      BY <1>0, <1>5, <2>1 DEF PeersAnswer, TypeOK
    <3>2. list \in Seq(Written)
      BY <2>2, <3>1, PeersAreWritten DEF CanAnswer
    <3>. QED
      BY <3>2, NormalizeAllType
  <2>. HIDE DEF peers
  <2>5. IsFiniteSet(Elements(peers)) /\ Elements(peers) \subseteq Addresses
    BY <2>4, ElementsAreFinite
  <2>6. Admitted(peers) \in Seq(Addresses) /\ Elements(Admitted(peers)) \subseteq Elements(peers)
    BY <1>0, <2>4, AdmittedPeers, AdmittedAreListed
  <2>7. Elements(queue') = Elements(queue) \cup Elements(Admitted(peers))
    BY <1>0, <2>2, <2>6, ElementsOfConcat DEF peers, TypeOK
  <2>8. edges' = edges \cup {<<source, target>> : target \in Elements(peers)}
    BY <2>2 DEF peers
  <2>. HIDE DEF source
  <2>9. IsFiniteSet({e[2] : e \in edges'})
    <3>. DEFINE before == {e[2] : e \in edges}
                after == {e[2] : e \in edges'}
    <3>1. after \subseteq before \cup Elements(peers)
      <4>1. ASSUME NEW e \in edges'
            PROVE  e[2] \in before \cup Elements(peers)
        <5>1. CASE e \in edges
          BY <5>1
        <5>2. CASE e \notin edges
          <6>1. PICK target \in Elements(peers) : e = <<source, target>>
            BY <2>8, <5>2
          <6>. QED
            BY <6>1
        <5>. QED
          BY <5>1, <5>2
      <4>. QED
        BY <4>1
    <3>2. IsFiniteSet(before)
      BY DEF FoundFromSeeds
    <3>. HIDE DEF before, after
    <3>3. IsFiniteSet(before \cup Elements(peers))
      BY <2>5, <3>2, FS_Union
    <3>4. IsFiniteSet(after)
      BY <3>1, <3>3, FS_Subset
    <3>. QED
      BY <3>4 DEF after
  <2>10. ASSUME NEW C \in SUBSET Addresses, IsClosed(C, edges'),
                C \cap (visited' \cup Elements(queue')) # {}
         PROVE  C \cap SeedAddresses # {}
    <3>1. IsClosed(C, edges)
      BY <2>8, <2>10 DEF IsClosed
    <3>2. \A target \in Elements(peers) : target \in C => source \in C
      <4>1. ASSUME NEW target \in Elements(peers), target \in C
            PROVE  source \in C
        <5>1. <<source, target>> \in edges'
          BY <2>8
        <5>. QED
          BY <2>10, <4>1, <5>1 DEF IsClosed
      <4>. QED
        BY <4>1
    <3>3. C \cap (visited \cup Elements(queue)) # {}
      BY <2>1, <2>3, <2>6, <2>7, <2>10, <3>2
    <3>. QED
      BY <3>1, <3>3 DEF FoundFromSeeds
  <2>11. SeedAddresses' = SeedAddresses
    BY DEF SeedAddresses
  <2>. QED
    BY <2>9, <2>10, <2>11 DEF FoundFromSeeds
<1>6. CASE UNCHANGED vars
  BY <1>1, <1>6 DEF vars
<1>. QED
  BY <1>2, <1>3, <1>4, <1>5, <1>6 DEF Next, Proceeds

LEMMA IslandsHaveSeeds ==
  ASSUME IInv, FoundFromSeeds
  PROVE  /\ \A C \in Components(Graph) : C \cap SeedAddresses # {}
         /\ \A C, D \in Components(Graph) : C # D => C \cap D = {}
<1>. DEFINE G == Graph
<1>1. G.node = Crawled /\ G.edge = edges
  BY DEF Graph
<1>. HIDE DEF G
<1>2. edges \subseteq Crawled \X Addresses /\ IsFiniteSet(Crawled) /\ Crawled \subseteq visited
      /\ Crawled \subseteq Addresses
  BY DEF IInv, TypeOK, EdgesComeFromAnswers
<1>3. IsFiniteSet(Reach(G)) /\ Reach(G) \subseteq Addresses
  <2>1. Reach(G) = Crawled \cup {e[2] : e \in edges}
    BY <1>1 DEF Reach
  <2>2. {e[2] : e \in edges} \subseteq Addresses
    BY <1>2
  <2>. QED
    BY <1>2, <2>1, <2>2, FS_Union DEF FoundFromSeeds
<1>4. G.edge \subseteq G.node \X Addresses
  BY <1>1, <1>2
<1>5. ASSUME NEW a \in Crawled
      PROVE  Component(G, a) \cap SeedAddresses # {}
  <2>1. a \in Component(G, a) /\ Component(G, a) \subseteq Addresses /\ IsClosed(Component(G, a), edges)
    BY <1>1, <1>3, <1>4, ComponentIsClosed
  <2>. QED
    BY <1>2, <2>1 DEF FoundFromSeeds
<1>6. ASSUME NEW a \in Crawled, NEW b \in Crawled, Component(G, a) # Component(G, b)
      PROVE  Component(G, a) \cap Component(G, b) = {}
  BY <1>1, <1>3, <1>4, <1>6, ComponentsAreApart
<1>7. Components(Graph) = {Component(G, a) : a \in Crawled}
  BY <1>1 DEF Components, G
<1>. QED
  BY <1>5, <1>6, <1>7

\* A crawl that is over does nothing more.
LEMMA NothingAfterTheEnd == ASSUME Finished PROVE ~Next
BY DEF Finished, Done, Next, Proceeds, Take, Leave, HasTheTurn, RetryInfo, InfoFails, PeersFail,
   InfoAnswers, PeersAnswer, Cut, Waiting

ReportIsOfTheEnd == IsReported => Finished

LEMMA ReportedStays ==
  ASSUME ReportIsOfTheEnd, IsReported, [ReportNext]_<<vars, reportVars>>
  PROVE  UNCHANGED <<vars, reportVars>>
BY NothingAfterTheEnd DEF ReportIsOfTheEnd, ReportNext, Crawling, Report, IsReported

LEMMA ReportIsAtTheEnd == ReportSpec => []ReportIsOfTheEnd
<1>1. ReportInit => ReportIsOfTheEnd
  BY DEF ReportInit, ReportIsOfTheEnd, IsReported
<1>2. ASSUME ReportIsOfTheEnd, [ReportNext]_<<vars, reportVars>>
      PROVE  ReportIsOfTheEnd'
  <2>1. CASE IsReported
    <3>1. UNCHANGED <<vars, reportVars>>
      BY <1>2, <2>1, ReportedStays
    <3>. QED
      BY <1>2, <3>1 DEF ReportIsOfTheEnd, IsReported, Finished, Done, vars, reportVars
  <2>2. CASE Report
    BY <2>2 DEF Report, ReportIsOfTheEnd, Finished, Done, vars
  <2>3. CASE ~IsReported /\ ~Report
    BY <1>2, <2>3 DEF ReportNext, Crawling, reportVars, IsReported, ReportIsOfTheEnd
  <2>. QED
    BY <2>1, <2>2, <2>3
<1>. QED
  BY <1>1, <1>2, PTL DEF ReportSpec

\* Whatever the hosts answered and however the workers' turns fell, the islands that a
\* report counts (findConnectedComponents) are apart, and a seed is in each of them.
THEOREM IslandsAreOfSeeds == ReportSpec => []EveryComponentHasASeed
<1>1. ReportInit => EveryComponentHasASeed
  BY DEF ReportInit, EveryComponentHasASeed, IsReported
<1>2. ASSUME IInv, FoundFromSeeds, ReportIsOfTheEnd, EveryComponentHasASeed,
             [ReportNext]_<<vars, reportVars>>
      PROVE  EveryComponentHasASeed'
  <2>1. CASE IsReported
    BY <1>2, <2>1, ReportedStays DEF EveryComponentHasASeed, IsReported, reportVars
  <2>2. CASE Report
    <3>1. summary'.components = Components(Graph)
      <4>1. summary' \in Summaries(results')
        BY <2>2 DEF Report
      <4>2. PICK ofAnswering, ofAll : summary' = Summary(results', ofAnswering, ofAll)
        BY <4>1 DEF Summaries
      <4>. QED
        BY <4>2 DEF Summary
    <3>. QED
      BY <1>2, <3>1, IslandsHaveSeeds DEF EveryComponentHasASeed, SeedAddresses
  <2>3. CASE ~IsReported /\ ~Report
    BY <1>2, <2>3 DEF ReportNext, Crawling, reportVars, IsReported, EveryComponentHasASeed
  <2>. QED
    BY <2>1, <2>2, <2>3
<1>3. ReportSpec => [](IInv /\ FoundFromSeeds)
  BY ReportImplementsCrawl, Invariance, FoundAtFirst, FoundAfterAStep, PTL DEF FairSpec, Spec
<1>. QED
  BY <1>1, <1>2, <1>3, ReportIsAtTheEnd, PTL DEF ReportSpec

(***************************************************************************)
(* The sections of a report.                                               *)
(***************************************************************************)
LEMMA TableIsItself == ASSUME NEW f PROVE Tabulated(f) = f
BY DEF Tabulated

\* A cluster's kind tells the names apart.
LEMMA NamesDiffer ==
  ASSUME NEW range, NEW isp, NEW city, NEW country
  PROVE  /\ <<"ip24", range>> # NoCluster
         /\ <<"infra", isp, city, country>> # NoCluster
         /\ <<"ip24", range>> # <<"infra", isp, city, country>>
BY DEF NoCluster

LEMMA InRangeIs ==
  ASSUME NEW A
  PROVE  InRange(A) =
           {S \in {{a \in {b \in DOMAIN A : A[b].ipRange24 # Unknown} : A[a].ipRange24 = k} :
                     k \in {A[a].ipRange24 : a \in {b \in DOMAIN A : A[b].ipRange24 # Unknown}}} :
              Cardinality(S) >= Many.range24}
BY DEF InRange, Groups

\* The nodes of a range.
NodesInRange(A, a) == {b \in DOMAIN A : A[b].ipRange24 = A[a].ipRange24}

LEMMA RangesAreWhole ==
  ASSUME NEW A, NEW a \in DOMAIN A
  PROVE  /\ \A S \in InRange(A) :
              a \in S => /\ A[a].ipRange24 # Unknown
                         /\ S = NodesInRange(A, a)
         /\ a \in UNION InRange(A) <=>
              /\ A[a].ipRange24 # Unknown
              /\ SameRange24(A, a) >= Many.range24
<1>. DEFINE known == {b \in DOMAIN A : A[b].ipRange24 # Unknown}
            like == {b \in DOMAIN A : A[b].ipRange24 = A[a].ipRange24}
<1>1. InRange(A) = {S \in {{b \in known : A[b].ipRange24 = k} : k \in {A[b].ipRange24 : b \in known}} :
                      Cardinality(S) >= Many.range24}
  BY InRangeIs
<1>2. ASSUME NEW S \in InRange(A), a \in S
      PROVE  A[a].ipRange24 # Unknown /\ S = like /\ Cardinality(like) >= Many.range24
  <2>1. PICK k \in {A[b].ipRange24 : b \in known} : S = {b \in known : A[b].ipRange24 = k}
    BY <1>1
  <2>2. a \in known /\ A[a].ipRange24 = k
    BY <1>2, <2>1
  <2>3. S = like
    BY <2>1, <2>2
  <2>. QED
    BY <1>1, <2>2, <2>3
<1>3. ASSUME A[a].ipRange24 # Unknown, Cardinality(like) >= Many.range24
      PROVE  a \in UNION InRange(A)
  <2>1. a \in known /\ like = {b \in known : A[b].ipRange24 = A[a].ipRange24}
    BY <1>3
  <2>2. like \in {{b \in known : A[b].ipRange24 = k} : k \in {A[b].ipRange24 : b \in known}}
    BY <2>1
  <2>3. like \in InRange(A) /\ a \in like
    BY <1>1, <1>3, <2>2
  <2>. QED
    BY <2>3
<1>4. SameRange24(A, a) = Cardinality(like)
  BY DEF SameRange24
<1>. HIDE DEF like
<1>. QED
  BY <1>2, <1>3, <1>4 DEF like, NodesInRange

SiteOf(A, a) == <<A[a].place.isp, A[a].place.city, A[a].place.country>>

\* The nodes of a site that have no range in common with enough others.
NodesOnSite(A, a) ==
  {b \in DOMAIN A \ UNION InRange(A) :
     /\ A[b].place.isp # None /\ A[b].place.city # None
     /\ SiteOf(A, b) = SiteOf(A, a)}

LEMMA SitesAreWhole ==
  ASSUME NEW A, NEW S \in OnSite(A), NEW a \in S
  PROVE  /\ a \in DOMAIN A \ UNION InRange(A)
         /\ A[a].place.isp # None /\ A[a].place.city # None
         /\ S = NodesOnSite(A, a)
<1>. DEFINE known == {b \in DOMAIN A \ UNION InRange(A) :
                        /\ A[b].place.isp # None
                        /\ A[b].place.city # None}
<1>1. OnSite(A) = {T \in {{b \in known : SiteOf(A, b) = k} : k \in {SiteOf(A, b) : b \in known}} :
                     Cardinality(T) >= Many.site}
  BY DEF OnSite, Groups, SiteOf
<1>2. PICK k \in {SiteOf(A, b) : b \in known} : S = {b \in known : SiteOf(A, b) = k}
  BY <1>1
<1>3. a \in known /\ SiteOf(A, a) = k
  BY <1>2
<1>. QED
  BY <1>2, <1>3 DEF NodesOnSite

\* What a node's cluster is.
LEMMA ClusteredIs ==
  ASSUME NEW A, NEW a \in DOMAIN A
  PROVE  /\ \A S \in OnSite(A) : a \in S =>
              /\ Clustered(A)[a].members = S
              /\ Clustered(A)[a].clusterId =
                   <<"infra", A[a].place.isp, A[a].place.city, A[a].place.country>>
         /\ \A S \in InRange(A) : a \in S =>
              /\ Clustered(A)[a].members = S
              /\ Clustered(A)[a].clusterId = <<"ip24", A[a].ipRange24>>
         /\ a \notin UNION OnSite(A) /\ a \notin UNION InRange(A) =>
              Clustered(A)[a].clusterId = NoCluster
         /\ "same_ip_range_24" \in Clustered(A)[a].notes <=> a \in UNION InRange(A)
<1>. DEFINE onSite == OnSite(A)
            inRange == InRange(A)
            Cluster(b) ==
              IF \E S \in onSite : b \in S
              THEN [members |-> CHOOSE S \in onSite : b \in S,
                    clusterId |-> <<"infra", A[b].place.isp, A[b].place.city,
                                  A[b].place.country>>,
                    notes |-> {"isp_city_concentration"}
                              \cup IF b \in UNION inRange THEN {"same_ip_range_24"} ELSE {}]
              ELSE IF \E S \in inRange : b \in S
              THEN [members |-> CHOOSE S \in inRange : b \in S,
                    clusterId |-> <<"ip24", A[b].ipRange24>>,
                    notes |-> {"same_ip_range_24"}]
              ELSE [members |-> {}, clusterId |-> NoCluster, notes |-> {}]
            table == [b \in DOMAIN A |-> Cluster(b)]
            cluster == Cluster(a)
<1>1. Clustered(A)[a] = cluster
  <2>1. Clustered(A) = Tabulated(table)
    BY Zenon DEF Clustered
  <2>. HIDE DEF Cluster
  <2>. QED
    BY <2>1, TableIsItself
<1>2. ASSUME NEW S \in onSite, NEW T \in onSite, a \in S, a \in T
      PROVE  S = T
  BY <1>2, SitesAreWhole
<1>3. ASSUME NEW S \in inRange, NEW T \in inRange, a \in S, a \in T
      PROVE  S = T
  <2>1. \A U \in InRange(A) : a \in U => U = NodesInRange(A, a)
    BY RangesAreWhole
  <2>. QED
    BY <1>3, <2>1
<1>4. \A S \in onSite : a \in S => a \notin UNION inRange
  BY SitesAreWhole
<1>. HIDE DEF onSite, inRange
<1>0. /\ \A S, T \in onSite : a \in S /\ a \in T => S = T
      /\ \A S, T \in inRange : a \in S /\ a \in T => S = T
  BY <1>2, <1>3
<1>5. CASE \E S \in onSite : a \in S
  <2>1. cluster.members \in onSite /\ a \in cluster.members
    BY <1>5
  <2>2. /\ cluster.clusterId = <<"infra", A[a].place.isp, A[a].place.city, A[a].place.country>>
        /\ cluster.notes = {"isp_city_concentration"}
                             \cup IF a \in UNION inRange THEN {"same_ip_range_24"} ELSE {}
    BY <1>5
  <2>3. a \notin UNION inRange /\ "same_ip_range_24" \notin cluster.notes
    BY <1>4, <1>5, <2>2
  <2>. HIDE DEF cluster
  <2>. QED
    BY <1>0, <1>1, <1>5, <2>1, <2>2, <2>3 DEF onSite, inRange
<1>6. CASE ~(\E S \in onSite : a \in S) /\ \E S \in inRange : a \in S
  <2>1. cluster.members \in inRange /\ a \in cluster.members
    BY <1>6
  <2>2. cluster.clusterId = <<"ip24", A[a].ipRange24>> /\ cluster.notes = {"same_ip_range_24"}
    BY <1>6
  <2>. HIDE DEF cluster
  <2>. QED
    BY <1>0, <1>1, <1>6, <2>1, <2>2 DEF onSite, inRange
<1>7. CASE ~(\E S \in onSite : a \in S) /\ ~(\E S \in inRange : a \in S)
  <2>1. cluster.clusterId = NoCluster /\ cluster.notes = {}
    BY <1>7
  <2>. HIDE DEF cluster
  <2>. QED
    BY <1>1, <1>7, <2>1 DEF onSite, inRange
<1>. QED
  BY <1>5, <1>6, <1>7

\* The names are those of the members and of no others, and those of ranges are not
\* those of sites.
LEMMA ClustersAreNamed ==
  ASSUME NEW A, NEW a \in DOMAIN A
  PROVE  /\ Clustered(A)[a].clusterId # NoCluster =>
              Clustered(A)[a].members =
                {b \in DOMAIN A : Clustered(A)[b].clusterId = Clustered(A)[a].clusterId}
         /\ \A S \in InRange(A) : a \in S =>
              /\ Clustered(A)[a].members = S
              /\ Clustered(A)[a].clusterId # NoCluster
         /\ a \in UNION InRange(A) <=>
              /\ Clustered(A)[a].clusterId # NoCluster
              /\ Clustered(A)[a].clusterId[1] = "ip24"
<1>. DEFINE Id(b) == Clustered(A)[b].clusterId
            On(b) == b \in UNION OnSite(A)
            In(b) == b \in UNION InRange(A)
            SiteName(b) == <<"infra", A[b].place.isp, A[b].place.city, A[b].place.country>>
            RangeName(b) == <<"ip24", A[b].ipRange24>>
<1>1. ASSUME NEW b \in DOMAIN A, On(b)
      PROVE  /\ Id(b) = SiteName(b) /\ Clustered(A)[b].members = NodesOnSite(A, b)
             /\ NodesOnSite(A, b) \in OnSite(A) /\ ~In(b)
             /\ A[b].place.isp # None /\ A[b].place.city # None
  <2>1. PICK S \in OnSite(A) : b \in S
    BY <1>1
  <2>2. /\ S = NodesOnSite(A, b) /\ ~In(b)
        /\ A[b].place.isp # None /\ A[b].place.city # None
    BY <2>1, SitesAreWhole
  <2>3. Id(b) = SiteName(b) /\ Clustered(A)[b].members = S
    BY <2>1, ClusteredIs
  <2>. QED
    BY <2>2, <2>3
<1>2. ASSUME NEW b \in DOMAIN A, In(b)
      PROVE  /\ Id(b) = RangeName(b) /\ Clustered(A)[b].members = NodesInRange(A, b)
             /\ NodesInRange(A, b) \in InRange(A) /\ ~On(b)
  <2>1. PICK S \in InRange(A) : b \in S
    BY <1>2
  <2>2. S = NodesInRange(A, b)
    BY <2>1, RangesAreWhole
  <2>3. Id(b) = RangeName(b) /\ Clustered(A)[b].members = S
    BY <2>1, ClusteredIs
  <2>4. ~On(b)
    BY <1>1, <1>2
  <2>. QED
    BY <2>1, <2>2, <2>3, <2>4
<1>3. ASSUME NEW b \in DOMAIN A, ~On(b), ~In(b)
      PROVE  Id(b) = NoCluster
  BY <1>3, ClusteredIs
<1>4. \A b, c : /\ SiteName(b) # NoCluster /\ RangeName(b) # NoCluster /\ SiteName(b) # RangeName(c)
                /\ SiteName(b)[1] = "infra" /\ RangeName(b)[1] = "ip24"
                /\ SiteName(b) = SiteName(c) <=> SiteOf(A, b) = SiteOf(A, c)
                /\ RangeName(b) = RangeName(c) <=> A[b].ipRange24 = A[c].ipRange24
  BY NamesDiffer DEF SiteOf
<1>. HIDE DEF SiteName, RangeName
<1>5. ASSUME On(a)
      PROVE  NodesOnSite(A, a) = {b \in DOMAIN A : Id(b) = Id(a)}
  <2>1. ASSUME NEW b \in NodesOnSite(A, a)
        PROVE  b \in DOMAIN A /\ Id(b) = Id(a)
    <3>1. b \in DOMAIN A /\ On(b) /\ SiteOf(A, b) = SiteOf(A, a)
      BY <1>1, <1>5 DEF NodesOnSite
    <3>. QED
      BY <1>1, <1>4, <1>5, <3>1
  <2>2. ASSUME NEW b \in DOMAIN A, Id(b) = Id(a)
        PROVE  b \in NodesOnSite(A, a)
    <3>1. Id(a) = SiteName(a) /\ On(b)
      BY <1>1, <1>2, <1>3, <1>4, <1>5, <2>2
    <3>2. Id(b) = SiteName(b) /\ ~In(b) /\ A[b].place.isp # None /\ A[b].place.city # None
      BY <1>1, <3>1
    <3>3. SiteOf(A, b) = SiteOf(A, a)
      BY <1>4, <2>2, <3>1, <3>2
    <3>. QED
      BY <3>2, <3>3 DEF NodesOnSite
  <2>. HIDE DEF Id
  <2>. QED
    BY <2>1, <2>2
<1>6. ASSUME In(a)
      PROVE  NodesInRange(A, a) = {b \in DOMAIN A : Id(b) = Id(a)}
  <2>1. ASSUME NEW b \in NodesInRange(A, a)
        PROVE  b \in DOMAIN A /\ Id(b) = Id(a)
    <3>1. b \in DOMAIN A /\ In(b) /\ A[b].ipRange24 = A[a].ipRange24
      BY <1>2, <1>6 DEF NodesInRange
    <3>. QED
      BY <1>2, <1>4, <1>6, <3>1
  <2>2. ASSUME NEW b \in DOMAIN A, Id(b) = Id(a)
        PROVE  b \in NodesInRange(A, a)
    <3>1. Id(a) = RangeName(a) /\ In(b)
      BY <1>1, <1>2, <1>3, <1>4, <1>6, <2>2
    <3>2. A[b].ipRange24 = A[a].ipRange24
      BY <1>2, <1>4, <2>2, <3>1
    <3>. QED
      BY <3>2 DEF NodesInRange
  <2>. HIDE DEF Id
  <2>. QED
    BY <2>1, <2>2
<1>7. a \in UNION InRange(A) <=> Id(a) # NoCluster /\ Id(a)[1] = "ip24"
  <2>1. "infra" # "ip24"
    OBVIOUS
  <2>2. CASE On(a)
    BY <1>1, <1>4, <2>1, <2>2
  <2>3. CASE In(a)
    BY <1>2, <1>4, <2>3
  <2>4. CASE ~On(a) /\ ~In(a)
    BY <1>3, <2>4
  <2>. QED
    BY <2>2, <2>3, <2>4
<1>8. \A S \in InRange(A) : a \in S => Clustered(A)[a].members = S /\ Id(a) # NoCluster
  BY <1>2, <1>4, ClusteredIs
<1>9. Id(a) # NoCluster => Clustered(A)[a].members = {b \in DOMAIN A : Id(b) = Id(a)}
  <2>. HIDE DEF On, In
  <2>. QED
    BY <1>1, <1>2, <1>3, <1>5, <1>6
<1>. QED
  BY <1>7, <1>8, <1>9

\* A score adds to an analysis and keeps the rest of it.
LEMMA ScoreKeeps ==
  ASSUME NEW answers, NEW version, NEW r24, NEW r16, NEW place, NEW betweenness, NEW clustering,
         NEW id, NEW size, NEW notes, NEW overall, NEW row,
         row = [isResponsive |-> answers, version |-> version, ipRange24 |-> r24,
                ipRange16 |-> r16, place |-> place, betweenness |-> betweenness,
                clustering |-> clustering, clusterId |-> NoCluster, clusterSize |-> 0,
                suspicionNotes |-> {}, overall |-> 0]
  PROVE  LET scored == [row EXCEPT !.clusterId = id, !.clusterSize = size,
                                   !.suspicionNotes = notes, !.overall = overall]
         IN  /\ scored.isResponsive = row.isResponsive /\ row.isResponsive = answers
             /\ scored.ipRange24 = row.ipRange24 /\ scored.place = row.place
             /\ scored.betweenness = betweenness
             /\ scored.clusterId = id /\ scored.clusterSize = size
             /\ scored.suspicionNotes = notes /\ scored.overall = overall
OBVIOUS

\* The scored analyses of a crawl, from the first ones.
IsScored(A, R) ==
  /\ DOMAIN A = Crawled /\ DOMAIN R = Crawled
  /\ \A a \in Crawled :
       /\ R[a].isResponsive = nodes[a].isResponsive
       /\ R[a].ipRange24 = A[a].ipRange24 /\ R[a].place = A[a].place
       /\ R[a].betweenness = Betweenness(Graph)[a]
       /\ R[a].clusterId = Clustered(A)[a].clusterId
       /\ R[a].clusterSize = Cardinality(Clustered(A)[a].members)
       /\ R[a].suspicionNotes = Noted(A, Clustered(A), a)
       /\ R[a].overall = Overall(A, Clustered(A), a)

LEMMA ScoredIs ==
  ASSUME NEW answered
  PROVE  IsScored(Analyzed(answered), Scored(Analyzed(answered)))
<1>. DEFINE A == Analyzed(answered)
            R == Scored(A)
            K == Clustered(A)
            Row(a) == [isResponsive |-> nodes[a].isResponsive,
                       version |-> IF nodes[a].isResponsive THEN Version[a[1]] ELSE None,
                       ipRange24 |-> RangeOf(Range24, a), ipRange16 |-> RangeOf(Range16, a),
                       place |-> PlaceOf(a, answered),
                       betweenness |-> Betweenness(Graph)[a],
                       clustering |-> ClusteringCoefficient(Graph, a),
                       clusterId |-> NoCluster, clusterSize |-> 0, suspicionNotes |-> {},
                       overall |-> 0]
            After(a) == [A[a] EXCEPT !.clusterId = K[a].clusterId,
                                     !.clusterSize = Cardinality(K[a].members),
                                     !.suspicionNotes = Noted(A, K, a),
                                     !.overall = Overall(A, K, a)]
            rows == [a \in Crawled |-> Row(a)]
<1>1. A = rows
  <2>1. A = Tabulated(rows)
    BY Zenon DEF Analyzed
  <2>. HIDE DEF A, rows
  <2>. QED
    BY <2>1, TableIsItself
<1>2. R = [a \in DOMAIN A |-> After(a)]
  <2>. HIDE DEF A
  <2>. QED
    BY Zenon DEF Scored
<1>. HIDE DEF A, R, K
<1>3. DOMAIN A = Crawled /\ \A a \in Crawled : A[a] = Row(a)
  <2>. HIDE DEF Row
  <2>. QED
    BY <1>1
<1>4. DOMAIN R = Crawled /\ \A a \in Crawled : R[a] = After(a)
  <2>. HIDE DEF After
  <2>. QED
    BY <1>2, <1>3
<1>5. ASSUME NEW a \in Crawled
      PROVE  /\ R[a].isResponsive = nodes[a].isResponsive
             /\ R[a].ipRange24 = A[a].ipRange24 /\ R[a].place = A[a].place
             /\ R[a].betweenness = Betweenness(Graph)[a]
             /\ R[a].clusterId = K[a].clusterId
             /\ R[a].clusterSize = Cardinality(K[a].members)
             /\ R[a].suspicionNotes = Noted(A, K, a)
             /\ R[a].overall = Overall(A, K, a)
  <2>1. A[a] = Row(a) /\ R[a] = After(a)
    BY <1>3, <1>4
  <2>. QED
    BY <2>1, ScoreKeeps
<1>. QED
  BY <1>3, <1>4, <1>5, Zenon DEF IsScored, A, R, K

LEMMA LesserOfTwo ==
  ASSUME NEW a \in Int, NEW b \in Int
  PROVE  Min({a, b}) \in {a, b} /\ Min({a, b}) \in Int
<1>1. \E x \in {a, b} : \A y \in {a, b} : x <= y
  OBVIOUS
<1>2. Min({a, b}) \in {a, b}
  BY <1>1 DEF Min
<1>. QED
  BY <1>2

LEMMA BringsIsInt ==
  ASSUME NEW n \in Nat, NEW many \in Nat, NEW base \in Int, NEW step \in Int, NEW cap \in Int
  PROVE  Brings(n, many, base, step, cap) \in Int
<1>1. (n - many) * step \in Int
  OBVIOUS
<1>2. base + (n - many) * step \in Int
  BY <1>1
<1>. QED
  BY <1>2, LesserOfTwo DEF Brings

LEMMA OverallIsInt ==
  ASSUME NEW A, IsFiniteSet(DOMAIN A), NEW K, NEW a
  PROVE  Overall(A, K, a) \in Int
<1>0. \A i \in {2, 3, 5, 15, 20, 30, 40, 50, 60, 90} : i \in Int
  OBVIOUS
<1>1. ASSUME NEW S, S \subseteq DOMAIN A
      PROVE  Cardinality(S) \in Nat
  BY <1>1, FS_Subset, FS_CardinalityType
<1>2. /\ SameCity(A, a) \in Nat /\ SameIsp(A, a) \in Nat /\ SameAsn(A, a) \in Nat
      /\ SameRange24(A, a) \in Nat /\ SameRange16(A, a) \in Nat
  BY <1>1 DEF SameCity, SameIsp, SameAsn, SameRange24, SameRange16
<1>3. /\ Many.city \in Nat /\ Many.isp \in Nat /\ Many.asn \in Nat
      /\ Many.range24 \in Nat /\ Many.range16 \in Nat
  BY ThresholdsAreNat
<1>4. GeographicScore(A, a) \in Int
  <2>. DEFINE city == Brings(SameCity(A, a), Many.city, 30, 5, 60)
              isp == Brings(SameIsp(A, a), Many.isp, 20, 3, 50)
              asn == Brings(SameAsn(A, a), Many.asn, 20, 2, 40)
              hosted == IF A[a].place.hosting THEN 10 ELSE 0
  <2>1. city \in Int /\ isp \in Int /\ asn \in Int /\ hosted \in Int
    <3>1. city \in Int /\ isp \in Int /\ asn \in Int
      BY <1>0, <1>2, <1>3, BringsIsInt, Zenon
    <3>2. hosted \in Int
      OBVIOUS
    <3>. QED
      BY <3>1, <3>2
  <2>2. GeographicScore(A, a) = Min({100, city + isp + asn + hosted})
    BY Zenon DEF GeographicScore
  <2>. HIDE DEF city, isp, asn, hosted
  <2>3. city + isp + asn + hosted \in Int
    BY <2>1
  <2>. QED
    BY <2>2, <2>3, LesserOfTwo
<1>5. NetworkScore(A, a) \in Int
  <2>. DEFINE narrow == Brings(SameRange24(A, a), Many.range24, 40, 15, 90)
              wide == Brings(SameRange16(A, a), Many.range16, 20, 5, 50)
  <2>1. narrow \in Int /\ wide \in Int
    BY <1>0, <1>2, <1>3, BringsIsInt, Zenon
  <2>2. NetworkScore(A, a) = Min({100, narrow + wide})
    BY Zenon DEF NetworkScore
  <2>. HIDE DEF narrow, wide
  <2>3. narrow + wide \in Int
    BY <2>1
  <2>. QED
    BY <2>2, <2>3, LesserOfTwo
<1>6. InfrastructureScore(A, K, a) \in Int
  BY DEF InfrastructureScore
<1>7. TechnicalScore(A, K, a) \in Int
  BY DEF TechnicalScore
<1>. DEFINE sum == 30 * GeographicScore(A, a) + 30 * NetworkScore(A, a)
                   + 25 * InfrastructureScore(A, K, a) + 15 * TechnicalScore(A, K, a)
<1>8. sum \in Int
  <2>1. \A g, n, i, t \in Int : 30 * g + 30 * n + 25 * i + 15 * t \in Int
    OBVIOUS
  <2>. QED
    BY <1>4, <1>5, <1>6, <1>7, <2>1, Zenon
<1>9. Overall(A, K, a) = Min({10000, sum})
  BY DEF Overall
<1>. HIDE DEF sum
<1>. QED
  BY <1>8, <1>9, LesserOfTwo

\* The note of a range is that of the nodes in it.
LEMMA RangeIsNoted ==
  ASSUME NEW A, NEW a \in DOMAIN A
  PROVE  "same_ip_range_24" \in Noted(A, Clustered(A), a) /\ A[a].ipRange24 # Unknown
           <=> a \in UNION InRange(A)
<1>. DEFINE many == SameRange24(A, a) >= Many.range24
            notes == Clustered(A)[a].notes
<1>1. "same_ip_range_24" \in notes <=> a \in UNION InRange(A)
  BY ClusteredIs
<1>2. a \in UNION InRange(A) <=> A[a].ipRange24 # Unknown /\ many
  BY RangesAreWhole
<1>3. "same_ip_range_24" \in Noted(A, Clustered(A), a) <=> "same_ip_range_24" \in notes \/ many
  BY DEF Noted
<1>. HIDE DEF many, notes
<1>. QED
  BY <1>1, <1>2, <1>3

\* The nodes with a cluster, and the clusters they are in.
InClusters(R) == {a \in DOMAIN R : R[a].clusterId # NoCluster}
ClusterWith(R, id) == {a \in InClusters(R) : R[a].clusterId = id}

ImpactIs(R, S, impact) ==
  /\ impact.totalDatacenterHosted = Cardinality({a \in S : R[a].place.hosting})
  /\ impact.topProviders \in Top(
       {{a \in {b \in S : R[b].place.isp # None} : R[a].place.isp = k} :
          k \in {R[a].place.isp : a \in {b \in S : R[b].place.isp # None}}}, Shown.providers)
  /\ impact.ipRangeConcentration \in Top(
       {T \in {{a \in {b \in S : R[b].ipRange24 # Unknown} : R[a].ipRange24 = k} :
                 k \in {R[a].ipRange24 : a \in {b \in S : R[b].ipRange24 # Unknown}}} :
          Cardinality(T) >= Many.range24}, Shown.ranges)

LEMMA ImpactHas ==
  ASSUME NEW R, NEW S, NEW impact \in Impacts(R, S)
  PROVE  ImpactIs(R, S, impact)
<1>1. PICK providers \in Top(Providers(R, S), Shown.providers),
           ranges \in Top(CrowdedRanges(R, S), Shown.ranges) :
        impact = Impact(R, S, providers, ranges)
  BY DEF Impacts
<1>2. /\ impact.totalDatacenterHosted = Cardinality({a \in S : R[a].place.hosting})
      /\ impact.topProviders = providers /\ impact.ipRangeConcentration = ranges
  BY <1>1 DEF Impact, Count
<1>3. Providers(R, S) =
        {{a \in {b \in S : R[b].place.isp # None} : R[a].place.isp = k} :
           k \in {R[a].place.isp : a \in {b \in S : R[b].place.isp # None}}}
  BY Zenon DEF Providers, KnownGroups, Groups
<1>4. CrowdedRanges(R, S) =
        {T \in {{a \in {b \in S : R[b].ipRange24 # Unknown} : R[a].ipRange24 = k} :
                  k \in {R[a].ipRange24 : a \in {b \in S : R[b].ipRange24 # Unknown}}} :
           Cardinality(T) >= Many.range24}
  BY Zenon DEF CrowdedRanges, Groups
<1>. QED
  BY <1>1, <1>2, <1>3, <1>4, Zenon DEF ImpactIs

ClustersOf(R) == {ClusterWith(R, id) : id \in {R[a].clusterId : a \in InClusters(R)}}
HighIn(R) == {a \in DOMAIN R : R[a].overall > 7000}
MediumIn(R) == {a \in DOMAIN R : R[a].overall > 4000 /\ R[a].overall <= 7000}
LowIn(R) == {a \in DOMAIN R : R[a].overall <= 4000}

SummaryIs(R, report) ==
  /\ report.totalNodesDiscovered = Cardinality(DOMAIN R)
  /\ report.totalNodesResponsive = Cardinality(Answering(R))
  /\ report.totalNodesFailed = Cardinality(DOMAIN R) - Cardinality(Answering(R))
  /\ report.clusteredNodes = Cardinality(InClusters(R))
  /\ report.highCentralization = Cardinality(HighIn(R))
  /\ report.mediumCentralization = Cardinality(MediumIn(R))
  /\ report.lowCentralization = Cardinality(LowIn(R))
  /\ report.clusters = ClustersOf(R)
  /\ ImpactIs(R, Answering(R), report.responsiveNodes)
  /\ ImpactIs(R, DOMAIN R, report.allNodes)

LEMMA LimitIsNat == Shown.providers \in Nat
BY ListsAreCut

\* The first of a list are some of it, as many as it is cut to or all of them, and no
\* other is larger.
LEMMA TopIs ==
  ASSUME NEW groups, IsFiniteSet(groups), NEW n \in Nat, NEW shown \in Top(groups, n)
  PROVE  /\ shown \subseteq groups
         /\ shown = groups \/ Cardinality(shown) = n
         /\ \A S \in shown, T \in groups \ shown : Cardinality(S) >= Cardinality(T)
<1>1. /\ shown \subseteq groups /\ Cardinality(shown) = Min({n, Cardinality(groups)})
      /\ \A S \in shown, T \in groups \ shown : Cardinality(S) >= Cardinality(T)
  BY DEF Top, kSubset
<1>2. Cardinality(groups) \in Nat
  BY FS_CardinalityType
<1>3. Min({n, Cardinality(groups)}) \in {n, Cardinality(groups)}
  BY <1>2, LesserOfTwo
<1>4. Cardinality(shown) = Cardinality(groups) => shown = groups
  BY <1>1, FS_Subset
<1>. QED
  BY <1>1, <1>3, <1>4

LEMMA SummaryHas ==
  ASSUME NEW R, NEW report \in Summaries(R)
  PROVE  SummaryIs(R, report)
<1>0. PICK ofAnswering \in Impacts(R, Answering(R)), ofAll \in Impacts(R, DOMAIN R) :
        report = Summary(R, ofAnswering, ofAll)
  BY DEF Summaries
<1>1. /\ report.responsiveNodes \in Impacts(R, Answering(R))
      /\ report.allNodes \in Impacts(R, DOMAIN R)
  BY <1>0 DEF Summary
<1>2. report.clusters = ClustersOf(R)
  BY <1>0 DEF Summary, Groups, InClusters, ClusterWith, ClustersOf
<1>3. /\ report.totalNodesDiscovered = Cardinality(DOMAIN R)
      /\ report.totalNodesResponsive = Cardinality(Answering(R))
      /\ report.totalNodesFailed = Cardinality(DOMAIN R) - Cardinality(Answering(R))
      /\ report.clusteredNodes = Cardinality(InClusters(R))
  BY <1>0 DEF Summary, Count, InClusters
<1>4. /\ report.highCentralization = Cardinality(HighIn(R))
      /\ report.mediumCentralization = Cardinality(MediumIn(R))
      /\ report.lowCentralization = Cardinality(LowIn(R))
  BY <1>0 DEF Summary, Count, HighIn, MediumIn, LowIn
<1>. QED
  BY <1>1, <1>2, <1>3, <1>4, ImpactHas DEF SummaryIs

LEMMA ThreePartsAddUp ==
  ASSUME NEW S, IsFiniteSet(S), NEW T, NEW U, NEW V, (T \cup U) \cup V = S,
         T \cap U = {}, (T \cup U) \cap V = {}
  PROVE  Cardinality(T) + Cardinality(U) + Cardinality(V) = Cardinality(S)
<1>1. T \subseteq S /\ U \subseteq S /\ V \subseteq S
  OBVIOUS
<1>2. IsFiniteSet(T) /\ IsFiniteSet(U) /\ IsFiniteSet(V)
  BY <1>1, FS_Subset
<1>3. /\ IsFiniteSet(T \cup U)
      /\ Cardinality(T \cup U) = Cardinality(T) + Cardinality(U) - Cardinality({})
  BY <1>2, FS_Union
<1>4. Cardinality(S) = Cardinality(T \cup U) + Cardinality(V) - Cardinality({})
  BY <1>2, <1>3, FS_Union
<1>5. /\ Cardinality(T) \in Nat /\ Cardinality(U) \in Nat /\ Cardinality(V) \in Nat
      /\ Cardinality({}) = 0
  BY <1>2, FS_CardinalityType, FS_EmptySet
<1>. QED
  BY <1>3, <1>4, <1>5

\* The counters of the crawl are the totals of the report.
LEMMA TotalsAreTheCounters ==
  ASSUME IInv, CountsMatch, Finished, NEW A, NEW R, IsScored(A, R)
  PROVE  /\ Cardinality(Answering(R)) = responsive
         /\ Cardinality(DOMAIN R) - Cardinality(Answering(R)) = failed
<1>1. Answering(R) = Responsive /\ DOMAIN R = Crawled
  BY DEF IsScored, Answering, Responsive
<1>2. Answered = {}
  BY DEF Finished, Done, Answered
<1>3. IsFiniteSet(Crawled) /\ Crawled \cap Responsive = Responsive
  BY DEF IInv, Responsive
<1>4. Cardinality(Failed) = Cardinality(Crawled) - Cardinality(Responsive)
  BY <1>3, FS_Difference DEF Failed
<1>5. Cardinality(Answered) = 0 /\ Cardinality(Responsive) \in Nat
  BY <1>2, FS_EmptySet, CountedSetsAreFinite
<1>. QED
  BY <1>1, <1>4, <1>5 DEF CountsMatch

\* Clusters of the report: apart, and as large as their nodes say.
LEMMA ClustersAddUp ==
  ASSUME NEW A, NEW R, IsScored(A, R)
  PROVE  /\ UNION ClustersOf(R) = InClusters(R)
         /\ \A S, T \in ClustersOf(R) : S # T => S \cap T = {}
         /\ \A S \in ClustersOf(R) : \A a \in S : R[a].clusterSize = Cardinality(S)
         /\ InRange(A) = {S \in ClustersOf(R) : \A a \in S : R[a].clusterId[1] = "ip24"}
<1>. DEFINE ids == {R[a].clusterId : a \in InClusters(R)}
            clusters == {ClusterWith(R, id) : id \in ids}
<1>1. \A a \in InClusters(R) : R[a].clusterId \in ids /\ a \in ClusterWith(R, R[a].clusterId)
  BY DEF ClusterWith
<1>2. UNION clusters = InClusters(R)
  <2>1. ASSUME NEW a \in InClusters(R)
        PROVE  a \in UNION clusters
    BY <1>1
  <2>2. ASSUME NEW a \in UNION clusters
        PROVE  a \in InClusters(R)
    BY DEF ClusterWith
  <2>. QED
    BY <2>1, <2>2
<1>3. ASSUME NEW S \in clusters, NEW T \in clusters, S # T
      PROVE  S \cap T = {}
  BY <1>3 DEF ClusterWith
<1>4. ASSUME NEW S \in clusters, NEW a \in S
      PROVE  /\ a \in Crawled /\ S = ClusterWith(R, R[a].clusterId)
             /\ S = Clustered(A)[a].members
             /\ Clustered(A)[a].clusterId # NoCluster
             /\ Clustered(A)[a].clusterId = R[a].clusterId
  <2>1. /\ a \in Crawled /\ a \in DOMAIN A /\ R[a].clusterId # NoCluster
        /\ S = ClusterWith(R, R[a].clusterId)
    BY DEF ClusterWith, InClusters, IsScored
  <2>2. /\ R[a].clusterId = Clustered(A)[a].clusterId
        /\ DOMAIN A = Crawled /\ DOMAIN R = Crawled
        /\ \A b \in Crawled : R[b].clusterId = Clustered(A)[b].clusterId
    BY <2>1 DEF IsScored
  <2>3. Clustered(A)[a].members =
          {b \in DOMAIN A : Clustered(A)[b].clusterId = Clustered(A)[a].clusterId}
    BY <2>1, <2>2, ClustersAreNamed
  <2>4. ClusterWith(R, R[a].clusterId) =
          {b \in DOMAIN A : Clustered(A)[b].clusterId = Clustered(A)[a].clusterId}
    BY <2>1, <2>2 DEF ClusterWith, InClusters
  <2>. QED
    BY <2>1, <2>2, <2>3, <2>4
<1>5. ASSUME NEW S \in clusters, NEW a \in S
      PROVE  R[a].clusterSize = Cardinality(S)
  BY <1>4 DEF IsScored
\* Clusters and ranges have nodes.
<1>6. \A S \in clusters : S # {}
  BY <1>1
<1>7. ASSUME NEW S \in InRange(A)
      PROVE  \E a \in S : a \in DOMAIN A
  BY InRangeIs
<1>8. ASSUME NEW S \in InRange(A)
      PROVE  S \in clusters /\ \A a \in S : R[a].clusterId[1] = "ip24"
  <2>1. PICK a \in S : a \in DOMAIN A
    BY <1>7
  <2>2. ASSUME NEW b \in S, b \in DOMAIN A
        PROVE  /\ R[b].clusterId = Clustered(A)[b].clusterId /\ b \in InClusters(R)
               /\ S = Clustered(A)[b].members /\ R[b].clusterId[1] = "ip24"
    <3>1. /\ S = Clustered(A)[b].members /\ Clustered(A)[b].clusterId # NoCluster
          /\ b \in UNION InRange(A)
      BY <2>2, ClustersAreNamed
    <3>2. Clustered(A)[b].clusterId[1] = "ip24"
      BY <2>2, <3>1, ClustersAreNamed
    <3>. QED
      BY <2>2, <3>1, <3>2 DEF IsScored, InClusters
  <2>3. S = ClusterWith(R, R[a].clusterId)
    <3>1. a \in InClusters(R) /\ S = Clustered(A)[a].members
      BY <2>1, <2>2
    <3>2. a \in ClusterWith(R, R[a].clusterId) /\ ClusterWith(R, R[a].clusterId) \in clusters
      BY <1>1, <3>1
    <3>. QED
      BY <1>4, <3>1, <3>2
  <2>4. \A b \in S : b \in DOMAIN A
    BY <2>3 DEF ClusterWith, InClusters, IsScored
  <2>. QED
    BY <1>1, <2>1, <2>2, <2>3, <2>4
<1>9. ASSUME NEW S \in clusters, \A a \in S : R[a].clusterId[1] = "ip24"
      PROVE  S \in InRange(A)
  <2>1. PICK a \in S : TRUE
    BY <1>6
  <2>2. /\ S = Clustered(A)[a].members /\ a \in DOMAIN A
        /\ Clustered(A)[a].clusterId # NoCluster /\ Clustered(A)[a].clusterId[1] = "ip24"
    BY <1>4, <1>9 DEF IsScored
  <2>3. PICK T \in InRange(A) : a \in T
    BY <2>2, ClustersAreNamed
  <2>4. T = Clustered(A)[a].members
    BY <2>2, <2>3, ClustersAreNamed
  <2>. QED
    BY <2>2, <2>3, <2>4
<1>10. InRange(A) = {S \in clusters : \A a \in S : R[a].clusterId[1] = "ip24"}
  <2>. HIDE DEF clusters
  <2>. QED
    BY <1>8, <1>9
<1>11. ClustersOf(R) = clusters
  BY DEF ClustersOf
<1>. HIDE DEF clusters
<1>. QED
  BY <1>2, <1>3, <1>5, <1>10, <1>11

\* The view of all nodes shows the largest ranges of the clusters.
LEMMA RangesAreShown ==
  ASSUME NEW A, NEW R, IsScored(A, R), NEW impact, ImpactIs(R, DOMAIN R, impact)
  PROVE  impact.ipRangeConcentration \in Top(InRange(A), Shown.ranges)
<1>. DEFINE known == {b \in DOMAIN R : R[b].ipRange24 # Unknown}
            knownFirst == {b \in DOMAIN A : A[b].ipRange24 # Unknown}
            Like(k) == {a \in known : R[a].ipRange24 = k}
            LikeFirst(k) == {a \in knownFirst : A[a].ipRange24 = k}
            keys == {R[a].ipRange24 : a \in known}
            keysFirst == {A[a].ipRange24 : a \in knownFirst}
<1>1. DOMAIN A = DOMAIN R /\ \A a \in DOMAIN R : R[a].ipRange24 = A[a].ipRange24
  BY DEF IsScored
<1>2. known = knownFirst /\ keys = keysFirst /\ \A k : Like(k) = LikeFirst(k)
  BY <1>1
<1>3. impact.ipRangeConcentration
        \in Top({T \in {Like(k) : k \in keys} : Cardinality(T) >= Many.range24}, Shown.ranges)
  BY Zenon DEF ImpactIs
<1>4. InRange(A) = {T \in {LikeFirst(k) : k \in keysFirst} : Cardinality(T) >= Many.range24}
  BY InRangeIs, Zenon
<1>. HIDE DEF known, knownFirst, Like, LikeFirst, keys, keysFirst
<1>5. {Like(k) : k \in keys} = {LikeFirst(k) : k \in keysFirst}
  BY <1>2
<1>. QED
  BY <1>3, <1>4, <1>5

\* What answered is a part of all, but for the providers that are cut from the list.
LEMMA AnsweringArePart ==
  ASSUME NEW R, IsFiniteSet(DOMAIN R), NEW part, NEW whole,
         ImpactIs(R, Answering(R), part), ImpactIs(R, DOMAIN R, whole)
  PROVE  /\ part.totalDatacenterHosted <= whole.totalDatacenterHosted
         /\ \A S \in part.topProviders :
              \/ \E T \in whole.topProviders : S \subseteq T
              \/ /\ IsFull(whole.topProviders)
                 /\ \A T \in whole.topProviders : Cardinality(T) >= Cardinality(S)
<1>. DEFINE some == {a \in Answering(R) : R[a].place.hosting}
            hosted == {a \in DOMAIN R : R[a].place.hosting}
<1>1. some \subseteq hosted /\ hosted \subseteq DOMAIN R
  BY DEF Answering
<1>2. part.totalDatacenterHosted = Cardinality(some)
      /\ whole.totalDatacenterHosted = Cardinality(hosted)
  BY DEF ImpactIs
<1>. HIDE DEF some, hosted
<1>3. Cardinality(some) <= Cardinality(hosted)
  BY <1>1, FS_Subset
<1>4. ASSUME NEW S \in part.topProviders
      PROVE  \/ \E T \in whole.topProviders : S \subseteq T
             \/ /\ IsFull(whole.topProviders)
                /\ \A T \in whole.topProviders : Cardinality(T) >= Cardinality(S)
  <2>. DEFINE Known(U) == {b \in U : R[b].place.isp # None}
              Of(U, k) == {a \in Known(U) : R[a].place.isp = k}
              Keys(U) == {R[a].place.isp : a \in Known(U)}
              ByIsp(U) == {Of(U, k) : k \in Keys(U)}
  <2>1. /\ part.topProviders \in Top(ByIsp(Answering(R)), Shown.providers)
        /\ whole.topProviders \in Top(ByIsp(DOMAIN R), Shown.providers)
    BY Zenon DEF ImpactIs
  <2>2. Known(Answering(R)) \subseteq Known(DOMAIN R)
    BY DEF Answering
  <2>3. Keys(Answering(R)) \subseteq Keys(DOMAIN R)
        /\ \A k : Of(Answering(R), k) \subseteq Of(DOMAIN R, k)
    BY <2>2
  <2>4. /\ ByIsp(DOMAIN R) \subseteq SUBSET DOMAIN R
        /\ ByIsp(Answering(R)) \subseteq SUBSET DOMAIN R
    BY DEF Answering
  <2>5. \A k \in Keys(DOMAIN R) : Of(DOMAIN R, k) \in ByIsp(DOMAIN R)
    OBVIOUS
  <2>6. \A G \in ByIsp(Answering(R)) : \E k \in Keys(Answering(R)) : G = Of(Answering(R), k)
    OBVIOUS
  <2>. HIDE DEF Known, Of, Keys, ByIsp
  <2>7. IsFiniteSet(ByIsp(DOMAIN R)) /\ IsFiniteSet(ByIsp(Answering(R)))
    BY <2>4, FS_SUBSET, FS_Subset
  <2>8. \A G, top : IsFiniteSet(G) /\ top \in Top(G, Shown.providers) =>
          /\ top \subseteq G
          /\ top = G \/ IsFull(top)
          /\ \A T \in top, U \in G \ top : Cardinality(T) >= Cardinality(U)
    BY LimitIsNat, TopIs DEF IsFull
  <2>9. /\ part.topProviders \subseteq ByIsp(Answering(R))
        /\ whole.topProviders \subseteq ByIsp(DOMAIN R)
        /\ whole.topProviders = ByIsp(DOMAIN R) \/ IsFull(whole.topProviders)
        /\ \A T \in whole.topProviders, U \in ByIsp(DOMAIN R) \ whole.topProviders :
             Cardinality(T) >= Cardinality(U)
    BY <2>1, <2>7, <2>8
  <2>10. PICK k \in Keys(Answering(R)) : S = Of(Answering(R), k)
    BY <2>6, <2>9
  <2>11. PICK U \in ByIsp(DOMAIN R) : S \subseteq U
    BY <2>3, <2>5, <2>10
  <2>12. CASE U \in whole.topProviders
    BY <2>11, <2>12
  <2>13. CASE U \notin whole.topProviders
    <3>1. IsFull(whole.topProviders)
          /\ \A T \in whole.topProviders : Cardinality(T) >= Cardinality(U)
      BY <2>9, <2>13
    <3>2. U \subseteq DOMAIN R /\ \A T \in whole.topProviders : T \subseteq DOMAIN R
      BY <2>4, <2>9
    <3>3. IsFiniteSet(U) /\ IsFiniteSet(S)
      BY <2>11, <3>2, FS_Subset
    <3>4. Cardinality(S) <= Cardinality(U) /\ Cardinality(S) \in Nat /\ Cardinality(U) \in Nat
      BY <2>11, <3>3, FS_Subset, FS_CardinalityType
    <3>5. \A T \in whole.topProviders : Cardinality(T) \in Nat
      BY <3>2, FS_Subset, FS_CardinalityType
    <3>. QED
      BY <3>1, <3>4, <3>5
  <2>. QED
    BY <2>12, <2>13
<1>. QED
  BY <1>2, <1>3, <1>4

LEMMA ReportsAddUp ==
  ASSUME IInv, CountsMatch, Finished, NEW A, NEW R, IsScored(A, R),
         NEW report \in Summaries(R)
  PROVE  AddsUp(R, report)
<1>0. SummaryIs(R, report)
  BY SummaryHas
<1>1. /\ DOMAIN R = Crawled /\ DOMAIN A = Crawled /\ IsFiniteSet(Crawled)
  BY DEF IsScored, IInv
<1>2. /\ report.totalNodesDiscovered = Cardinality(Crawled)
      /\ report.totalNodesResponsive = responsive /\ report.totalNodesFailed = failed
  BY <1>0, <1>1, TotalsAreTheCounters DEF SummaryIs
<1>3. /\ ImpactIs(R, Answering(R), report.responsiveNodes)
      /\ ImpactIs(R, DOMAIN R, report.allNodes)
  BY <1>0 DEF SummaryIs
<1>4. report.allNodes.ipRangeConcentration \in Top(InRange(A), Shown.ranges)
  BY <1>3, RangesAreShown
<1>5. /\ report.clusteredNodes = Cardinality(UNION report.clusters)
      /\ \A S, T \in report.clusters : S # T => S \cap T = {}
      /\ \A S \in report.clusters : \A a \in S : R[a].clusterSize = Cardinality(S)
      /\ InRange(A) = {S \in report.clusters : \A a \in S : R[a].clusterId[1] = "ip24"}
  <2>1. report.clusters = ClustersOf(R) /\ report.clusteredNodes = Cardinality(InClusters(R))
    BY <1>0 DEF SummaryIs
  <2>2. /\ UNION ClustersOf(R) = InClusters(R)
        /\ \A S, T \in ClustersOf(R) : S # T => S \cap T = {}
        /\ \A S \in ClustersOf(R) : \A a \in S : R[a].clusterSize = Cardinality(S)
        /\ InRange(A) = {S \in ClustersOf(R) : \A a \in S : R[a].clusterId[1] = "ip24"}
    BY ClustersAddUp, Zenon
  <2>. QED
    BY <2>1, <2>2, Zenon
<1>6. report.highCentralization + report.mediumCentralization + report.lowCentralization
        = Cardinality(Crawled)
  <2>1. \A a \in Crawled : R[a].overall \in Int
    BY <1>1, OverallIsInt DEF IsScored
  <2>2. /\ (HighIn(R) \cup MediumIn(R)) \cup LowIn(R) = Crawled
        /\ HighIn(R) \cap MediumIn(R) = {}
        /\ (HighIn(R) \cup MediumIn(R)) \cap LowIn(R) = {}
    BY <1>1, <2>1 DEF HighIn, MediumIn, LowIn
  <2>3. Cardinality(HighIn(R)) + Cardinality(MediumIn(R)) + Cardinality(LowIn(R))
          = Cardinality(Crawled)
    BY <1>1, <2>2, ThreePartsAddUp
  <2>. QED
    BY <1>0, <2>3 DEF SummaryIs
<1>7. {a \in Crawled : /\ "same_ip_range_24" \in R[a].suspicionNotes
                       /\ R[a].ipRange24 # Unknown} = UNION InRange(A)
  <2>1. ASSUME NEW a \in Crawled
        PROVE  "same_ip_range_24" \in R[a].suspicionNotes /\ R[a].ipRange24 # Unknown
                 <=> a \in UNION InRange(A)
    BY <1>1, RangeIsNoted DEF IsScored
  <2>2. UNION InRange(A) \subseteq Crawled
    BY <1>1, InRangeIs
  <2>. QED
    BY <2>1, <2>2
<1>8. /\ report.responsiveNodes.totalDatacenterHosted <= report.allNodes.totalDatacenterHosted
      /\ \A S \in report.responsiveNodes.topProviders :
           \/ \E T \in report.allNodes.topProviders : S \subseteq T
           \/ /\ IsFull(report.allNodes.topProviders)
              /\ \A T \in report.allNodes.topProviders : Cardinality(T) >= Cardinality(S)
  BY <1>1, <1>3, AnsweringArePart
<1>9. InRange(A) = NetworkClusters(R, report)
  BY <1>5 DEF NetworkClusters
<1>. QED
  BY <1>1, <1>2, <1>4, <1>5, <1>6, <1>7, <1>8, <1>9 DEF AddsUp

\* Whatever was crawled and located, the sections of the report that follows the crawl
\* agree with each other and with the crawl's counters.
THEOREM SectionsAgree == ReportSpec => []ReportAddsUp
<1>1. ReportInit => ReportAddsUp
  BY DEF ReportInit, ReportAddsUp, IsReported
<1>2. ASSUME IInv, CountsMatch, ReportIsOfTheEnd, ReportAddsUp, [ReportNext]_<<vars, reportVars>>
      PROVE  ReportAddsUp'
  <2>1. CASE IsReported
    <3>1. UNCHANGED <<vars, reportVars>>
      BY <1>2, <2>1, ReportedStays
    <3>2. /\ results' = results /\ summary' = summary /\ nodes' = nodes
          /\ responsive' = responsive /\ failed' = failed
      BY <3>1 DEF vars, reportVars
    <3>. QED
      BY <1>2, <2>1, <3>2 DEF ReportAddsUp, AddsUp, NetworkClusters, IsReported, Crawled
  <2>2. CASE Report
    <3>1. PICK answered \in Lookups : results' = Scored(Analyzed(answered))
      BY <2>2 DEF Report
    <3>2. Finished /\ summary' \in Summaries(results') /\ UNCHANGED vars
      BY <2>2 DEF Report
    <3>. DEFINE report == summary'
    <3>. DEFINE R == Scored(Analyzed(answered))
    <3>3. AddsUp(R, report)
      BY <1>2, <3>1, <3>2, ReportsAddUp, ScoredIs
    <3>. HIDE DEF R, report
    <3>4. results' = R /\ summary' = report
      BY <3>1 DEF R, report
    <3>5. Crawled' = Crawled /\ responsive' = responsive /\ failed' = failed
      BY <3>2 DEF vars, Crawled
    <3>6. AddsUp(results, summary)'
      BY <3>3, <3>4, <3>5 DEF AddsUp, NetworkClusters
    <3>. QED
      BY <3>6 DEF ReportAddsUp
  <2>3. CASE ~IsReported /\ ~Report
    BY <1>2, <2>3 DEF ReportNext, Crawling, reportVars, IsReported, ReportAddsUp
  <2>. QED
    BY <2>1, <2>2, <2>3
<1>. QED
  BY <1>1, <1>2, ReportImplementsCrawl, Invariance, StatsAddUp, ReportIsAtTheEnd, PTL
     DEF ReportSpec, FairSpec

(***************************************************************************)
(* Betweenness.  Induction and recursion first, over numbers and over the  *)
(* parts of a finite set, and what folds, sums and products are.           *)
(***************************************************************************)
\* Induction over the numbers up to n, and over the parts of a finite set, for a set of
\* those for which something holds.
LEMMA InductionTo ==
  ASSUME NEW n \in Nat, NEW P, 0 \in P, \A k \in 0 .. n : k \in P /\ k < n => k + 1 \in P
  PROVE  \A k \in 0 .. n : k \in P
<1>. DEFINE bad == {k \in 0 .. n : k \notin P}
<1>1. SUFFICES ASSUME bad # {} PROVE FALSE
  OBVIOUS
<1>2. PICK k \in bad : \A j \in bad : k <= j
  <2>1. bad \in SUBSET Nat
    OBVIOUS
  <2>. HIDE DEF bad
  <2>. QED
    BY <1>1, <2>1, LeastIsThere
<1>3. k \in 0 .. n /\ k \notin P /\ k # 0
  OBVIOUS
<1>4. k - 1 \in 0 .. n /\ k - 1 < n /\ ~(k <= k - 1) /\ (k - 1) + 1 = k
  BY <1>3
<1>5. k - 1 \in P
  BY <1>2, <1>4
<1>. QED
  BY <1>3, <1>4, <1>5

\* Induction over the parts of a finite set: from those with one element less.
LEMMA InductionOverParts ==
  ASSUME NEW T, IsFiniteSet(T), NEW P, {} \in P,
         \A S \in SUBSET T : S # {} /\ (\A x \in S : S \ {x} \in P) => S \in P
  PROVE  \A S \in SUBSET T : S \in P
<1>. DEFINE n == Cardinality(T)
            Q == {k \in Nat : \A S \in SUBSET T : Cardinality(S) = k => S \in P}
<1>1. n \in Nat /\ \A S \in SUBSET T : IsFiniteSet(S) /\ Cardinality(S) \in 0 .. n
  BY FS_CardinalityType, FS_Subset
<1>2. 0 \in Q
  BY <1>1, FS_EmptySet
<1>3. ASSUME NEW k \in 0 .. n, k \in Q
      PROVE  k + 1 \in Q
  <2>1. SUFFICES ASSUME NEW S \in SUBSET T, Cardinality(S) = k + 1 PROVE S \in P
    OBVIOUS
  <2>2. S # {} /\ IsFiniteSet(S)
    BY <1>1, <2>1, FS_EmptySet
  <2>3. ASSUME NEW x \in S
        PROVE  S \ {x} \in P
    <3>1. Cardinality(S \ {x}) = Cardinality(S) - 1
      BY <2>2, FS_RemoveElement
    <3>2. Cardinality(S \ {x}) = k /\ S \ {x} \in SUBSET T
      BY <2>1, <3>1
    <3>. QED
      BY <1>3, <3>2
  <2>. QED
    BY <2>2, <2>3
<1>4. \A k \in 0 .. n : k \in Q
  <2>. HIDE DEF n, Q
  <2>. QED
    BY <1>1, <1>2, <1>3, InductionTo
<1>. QED
  BY <1>1, <1>4

\* A recursion that takes one step at a time, in a set that the steps stay in, has a
\* function that satisfies it.
Iterates(f, n, V, base, step) ==
  /\ f \in [0 .. n -> V]
  /\ f[0] = base
  /\ \A d \in 1 .. n : f[d] = step[<<d, f[d - 1]>>]

\* A recursion over 0 .. n whose steps stay in V has a function that obeys it.
LEMMA RecursionExists ==
  ASSUME NEW n \in Nat, NEW V, NEW base \in V, NEW step \in [(0 .. n) \X V -> V]
  PROVE  \E f : Iterates(f, n, V, base, step)
<1>. DEFINE P == {k \in 0 .. n : \E f : Iterates(f, k, V, base, step)}
<1>1. 0 \in P
  <2>1. Iterates([d \in 0 .. 0 |-> base], 0, V, base, step)
    BY DEF Iterates
  <2>2. \E f : Iterates(f, 0, V, base, step)
    BY <2>1, Zenon
  <2>. QED
    BY <2>2
<1>2. ASSUME NEW k \in 0 .. n, k \in P, k < n
      PROVE  k + 1 \in P
  <2>1. PICK f : Iterates(f, k, V, base, step)
    BY <1>2, Zenon
  <2>. DEFINE g == [d \in 0 .. k + 1 |-> IF d = k + 1 THEN step[<<k + 1, f[k]>>] ELSE f[d]]
  <2>2. k \in 0 .. k /\ k + 1 \in 0 .. n /\ f[k] \in V /\ \A d \in 0 .. k : f[d] \in V
    <3>1. f \in [0 .. k -> V] /\ k \in 0 .. k /\ k + 1 \in 0 .. n
      BY <1>2, <2>1 DEF Iterates
    <3>. QED
      BY <3>1
  <2>3. step[<<k + 1, f[k]>>] \in V
    BY <2>2
  <2>4. g \in [0 .. k + 1 -> V]
    BY <2>2, <2>3
  <2>5. ASSUME NEW d \in 1 .. k + 1
        PROVE  g[d] = step[<<d, g[d - 1]>>]
    <3>1. g[d - 1] = f[d - 1] /\ d \in 0 .. k + 1
      BY <2>5
    <3>2. CASE d = k + 1
      <4>1. d - 1 = k /\ g[d] = step[<<k + 1, f[k]>>]
        BY <3>1, <3>2
      <4>2. g[d] = step[<<d, f[d - 1]>>]
        BY <3>2, <4>1
      <4>. HIDE DEF g
      <4>. QED
        BY <3>1, <4>2
    <3>3. CASE d # k + 1
      <4>1. d \in 1 .. k
        BY <2>5, <3>3
      <4>. QED
        BY <2>1, <3>1, <3>3, <4>1 DEF Iterates
    <3>. QED
      BY <3>2, <3>3
  <2>6. g[0] = base
    BY <2>1 DEF Iterates
  <2>7. Iterates(g, k + 1, V, base, step)
    <3>. HIDE DEF g
    <3>. QED
      BY <2>4, <2>5, <2>6 DEF Iterates
  <2>8. \E h : Iterates(h, k + 1, V, base, step)
    BY <2>7, Zenon
  <2>. QED
    BY <2>2, <2>8
<1>3. n \in P
  <2>. HIDE DEF P
  <2>. QED
    BY <1>1, <1>2, InductionTo
<1>. QED
  BY <1>3

Some(S) == CHOOSE x \in S : TRUE

\* What an operation makes of the values of f on each part of T, whatever the order.
Folds(F, f, T, V, base, op) ==
  /\ F \in [SUBSET T -> V]
  /\ F[{}] = base
  /\ \A S \in SUBSET T : \A x \in S : F[S] = op[<<f[x], F[S \ {x}]>>]

\* The fold over a finite set has a function on its parts.
LEMMA FoldExists ==
  ASSUME NEW T, IsFiniteSet(T), NEW V, NEW base \in V, NEW op \in [V \X V -> V],
         NEW f, \A x \in T : f[x] \in V,
         \A a, b, c \in V : op[<<a, op[<<b, c>>]>>] = op[<<b, op[<<a, c>>]>>]
  PROVE  \E F : Folds(F, f, T, V, base, op)
<1>. DEFINE n == Cardinality(T)
            Taking(h) == [S \in SUBSET T |-> IF S = {} THEN base
                                           ELSE op[<<f[Some(S)], h[S \ {Some(S)}]>>]]
            step == [p \in (0 .. n) \X [SUBSET T -> V] |-> Taking(p[2])]
            start == [S \in SUBSET T |-> base]
<1>1. n \in Nat /\ \A S \in SUBSET T : IsFiniteSet(S) /\ Cardinality(S) \in 0 .. n
  BY FS_CardinalityType, FS_Subset
<1>2. \A S \in SUBSET T : S # {} => Some(S) \in S /\ S \ {Some(S)} \in SUBSET T
  BY DEF Some
<1>3. step \in [(0 .. n) \X [SUBSET T -> V] -> [SUBSET T -> V]]
  BY <1>2
<1>4. PICK H : Iterates(H, n, [SUBSET T -> V], start, step)
  <2>1. start \in [SUBSET T -> V]
    OBVIOUS
  <2>. HIDE DEF n, step, start
  <2>. QED
    BY <1>1, <1>3, <2>1, RecursionExists
<1>5. H \in [0 .. n -> [SUBSET T -> V]] /\ H[0] = start /\ \A d \in 1 .. n : H[d] = Taking(H[d - 1])
  <2>1. ASSUME NEW d \in 1 .. n
        PROVE  H[d] = Taking(H[d - 1])
    <3>1. d - 1 \in 0 .. n /\ d \in 0 .. n
      BY <1>1
    <3>2. <<d, H[d - 1]>> \in (0 .. n) \X [SUBSET T -> V]
      BY <1>4, <3>1 DEF Iterates
    <3>. HIDE DEF Taking
    <3>. QED
      BY <1>4, <3>2 DEF Iterates
  <2>. QED
    BY <1>4, <2>1 DEF Iterates
<1>. DEFINE F == [S \in SUBSET T |-> H[Cardinality(S)][S]]
<1>6. F \in [SUBSET T -> V]
  BY <1>1, <1>5
<1>7. F[{}] = base
  <2>1. Cardinality({}) = 0
    BY FS_EmptySet
  <2>. QED
    BY <1>5, <2>1
<1>8. ASSUME NEW S \in SUBSET T, S # {}
      PROVE  F[S] = op[<<f[Some(S)], F[S \ {Some(S)}]>>]
  <2>1. Cardinality(S) \in 1 .. n /\ Cardinality(S \ {Some(S)}) = Cardinality(S) - 1
    <3>1. IsFiniteSet(S) /\ Cardinality(S) \in 0 .. n /\ Cardinality(S) # 0
      BY <1>1, <1>8, FS_EmptySet
    <3>2. Cardinality(S \ {Some(S)}) = Cardinality(S) - 1
      BY <1>2, <1>8, <3>1, FS_RemoveElement
    <3>. HIDE DEF n
    <3>. QED
      BY <1>1, <3>1, <3>2
  <2>2. H[Cardinality(S)][S] = op[<<f[Some(S)], H[Cardinality(S) - 1][S \ {Some(S)}]>>]
    <3>1. H[Cardinality(S)] = Taking(H[Cardinality(S) - 1])
      BY <1>5, <2>1
    <3>. QED
      BY <1>8, <3>1
  <2>. QED
    BY <1>2, <1>8, <2>1, <2>2
<1>9. \A S \in SUBSET T : \A x \in S : F[S] = op[<<f[x], F[S \ {x}]>>]
  <2>. HIDE DEF F
  <2>. DEFINE P == {S \in SUBSET T : \A x \in S : F[S] = op[<<f[x], F[S \ {x}]>>]}
  <2>1. ASSUME NEW S \in SUBSET T, S # {}, \A x \in S : S \ {x} \in P
        PROVE  S \in P
    <3>. DEFINE c == Some(S)
    <3>1. SUFFICES ASSUME NEW x \in S PROVE F[S] = op[<<f[x], F[S \ {x}]>>]
      OBVIOUS
    <3>2. c \in S /\ F[S] = op[<<f[c], F[S \ {c}]>>]
      BY <1>2, <1>8, <2>1
    <3>. HIDE DEF c
    <3>3. CASE x = c
      BY <3>2, <3>3
    <3>4. CASE x # c
      <4>1. F[S \ {c}] = op[<<f[x], F[(S \ {c}) \ {x}]>>]
        BY <2>1, <3>2, <3>4
      <4>2. F[S \ {x}] = op[<<f[c], F[(S \ {x}) \ {c}]>>]
        BY <2>1, <3>2, <3>4
      <4>3. (S \ {c}) \ {x} = (S \ {x}) \ {c} /\ (S \ {c}) \ {x} \in SUBSET T
        OBVIOUS
      <4>4. f[x] \in V /\ f[c] \in V /\ F[(S \ {c}) \ {x}] \in V
        BY <1>6, <3>2, <4>3
      <4>. DEFINE R == F[(S \ {c}) \ {x}]
      <4>5. F[S \ {c}] = op[<<f[x], R>>] /\ F[S \ {x}] = op[<<f[c], R>>] /\ R \in V
        BY <4>1, <4>2, <4>3, <4>4
      <4>. HIDE DEF R
      <4>6. op[<<f[c], op[<<f[x], R>>]>>] = op[<<f[x], op[<<f[c], R>>]>>]
        BY <4>4, <4>5
      <4>. QED
        BY <3>2, <4>5, <4>6
    <3>. QED
      BY <3>3, <3>4
  <2>2. {} \in P
    OBVIOUS
  <2>3. \A S \in SUBSET T : S \in P
    <3>. HIDE DEF P
    <3>. QED
      BY <2>1, <2>2, InductionOverParts
  <2>. QED
    BY <2>3
<1>. HIDE DEF F
<1>10. Folds(F, f, T, V, base, op)
  BY <1>6, <1>7, <1>9 DEF Folds
<1>. QED
  BY <1>10

SumsTo(g, f, T) ==
  g = [S \in SUBSET T |-> IF S = {} THEN 0 ELSE f[Some(S)] + g[S \ {Some(S)}]]
MultipliesTo(g, T) ==
  g = [S \in SUBSET T |-> IF S = {} THEN 1 ELSE Some(S) * g[S \ {Some(S)}]]

\* A sum is what the function it is defined with gives the set.
LEMMA SumIs ==
  ASSUME NEW f, NEW T
  PROVE  SumFunctionOnSet(f, T) = (CHOOSE g : SumsTo(g, f, T))[T]
BY Zenon DEF SumFunctionOnSet, FoldFunctionOnSet, MapThenFoldSet, SumsTo, Some

\* A product is what the function it is defined with gives the set.
LEMMA ProductIs ==
  ASSUME NEW T
  PROVE  ProductSet(T) = (CHOOSE g : MultipliesTo(g, T))[T]
BY Zenon DEF ProductSet, FoldSet, MapThenFoldSet, MultipliesTo, Some

Plus == [p \in Nat \X Nat |-> p[1] + p[2]]
Times == [p \in (Nat \ {0}) \X (Nat \ {0}) |-> p[1] * p[2]]

\* The product of two natural numbers is one.
LEMMA TimesIsTyped ==
  /\ Times \in [(Nat \ {0}) \X (Nat \ {0}) -> Nat \ {0}]
  /\ \A a, b \in Nat \ {0} : Times[<<a, b>>] = a * b
  /\ \A a, b, c \in Nat \ {0} : Times[<<a, Times[<<b, c>>]>>] = Times[<<b, Times[<<a, c>>]>>]
<1>1. \A a, b \in Nat \ {0} : a * b \in Nat \ {0}
  OBVIOUS
<1>2. \A a, b, c \in Nat \ {0} : a * (b * c) = b * (a * c)
  OBVIOUS
<1>3. \A a, b \in Nat \ {0} : Times[<<a, b>>] = a * b
  BY DEF Times
<1>4. Times \in [(Nat \ {0}) \X (Nat \ {0}) -> Nat \ {0}]
  BY <1>1 DEF Times
<1>5. ASSUME NEW a \in Nat \ {0}, NEW b \in Nat \ {0}, NEW c \in Nat \ {0}
      PROVE  Times[<<a, Times[<<b, c>>]>>] = Times[<<b, Times[<<a, c>>]>>]
  <2>1. b * c \in Nat \ {0} /\ a * c \in Nat \ {0}
    BY <1>1
  <2>2. Times[<<a, b * c>>] = a * (b * c) /\ Times[<<b, a * c>>] = b * (a * c)
    BY <1>3, <2>1
  <2>. QED
    BY <1>2, <1>3, <2>2
<1>. QED
  BY <1>3, <1>4, <1>5

\* The sum over each part of T, and the same for every way to take elements out of it.
LEMMA SumFolds ==
  ASSUME NEW T, IsFiniteSet(T), NEW f, \A x \in T : f[x] \in Nat
  PROVE  \E F : /\ Folds(F, f, T, Nat, 0, Plus)
                /\ \A S \in SUBSET T : SumFunctionOnSet(f, S) = F[S]
<1>1. Plus \in [Nat \X Nat -> Nat] /\ \A a, b \in Nat : Plus[<<a, b>>] = a + b
  BY DEF Plus
<1>2. \A a, b, c \in Nat : Plus[<<a, Plus[<<b, c>>]>>] = Plus[<<b, Plus[<<a, c>>]>>]
  BY <1>1
<1>3. PICK F : Folds(F, f, T, Nat, 0, Plus)
  BY <1>1, <1>2, FoldExists
<1>4. ASSUME NEW S \in SUBSET T
      PROVE  SumFunctionOnSet(f, S) = F[S]
  <2>. DEFINE g == [R \in SUBSET S |-> F[R]]
  <2>1. \A R \in SUBSET S : R # {} => Some(R) \in R /\ R \ {Some(R)} \in SUBSET S
    BY DEF Some
  <2>2. SumsTo(g, f, S)
    <3>1. ASSUME NEW R \in SUBSET S
          PROVE  F[R] = IF R = {} THEN 0 ELSE f[Some(R)] + F[R \ {Some(R)}]
      <4>1. CASE R = {}
        BY <1>3, <4>1 DEF Folds
      <4>2. CASE R # {}
        <5>1. F[R] = Plus[<<f[Some(R)], F[R \ {Some(R)}]>>]
          BY <1>3, <2>1, <4>2 DEF Folds
        <5>2. f[Some(R)] \in Nat /\ F[R \ {Some(R)}] \in Nat
          BY <1>3, <2>1, <4>2 DEF Folds
        <5>. QED
          BY <1>1, <4>2, <5>1, <5>2
      <4>. QED
        BY <4>1, <4>2
    <3>. QED
      BY <2>1, <3>1 DEF SumsTo
  <2>. DEFINE h == CHOOSE k : SumsTo(k, f, S)
  <2>3. SumsTo(h, f, S)
    BY <2>2, Zenon
  <2>. HIDE DEF g, h
  <2>4. \A R \in SUBSET S : h[R] = IF R = {} THEN 0 ELSE f[Some(R)] + h[R \ {Some(R)}]
    BY <2>3 DEF SumsTo
  <2>5. \A R \in SUBSET S : g[R] = IF R = {} THEN 0 ELSE f[Some(R)] + g[R \ {Some(R)}]
    BY <2>2 DEF SumsTo
  <2>. DEFINE P == {R \in SUBSET S : h[R] = g[R]}
  <2>6. {} \in P
    BY <2>4, <2>5
  <2>7. ASSUME NEW R \in SUBSET S, R # {}, \A x \in R : R \ {x} \in P
        PROVE  R \in P
    <3>1. h[R \ {Some(R)}] = g[R \ {Some(R)}]
      BY <2>1, <2>7
    <3>. QED
      BY <2>4, <2>5, <2>7, <3>1
  <2>8. \A R \in SUBSET S : R \in P
    <3>1. IsFiniteSet(S)
      BY FS_Subset
    <3>. HIDE DEF P
    <3>. QED
      BY <2>6, <2>7, <3>1, InductionOverParts
  <2>9. h[S] = g[S] /\ g[S] = F[S]
    <3>1. h[S] = g[S]
      BY <2>8
    <3>. QED
      BY <3>1 DEF g
  <2>. QED
    BY <2>9, SumIs DEF h
<1>. QED
  BY <1>3, <1>4

\* A sum is that of an element and of the others.
LEMMA SumOf ==
  ASSUME NEW T, IsFiniteSet(T), NEW f, \A x \in T : f[x] \in Nat
  PROVE  /\ SumFunctionOnSet(f, T) \in Nat
         /\ T = {} => SumFunctionOnSet(f, T) = 0
         /\ \A x \in T : SumFunctionOnSet(f, T) = f[x] + SumFunctionOnSet(f, T \ {x})
<1>1. PICK F : /\ Folds(F, f, T, Nat, 0, Plus)
               /\ \A S \in SUBSET T : SumFunctionOnSet(f, S) = F[S]
  BY SumFolds
<1>2. \A S \in SUBSET T : F[S] \in Nat
  BY <1>1 DEF Folds
<1>3. ASSUME NEW x \in T
      PROVE  SumFunctionOnSet(f, T) = f[x] + SumFunctionOnSet(f, T \ {x})
  <2>1. F[T] = Plus[<<f[x], F[T \ {x}]>>] /\ f[x] \in Nat /\ F[T \ {x}] \in Nat
    BY <1>1, <1>2 DEF Folds
  <2>2. F[T] = f[x] + F[T \ {x}]
    BY <2>1 DEF Plus
  <2>. QED
    BY <1>1, <2>2
<1>. QED
  BY <1>1, <1>2, <1>3 DEF Folds

\* Two functions with the same values have the same sum.
LEMMA SameSum ==
  ASSUME NEW T, IsFiniteSet(T), NEW f, NEW g, \A x \in T : f[x] \in Nat /\ g[x] = f[x]
  PROVE  SumFunctionOnSet(g, T) = SumFunctionOnSet(f, T)
<1>. DEFINE P == {S \in SUBSET T : SumFunctionOnSet(g, S) = SumFunctionOnSet(f, S)}
<1>1. ASSUME NEW S \in SUBSET T
      PROVE  IsFiniteSet(S) /\ \A x \in S : f[x] \in Nat /\ g[x] \in Nat /\ g[x] = f[x]
  BY FS_Subset
<1>2. {} \in P
  BY <1>1, SumOf
<1>3. ASSUME NEW S \in SUBSET T, S # {}, \A x \in S : S \ {x} \in P
      PROVE  S \in P
  <2>1. PICK x \in S : TRUE
    BY <1>3
  <2>2. SumFunctionOnSet(f, S) = f[x] + SumFunctionOnSet(f, S \ {x})
    BY <1>1, SumOf
  <2>3. SumFunctionOnSet(g, S) = g[x] + SumFunctionOnSet(g, S \ {x})
    BY <1>1, SumOf
  <2>. QED
    BY <1>1, <1>3, <2>2, <2>3
<1>4. \A S \in SUBSET T : S \in P
  <2>. HIDE DEF P
  <2>. QED
    BY <1>2, <1>3, InductionOverParts
<1>. QED
  BY <1>4

\* A sum is more than zero where one of its terms is, and no less than any of them.
LEMMA PositiveSum ==
  ASSUME NEW T, IsFiniteSet(T), NEW f, \A x \in T : f[x] \in Nat
  PROVE  SumFunctionOnSet(f, T) > 0 <=> \E x \in T : f[x] > 0
<1>. DEFINE P == {S \in SUBSET T : SumFunctionOnSet(f, S) > 0 => \E x \in S : f[x] > 0}
<1>1. ASSUME NEW S \in SUBSET T
      PROVE  /\ SumFunctionOnSet(f, S) \in Nat /\ (S = {} => SumFunctionOnSet(f, S) = 0)
             /\ \A x \in S : SumFunctionOnSet(f, S) = f[x] + SumFunctionOnSet(f, S \ {x})
  <2>1. IsFiniteSet(S) /\ \A x \in S : f[x] \in Nat
    BY FS_Subset
  <2>. QED
    BY <2>1, SumOf
<1>2. {} \in P
  <2>1. SumFunctionOnSet(f, {}) = 0
    BY <1>1
  <2>. QED
    BY <2>1
<1>3. ASSUME NEW S \in SUBSET T, S # {}, \A x \in S : S \ {x} \in P
      PROVE  S \in P
  <2>1. PICK x \in S : TRUE
    BY <1>3
  <2>2. SumFunctionOnSet(f, S) = f[x] + SumFunctionOnSet(f, S \ {x})
    BY <1>1
  <2>3. f[x] \in Nat /\ SumFunctionOnSet(f, S \ {x}) \in Nat
    BY <1>1
  <2>. QED
    BY <1>3, <2>2, <2>3
<1>4. \A Q \in SUBSET T : Q \in P
  <2>. HIDE DEF P
  <2>. QED
    BY <1>2, <1>3, InductionOverParts
<1>5. ASSUME NEW x \in T, f[x] > 0
      PROVE  SumFunctionOnSet(f, T) > 0
  <2>1. SumFunctionOnSet(f, T) = f[x] + SumFunctionOnSet(f, T \ {x})
    BY <1>1
  <2>2. SumFunctionOnSet(f, T \ {x}) \in Nat
    BY <1>1
  <2>. QED
    BY <1>5, <2>1, <2>2
<1>. QED
  BY <1>4, <1>5

\* Where a function is zero its terms may be left out.
LEMMA SumOfPart ==
  ASSUME NEW T, IsFiniteSet(T), NEW R \in SUBSET T, NEW f, NEW g,
         \A x \in R : f[x] \in Nat /\ g[x] = f[x], \A x \in T \ R : g[x] = 0
  PROVE  SumFunctionOnSet(g, T) = SumFunctionOnSet(f, R)
<1>. DEFINE P == {S \in SUBSET T : SumFunctionOnSet(g, S) = SumFunctionOnSet(f, S \cap R)}
<1>1. ASSUME NEW S \in SUBSET T
      PROVE  /\ SumFunctionOnSet(g, S) \in Nat /\ (S = {} => SumFunctionOnSet(g, S) = 0)
             /\ \A x \in S : SumFunctionOnSet(g, S) = g[x] + SumFunctionOnSet(g, S \ {x})
  <2>1. IsFiniteSet(S) /\ \A x \in S : g[x] \in Nat
    BY FS_Subset
  <2>. QED
    BY <2>1, SumOf
<1>2. ASSUME NEW S \in SUBSET R
      PROVE  /\ SumFunctionOnSet(f, S) \in Nat /\ (S = {} => SumFunctionOnSet(f, S) = 0)
             /\ \A x \in S : SumFunctionOnSet(f, S) = f[x] + SumFunctionOnSet(f, S \ {x})
  <2>1. IsFiniteSet(S) /\ \A x \in S : f[x] \in Nat
    BY FS_Subset
  <2>. QED
    BY <2>1, SumOf
<1>3. {} \in P
  <2>1. {} \cap R = {}
    OBVIOUS
  <2>. QED
    BY <1>1, <1>2, <2>1
<1>4. ASSUME NEW S \in SUBSET T, S # {}, \A x \in S : S \ {x} \in P
      PROVE  S \in P
  <2>1. PICK x \in S : TRUE
    BY <1>4
  <2>2. SumFunctionOnSet(g, S) = g[x] + SumFunctionOnSet(f, (S \ {x}) \cap R)
    BY <1>1, <1>4
  <2>3. CASE x \in R
    <3>1. (S \ {x}) \cap R = (S \cap R) \ {x} /\ x \in S \cap R /\ S \cap R \in SUBSET R
      BY <2>3
    <3>2. SumFunctionOnSet(f, S \cap R) = f[x] + SumFunctionOnSet(f, (S \cap R) \ {x})
      BY <1>2, <3>1
    <3>. QED
      BY <2>2, <2>3, <3>1, <3>2
  <2>4. CASE x \notin R
    <3>1. (S \ {x}) \cap R = S \cap R /\ g[x] = 0 /\ S \cap R \in SUBSET R
      BY <2>4
    <3>2. SumFunctionOnSet(f, S \cap R) \in Nat
      BY <1>2, <3>1
    <3>. QED
      BY <2>2, <3>1, <3>2
  <2>. QED
    BY <2>3, <2>4
<1>5. \A Q \in SUBSET T : Q \in P
  <2>. HIDE DEF P
  <2>. QED
    BY <1>3, <1>4, InductionOverParts
<1>6. T \cap R = R
  OBVIOUS
<1>. QED
  BY <1>5, <1>6

\* A factor of every term is one of the sum.
LEMMA SumOfMultiples ==
  ASSUME NEW T, IsFiniteSet(T), NEW c \in Nat, NEW f, NEW g,
         \A x \in T : f[x] \in Nat /\ g[x] = c * f[x]
  PROVE  SumFunctionOnSet(g, T) = c * SumFunctionOnSet(f, T)
<1>. DEFINE P == {S \in SUBSET T : SumFunctionOnSet(g, S) = c * SumFunctionOnSet(f, S)}
<1>1. \A x \in T : g[x] \in Nat
  OBVIOUS
<1>2. ASSUME NEW S \in SUBSET T
      PROVE  /\ SumFunctionOnSet(g, S) \in Nat /\ (S = {} => SumFunctionOnSet(g, S) = 0)
             /\ \A x \in S : SumFunctionOnSet(g, S) = g[x] + SumFunctionOnSet(g, S \ {x})
  <2>1. IsFiniteSet(S) /\ \A x \in S : g[x] \in Nat
    BY <1>1, FS_Subset
  <2>. QED
    BY <2>1, SumOf
<1>3. ASSUME NEW S \in SUBSET T
      PROVE  /\ SumFunctionOnSet(f, S) \in Nat /\ (S = {} => SumFunctionOnSet(f, S) = 0)
             /\ \A x \in S : SumFunctionOnSet(f, S) = f[x] + SumFunctionOnSet(f, S \ {x})
  <2>1. IsFiniteSet(S) /\ \A x \in S : f[x] \in Nat
    BY FS_Subset
  <2>. QED
    BY <2>1, SumOf
<1>4. {} \in P
  <2>1. SumFunctionOnSet(f, {}) = 0 /\ SumFunctionOnSet(g, {}) = 0
    BY <1>2, <1>3
  <2>. QED
    BY <2>1
<1>5. ASSUME NEW S \in SUBSET T, S # {}, \A x \in S : S \ {x} \in P
      PROVE  S \in P
  <2>1. PICK x \in S : TRUE
    BY <1>5
  <2>. DEFINE a == f[x]
              b == SumFunctionOnSet(f, S \ {x})
  <2>2. a \in Nat /\ b \in Nat /\ SumFunctionOnSet(f, S) = a + b
    BY <1>3
  <2>3. SumFunctionOnSet(g, S) = c * a + c * b
    BY <1>2, <1>5
  <2>. HIDE DEF a, b
  <2>4. c * (a + b) = c * a + c * b
    BY <2>2
  <2>. QED
    BY <2>2, <2>3, <2>4
<1>6. \A Q \in SUBSET T : Q \in P
  <2>. HIDE DEF P
  <2>. QED
    BY <1>4, <1>5, InductionOverParts
<1>. QED
  BY <1>6

\* The sum of two functions.
LEMMA SumOfTwo ==
  ASSUME NEW T, IsFiniteSet(T), NEW f, NEW g, NEW h,
         \A x \in T : f[x] \in Nat /\ g[x] \in Nat /\ h[x] = f[x] + g[x]
  PROVE  SumFunctionOnSet(h, T) = SumFunctionOnSet(f, T) + SumFunctionOnSet(g, T)
<1>. DEFINE P == {S \in SUBSET T : SumFunctionOnSet(h, S)
                                     = SumFunctionOnSet(f, S) + SumFunctionOnSet(g, S)}
<1>1. \A x \in T : f[x] \in Nat /\ g[x] \in Nat /\ h[x] \in Nat
  OBVIOUS
<1>2. ASSUME NEW k, \A x \in T : k[x] \in Nat, NEW S \in SUBSET T
      PROVE  /\ SumFunctionOnSet(k, S) \in Nat /\ (S = {} => SumFunctionOnSet(k, S) = 0)
             /\ \A x \in S : SumFunctionOnSet(k, S) = k[x] + SumFunctionOnSet(k, S \ {x})
  <2>1. IsFiniteSet(S) /\ \A x \in S : k[x] \in Nat
    BY <1>2, FS_Subset
  <2>. QED
    BY <2>1, SumOf
<1>3. {} \in P
  <2>1. SumFunctionOnSet(f, {}) = 0 /\ SumFunctionOnSet(g, {}) = 0 /\ SumFunctionOnSet(h, {}) = 0
    BY <1>1, <1>2
  <2>. QED
    BY <2>1
<1>4. ASSUME NEW S \in SUBSET T, S # {}, \A x \in S : S \ {x} \in P
      PROVE  S \in P
  <2>1. PICK x \in S : TRUE
    BY <1>4
  <2>. DEFINE b == SumFunctionOnSet(f, S \ {x})
              c == SumFunctionOnSet(g, S \ {x})
  <2>2. b \in Nat /\ SumFunctionOnSet(f, S) = f[x] + b
    BY <1>1, <1>2
  <2>3. c \in Nat /\ SumFunctionOnSet(g, S) = g[x] + c
    BY <1>1, <1>2
  <2>4. SumFunctionOnSet(h, S) = h[x] + (b + c)
    <3>1. SumFunctionOnSet(h, S) = h[x] + SumFunctionOnSet(h, S \ {x})
      BY <1>1, <1>2
    <3>2. S \ {x} \in P
      BY <1>4
    <3>. QED
      BY <3>1, <3>2
  <2>. HIDE DEF b, c
  <2>. QED
    BY <1>1, <2>1, <2>2, <2>3, <2>4
<1>5. \A Q \in SUBSET T : Q \in P
  <2>. HIDE DEF P
  <2>. QED
    BY <1>3, <1>4, InductionOverParts
<1>. QED
  BY <1>5

\* A sum of sums, in the one order and in the other.
AreNumbers(F, S, T) == \A x \in S, y \in T : F[<<x, y>>] \in Nat
AreRows(rows, F, S, T) ==
  \A x \in S : rows[x] = SumFunctionOnSet([y \in T |-> F[<<x, y>>]], T)
AreColumns(columns, F, S, T) ==
  \A y \in T : columns[y] = SumFunctionOnSet([x \in S |-> F[<<x, y>>]], S)

\* A double sum may be taken in either order.
LEMMA SumsSwap ==
  ASSUME NEW S, IsFiniteSet(S), NEW T, IsFiniteSet(T), NEW F, NEW rows, NEW columns,
         AreNumbers(F, S, T), AreRows(rows, F, S, T), AreColumns(columns, F, S, T)
  PROVE  SumFunctionOnSet(rows, S) = SumFunctionOnSet(columns, T)
<1>. DEFINE Column(y) == [x \in S |-> F[<<x, y>>]]
            Upto(R) == [y \in T |-> SumFunctionOnSet(Column(y), R)]
            P == {R \in SUBSET S : SumFunctionOnSet(rows, R) = SumFunctionOnSet(Upto(R), T)}
<1>1. ASSUME NEW x \in S
      PROVE  rows[x] \in Nat
  <2>. DEFINE f == [y \in T |-> F[<<x, y>>]]
  <2>1. \A y \in T : f[y] \in Nat
    BY DEF AreNumbers
  <2>2. rows[x] = SumFunctionOnSet(f, T)
    BY DEF AreRows
  <2>. HIDE DEF f
  <2>. QED
    BY <2>1, <2>2, SumOf
<1>2. ASSUME NEW R \in SUBSET S
      PROVE  /\ SumFunctionOnSet(rows, R) \in Nat /\ (R = {} => SumFunctionOnSet(rows, R) = 0)
             /\ \A x \in R : SumFunctionOnSet(rows, R) = rows[x] + SumFunctionOnSet(rows, R \ {x})
  <2>1. IsFiniteSet(R) /\ \A x \in R : rows[x] \in Nat
    BY <1>1, FS_Subset
  <2>. QED
    BY <2>1, SumOf
<1>3. ASSUME NEW R \in SUBSET S, NEW y \in T
      PROVE  /\ SumFunctionOnSet(Column(y), R) \in Nat
             /\ R = {} => SumFunctionOnSet(Column(y), R) = 0
             /\ \A x \in R : SumFunctionOnSet(Column(y), R)
                               = F[<<x, y>>] + SumFunctionOnSet(Column(y), R \ {x})
  <2>. DEFINE f == Column(y)
  <2>1. IsFiniteSet(R) /\ \A x \in R : f[x] \in Nat /\ f[x] = F[<<x, y>>]
    BY FS_Subset DEF AreNumbers
  <2>. HIDE DEF f
  <2>2. /\ SumFunctionOnSet(f, R) \in Nat /\ (R = {} => SumFunctionOnSet(f, R) = 0)
        /\ \A x \in R : SumFunctionOnSet(f, R) = f[x] + SumFunctionOnSet(f, R \ {x})
    BY <2>1, SumOf
  <2>. QED
    BY <2>1, <2>2 DEF f
<1>. HIDE DEF Column
<1>4. {} \in P
  <2>. DEFINE u == Upto({})
  <2>1. \A y \in T : u[y] = 0
    BY <1>3
  <2>. HIDE DEF u
  <2>2. ~(SumFunctionOnSet(u, T) > 0) /\ SumFunctionOnSet(u, T) \in Nat
    BY <2>1, PositiveSum, SumOf
  <2>3. SumFunctionOnSet(rows, {}) = 0
    BY <1>2
  <2>. QED
    BY <2>2, <2>3 DEF u
<1>5. ASSUME NEW R \in SUBSET S, R # {}, \A x \in R : R \ {x} \in P
      PROVE  R \in P
  <2>1. PICK x \in R : TRUE
    BY <1>5
  <2>. DEFINE f == [y \in T |-> F[<<x, y>>]]
              u == Upto(R)
              w == Upto(R \ {x})
  <2>2. SumFunctionOnSet(rows, R) = SumFunctionOnSet(f, T) + SumFunctionOnSet(w, T)
    <3>1. SumFunctionOnSet(rows, R) = rows[x] + SumFunctionOnSet(rows, R \ {x})
      BY <1>2
    <3>2. SumFunctionOnSet(rows, R \ {x}) = SumFunctionOnSet(w, T)
      BY <1>5
    <3>3. rows[x] = SumFunctionOnSet(f, T)
      BY DEF AreRows
    <3>. HIDE DEF f, w
    <3>. QED
      BY <3>1, <3>2, <3>3
  <2>3. \A y \in T : f[y] \in Nat /\ w[y] \in Nat /\ u[y] = f[y] + w[y]
    BY <1>3 DEF AreNumbers
  <2>. HIDE DEF f, u, w
  <2>4. SumFunctionOnSet(u, T) = SumFunctionOnSet(f, T) + SumFunctionOnSet(w, T)
    BY <2>3, SumOfTwo
  <2>. QED
    BY <2>2, <2>4 DEF u
<1>6. \A Q \in SUBSET S : Q \in P
  <2>. HIDE DEF P
  <2>. QED
    BY <1>4, <1>5, InductionOverParts
<1>7. SumFunctionOnSet(rows, S) = SumFunctionOnSet(Upto(S), T)
  BY <1>6
<1>. DEFINE u == Upto(S)
<1>8. \A y \in T : columns[y] \in Nat /\ u[y] = columns[y]
  BY <1>3 DEF Column, AreColumns
<1>. HIDE DEF u
<1>9. SumFunctionOnSet(u, T) = SumFunctionOnSet(columns, T)
  BY <1>8, SameSum
<1>. QED
  BY <1>7, <1>9 DEF u

\* The sum over other names of the same terms, one for each.
LEMMA SumRenamed ==
  ASSUME NEW T, IsFiniteSet(T), NEW h, NEW f, NEW g,
         \A x \in T : f[x] \in Nat /\ g[h[x]] = f[x],
         \A x, y \in T : h[x] = h[y] => x = y
  PROVE  SumFunctionOnSet(g, {h[x] : x \in T}) = SumFunctionOnSet(f, T)
<1>. DEFINE Image(S) == {h[x] : x \in S}
            P == {S \in SUBSET T : SumFunctionOnSet(g, Image(S)) = SumFunctionOnSet(f, S)}
<1>1. ASSUME NEW S \in SUBSET T
      PROVE  /\ SumFunctionOnSet(f, S) \in Nat /\ (S = {} => SumFunctionOnSet(f, S) = 0)
             /\ \A x \in S : SumFunctionOnSet(f, S) = f[x] + SumFunctionOnSet(f, S \ {x})
  <2>1. IsFiniteSet(S) /\ \A x \in S : f[x] \in Nat
    BY FS_Subset
  <2>. QED
    BY <2>1, SumOf
<1>2. ASSUME NEW S \in SUBSET T
      PROVE  /\ S = {} => SumFunctionOnSet(g, Image(S)) = 0
             /\ \A y \in Image(S) : SumFunctionOnSet(g, Image(S))
                                      = g[y] + SumFunctionOnSet(g, Image(S) \ {y})
  <2>. DEFINE I == Image(S)
  <2>1. IsFiniteSet(I)
    <3>. DEFINE k == [x \in S |-> h[x]]
    <3>1. IsFiniteSet(S)
      BY FS_Subset
    <3>2. k \in Surjection(S, I)
      BY DEF Surjection
    <3>. HIDE DEF k, I
    <3>. QED
      BY <3>1, <3>2, FS_Surjection
  <2>2. \A y \in I : g[y] \in Nat
    OBVIOUS
  <2>3. S = {} => I = {}
    OBVIOUS
  <2>. HIDE DEF I
  <2>4. /\ I = {} => SumFunctionOnSet(g, I) = 0
        /\ \A y \in I : SumFunctionOnSet(g, I) = g[y] + SumFunctionOnSet(g, I \ {y})
    BY <2>1, <2>2, SumOf
  <2>. QED
    BY <2>3, <2>4 DEF I
<1>3. {} \in P
  BY <1>1, <1>2
<1>4. ASSUME NEW S \in SUBSET T, S # {}, \A x \in S : S \ {x} \in P
      PROVE  S \in P
  <2>1. PICK x \in S : TRUE
    BY <1>4
  <2>2. h[x] \in Image(S) /\ Image(S) \ {h[x]} = Image(S \ {x})
    OBVIOUS
  <2>3. SumFunctionOnSet(g, Image(S)) = g[h[x]] + SumFunctionOnSet(g, Image(S \ {x}))
    <3>. HIDE DEF Image
    <3>1. SumFunctionOnSet(g, Image(S))
            = g[h[x]] + SumFunctionOnSet(g, Image(S) \ {h[x]})
      BY <1>2, <2>2
    <3>. QED
      BY <2>2, <3>1
  <2>4. SumFunctionOnSet(g, Image(S \ {x})) = SumFunctionOnSet(f, S \ {x})
    BY <1>4
  <2>. HIDE DEF Image
  <2>. QED
    BY <1>1, <2>1, <2>3, <2>4
<1>5. \A Q \in SUBSET T : Q \in P
  <2>. HIDE DEF P
  <2>. QED
    BY <1>3, <1>4, InductionOverParts
<1>. QED
  BY <1>5

\* A sum of zeros is zero.
LEMMA SumOfZeros ==
  ASSUME NEW T, IsFiniteSet(T), NEW f, \A x \in T : f[x] = 0
  PROVE  SumFunctionOnSet(f, T) = 0
<1>1. \A x \in T : f[x] \in Nat /\ ~(f[x] > 0)
  OBVIOUS
<1>2. SumFunctionOnSet(f, T) \in Nat
  BY <1>1, SumOf
<1>3. ~(SumFunctionOnSet(f, T) > 0)
  BY <1>1, PositiveSum
<1>. QED
  BY <1>2, <1>3

\* A sum with one term that is not zero is that term.
LEMMA SumOfOne ==
  ASSUME NEW T, IsFiniteSet(T), NEW f, NEW x \in T, f[x] \in Nat, \A y \in T \ {x} : f[y] = 0
  PROVE  SumFunctionOnSet(f, T) = f[x]
<1>1. \A y \in T : f[y] \in Nat
  OBVIOUS
<1>2. SumFunctionOnSet(f, T) = f[x] + SumFunctionOnSet(f, T \ {x})
  BY <1>1, SumOf
<1>3. SumFunctionOnSet(f, T \ {x}) = 0
  <2>1. IsFiniteSet(T \ {x})
    BY FS_Subset
  <2>. QED
    BY <2>1, SumOfZeros
<1>. QED
  BY <1>2, <1>3

(***************************************************************************)
(* Walks, and the distances and shortest paths that they make.             *)
(***************************************************************************)
LastStep(G, before) ==
  [p \in G.node \X G.node |->
     SumFunctionOnSet([u \in G.node |-> before[<<p[1], u>>]], Adjacent(G, p[2]))]

NoStep(G) == [p \in G.node \X G.node |-> IF p[1] = p[2] THEN 1 ELSE 0]

Walking(G, n, walks) ==
  walks = [k \in 0 .. n |-> IF k = 0 THEN NoStep(G) ELSE LastStep(G, walks[k - 1])]

AreWalks(G, W) ==
  LET n == Cardinality(G.node)
  IN  /\ W \in [0 .. n -> [G.node \X G.node -> Nat]]
      /\ \A a, b \in G.node : W[0][<<a, b>>] = IF a = b THEN 1 ELSE 0
      /\ \A k \in 1 .. n : \A a, b \in G.node :
           W[k][<<a, b>>] = SumFunctionOnSet([u \in G.node |-> W[k - 1][<<a, u>>]], Adjacent(G, b))

\* Walks is what obeys its recursion.
LEMMA WalksIs ==
  ASSUME NEW G
  PROVE  Walks(G) = CHOOSE walks : Walking(G, Cardinality(G.node), walks)
<1>. DEFINE n == Cardinality(G.node)
            Recursive(walks) ==
              walks = [k \in 0 .. n |->
                IF k = 0 THEN [p \in G.node \X G.node |-> IF p[1] = p[2] THEN 1 ELSE 0]
                ELSE Tabulated([p \in G.node \X G.node |->
                       SumFunctionOnSet([u \in G.node |-> walks[k - 1][<<p[1], u>>]],
                                        Adjacent(G, p[2]))])]
<1>1. Walks(G) = Tabulated(CHOOSE walks : Recursive(walks))
  BY Zenon DEF Walks
<1>2. \A walks, k : Tabulated([p \in G.node \X G.node |->
                       SumFunctionOnSet([u \in G.node |-> walks[k - 1][<<p[1], u>>]],
                                        Adjacent(G, p[2]))]) = LastStep(G, walks[k - 1])
  BY TableIsItself, Zenon DEF LastStep
<1>3. ASSUME NEW walks
      PROVE  Recursive(walks) <=> Walking(G, n, walks)
  <2>1. [k \in 0 .. n |->
           IF k = 0 THEN [p \in G.node \X G.node |-> IF p[1] = p[2] THEN 1 ELSE 0]
           ELSE Tabulated([p \in G.node \X G.node |->
                  SumFunctionOnSet([u \in G.node |-> walks[k - 1][<<p[1], u>>]],
                                   Adjacent(G, p[2]))])]
          = [k \in 0 .. n |-> IF k = 0 THEN NoStep(G) ELSE LastStep(G, walks[k - 1])]
    BY <1>2, Zenon DEF NoStep
  <2>. QED
    BY <2>1, Zenon DEF Walking
<1>. HIDE DEF Recursive
<1>4. (CHOOSE walks : Recursive(walks)) = (CHOOSE walks : Walking(G, n, walks))
  BY <1>3, Zenon
<1>. QED
  BY <1>1, <1>4, TableIsItself, Zenon

\* One step more of a table of numbers is a table of numbers.
LEMMA LastStepIsTyped ==
  ASSUME NEW G, IsFiniteSet(G.node), NEW before \in [G.node \X G.node -> Nat]
  PROVE  LastStep(G, before) \in [G.node \X G.node -> Nat]
<1>1. ASSUME NEW p \in G.node \X G.node
      PROVE  SumFunctionOnSet([u \in G.node |-> before[<<p[1], u>>]], Adjacent(G, p[2])) \in Nat
  <2>. DEFINE f == [u \in G.node |-> before[<<p[1], u>>]]
              A == Adjacent(G, p[2])
  <2>1. IsFiniteSet(A) /\ \A u \in A : f[u] \in Nat
    <3>1. A \in SUBSET G.node
      BY DEF Adjacent
    <3>. QED
      BY <3>1, FS_Subset
  <2>. HIDE DEF f, A
  <2>2. SumFunctionOnSet(f, A) \in Nat
    BY <2>1, SumOf
  <2>. QED
    BY <2>2 DEF f, A
<1>. QED
  BY <1>1 DEF LastStep

\* A walk of k steps is one of k - 1 steps and a last step.
LEMMA WalksAreWalks ==
  ASSUME NEW G, IsFiniteSet(G.node)
  PROVE  AreWalks(G, Walks(G))
<1>. DEFINE n == Cardinality(G.node)
            V == [G.node \X G.node -> Nat]
            step == [q \in (0 .. n) \X V |-> LastStep(G, q[2])]
            base == NoStep(G)
            W == Walks(G)
<1>1. n \in Nat
  BY FS_CardinalityType
<1>2. base \in V
  BY DEF NoStep
<1>3. step \in [(0 .. n) \X V -> V]
  BY LastStepIsTyped
<1>4. PICK f : Iterates(f, n, V, base, step)
  <2>. HIDE DEF n, V, step, base
  <2>. QED
    BY <1>1, <1>2, <1>3, RecursionExists
<1>5. Walking(G, n, f)
  <2>1. ASSUME NEW k \in 0 .. n
        PROVE  f[k] = IF k = 0 THEN NoStep(G) ELSE LastStep(G, f[k - 1])
    <3>1. CASE k = 0
      BY <1>4, <3>1 DEF Iterates
    <3>2. CASE k # 0
      <4>1. k \in 1 .. n /\ k - 1 \in 0 .. n
        BY <1>1, <3>2
      <4>2. f[k] = step[<<k, f[k - 1]>>] /\ <<k, f[k - 1]>> \in (0 .. n) \X V
        BY <1>4, <4>1 DEF Iterates
      <4>3. f[k] = LastStep(G, f[k - 1])
        BY <4>2
      <4>. QED
        BY <3>2, <4>3
    <3>. QED
      BY <3>1, <3>2
  <2>2. f = [k \in 0 .. n |-> f[k]]
    BY <1>4 DEF Iterates
  <2>. QED
    BY <2>1, <2>2 DEF Walking
<1>6. Walking(G, n, W)
  <2>1. Walking(G, n, CHOOSE walks : Walking(G, n, walks))
    BY <1>5, Zenon
  <2>. QED
    BY <2>1, WalksIs, Zenon
<1>. HIDE DEF W
<1>7. W = [k \in 0 .. n |-> IF k = 0 THEN NoStep(G) ELSE LastStep(G, W[k - 1])]
  BY <1>6 DEF Walking
<1>8. DOMAIN W = 0 .. n /\ W[0] = NoStep(G) /\ \A k \in 1 .. n : W[k] = LastStep(G, W[k - 1])
  <2>1. DOMAIN W = 0 .. n
    BY <1>7
  <2>2. \A k \in 0 .. n : W[k] = IF k = 0 THEN NoStep(G) ELSE LastStep(G, W[k - 1])
    BY <1>7
  <2>. QED
    BY <1>1, <2>1, <2>2
<1>9. \A k \in 0 .. n : W[k] \in V
  <2>. DEFINE P == {k \in 0 .. n : W[k] \in V}
  <2>1. 0 \in P
    BY <1>1, <1>2, <1>8
  <2>2. ASSUME NEW k \in 0 .. n, k \in P, k < n
        PROVE  k + 1 \in P
    <3>1. k + 1 \in 1 .. n /\ k + 1 \in 0 .. n /\ (k + 1) - 1 = k
      BY <1>1, <2>2
    <3>2. W[k + 1] = LastStep(G, W[k])
      BY <1>8, <3>1
    <3>3. LastStep(G, W[k]) \in V
      BY <2>2, LastStepIsTyped
    <3>. QED
      BY <3>1, <3>2, <3>3
  <2>3. \A k \in 0 .. n : k \in P
    <3>. HIDE DEF n, P
    <3>. QED
      BY <1>1, <2>1, <2>2, InductionTo
  <2>. QED
    BY <2>3
<1>10. W \in [0 .. n -> V]
  BY <1>7, <1>9
<1>11. \A a, b \in G.node : W[0][<<a, b>>] = IF a = b THEN 1 ELSE 0
  BY <1>8 DEF NoStep
<1>12. ASSUME NEW k \in 1 .. n, NEW a \in G.node, NEW b \in G.node
       PROVE  W[k][<<a, b>>]
                = SumFunctionOnSet([u \in G.node |-> W[k - 1][<<a, u>>]], Adjacent(G, b))
  <2>1. W[k] = LastStep(G, W[k - 1])
    BY <1>8
  <2>. QED
    BY <2>1 DEF LastStep
<1>. QED
  BY <1>10, <1>11, <1>12 DEF AreWalks, W

\* Adjacency is between two nodes of the graph, and has no direction.
LEMMA AdjacentNodes ==
  ASSUME NEW G, IsFiniteSet(G.node), NEW a \in G.node
  PROVE  /\ Adjacent(G, a) \in SUBSET G.node
         /\ IsFiniteSet(Adjacent(G, a))
         /\ \A b \in G.node : b \in Adjacent(G, a) <=> a \in Adjacent(G, b)
<1>1. Adjacent(G, a) \in SUBSET G.node
  BY DEF Adjacent
<1>. QED
  BY <1>1, FS_Subset DEF Adjacent

\* A walk is a first step and a walk, as it is a walk and a last step.
LEMMA WalksByFirstStep ==
  ASSUME NEW G, IsFiniteSet(G.node), NEW W, AreWalks(G, W)
  PROVE  \A k \in 1 .. Cardinality(G.node) : \A a, b \in G.node :
           W[k][<<a, b>>] = SumFunctionOnSet([x \in G.node |-> W[k - 1][<<x, b>>]], Adjacent(G, a))
<1>. DEFINE n == Cardinality(G.node)
            N == G.node
            From(k, b) == [x \in N |-> W[k - 1][<<x, b>>]]
            To(k, a) == [u \in N |-> W[k - 1][<<a, u>>]]
            P == {k \in 0 .. n : k # 0 =>
                    \A a, b \in N : W[k][<<a, b>>] = SumFunctionOnSet(From(k, b), Adjacent(G, a))}
<1>1. n \in Nat
  BY FS_CardinalityType
<1>2. \A k \in 0 .. n : \A a, b \in N : W[k][<<a, b>>] \in Nat
  BY DEF AreWalks
<1>3. \A k \in 1 .. n : \A a, b \in N : W[k][<<a, b>>] = SumFunctionOnSet(To(k, a), Adjacent(G, b))
  BY DEF AreWalks
<1>4. \A a, b \in N : W[0][<<a, b>>] = IF a = b THEN 1 ELSE 0
  BY DEF AreWalks
<1>5. ASSUME 1 \in 0 .. n, NEW a \in N, NEW b \in N
      PROVE  W[1][<<a, b>>] = SumFunctionOnSet(From(1, b), Adjacent(G, a))
  <2>. DEFINE f == From(1, b)
              g == To(1, a)
              A == Adjacent(G, a)
              B == Adjacent(G, b)
  <2>1. W[1][<<a, b>>] = SumFunctionOnSet(g, B)
    BY <1>3, <1>5
  <2>2. /\ \A x \in N : f[x] = IF x = b THEN 1 ELSE 0
        /\ \A x \in N : g[x] = IF a = x THEN 1 ELSE 0
    BY <1>4, <1>5
  <2>3. A \in SUBSET N /\ B \in SUBSET N /\ IsFiniteSet(A) /\ IsFiniteSet(B) /\ (b \in A <=> a \in B)
    BY AdjacentNodes
  <2>. HIDE DEF f, g, A, B, N
  <2>4. CASE b \in A
    <3>1. f[b] = 1 /\ \A x \in A \ {b} : f[x] = 0
      BY <2>2, <2>3, <2>4
    <3>2. SumFunctionOnSet(f, A) = 1
      BY <2>3, <2>4, <3>1, SumOfOne
    <3>3. g[a] = 1 /\ \A x \in B \ {a} : g[x] = 0
      BY <2>2, <2>3, <2>4
    <3>4. SumFunctionOnSet(g, B) = 1
      BY <2>3, <2>4, <3>3, SumOfOne
    <3>. QED
      BY <2>1, <3>2, <3>4 DEF f, A
  <2>5. CASE b \notin A
    <3>1. (\A x \in A : f[x] = 0) /\ \A x \in B : g[x] = 0
      BY <2>2, <2>3, <2>5
    <3>2. SumFunctionOnSet(f, A) = 0 /\ SumFunctionOnSet(g, B) = 0
      BY <2>3, <3>1, SumOfZeros
    <3>. QED
      BY <2>1, <3>2 DEF f, A
  <2>. QED
    BY <2>4, <2>5
<1>6. ASSUME NEW k \in 1 .. n, k + 1 \in 1 .. n, k \in P, NEW a \in N, NEW b \in N
      PROVE  W[k + 1][<<a, b>>] = SumFunctionOnSet(From(k + 1, b), Adjacent(G, a))
  <2>. DEFINE A == Adjacent(G, a)
              B == Adjacent(G, b)
              F == [p \in B \X A |-> W[k - 1][<<p[2], p[1]>>]]
              rows == To(k + 1, a)
              columns == From(k + 1, b)
  <2>1. A \in SUBSET N /\ B \in SUBSET N /\ IsFiniteSet(A) /\ IsFiniteSet(B)
    BY AdjacentNodes
  <2>2. k \in 0 .. n /\ k - 1 \in 0 .. n /\ (k + 1) - 1 = k /\ k # 0
    BY <1>1, <1>6
  <2>3. \A u \in B, x \in A : F[<<u, x>>] = W[k - 1][<<x, u>>] /\ F[<<u, x>>] \in Nat
    BY <1>2, <2>1, <2>2
  <2>4. ASSUME NEW u \in B
        PROVE  rows[u] = SumFunctionOnSet([x \in A |-> F[<<u, x>>]], A)
    <3>. DEFINE f == From(k, u)
                g == [x \in A |-> F[<<u, x>>]]
    <3>1. \A x \in A : f[x] \in Nat /\ g[x] = f[x]
      BY <1>2, <2>1, <2>2, <2>3, <2>4
    <3>2. rows[u] = SumFunctionOnSet(f, A)
      BY <1>6, <2>1, <2>2
    <3>. HIDE DEF f, g, A
    <3>3. SumFunctionOnSet(g, A) = SumFunctionOnSet(f, A)
      BY <2>1, <3>1, SameSum
    <3>. QED
      BY <3>2, <3>3 DEF g
  <2>5. ASSUME NEW x \in A
        PROVE  columns[x] = SumFunctionOnSet([u \in B |-> F[<<u, x>>]], B)
    <3>. DEFINE f == To(k, x)
                g == [u \in B |-> F[<<u, x>>]]
    <3>1. \A u \in B : f[u] \in Nat /\ g[u] = f[u]
      BY <1>2, <2>1, <2>2, <2>3, <2>5
    <3>2. columns[x] = SumFunctionOnSet(f, B)
      BY <1>3, <1>6, <2>1, <2>2
    <3>. HIDE DEF f, g, B
    <3>3. SumFunctionOnSet(g, B) = SumFunctionOnSet(f, B)
      BY <2>1, <3>1, SameSum
    <3>. QED
      BY <3>2, <3>3 DEF g
  <2>6. W[k + 1][<<a, b>>] = SumFunctionOnSet(rows, B)
    BY <1>3, <1>6
  <2>. HIDE DEF F, rows, columns, A, B
  <2>7. SumFunctionOnSet(rows, B) = SumFunctionOnSet(columns, A)
    <3>1. AreRows(rows, F, B, A)
      BY <2>4 DEF AreRows
    <3>2. AreColumns(columns, F, B, A)
      BY <2>5 DEF AreColumns
    <3>3. AreNumbers(F, B, A)
      BY <2>3 DEF AreNumbers
    <3>. QED
      BY <2>1, <3>1, <3>2, <3>3, SumsSwap
  <2>. QED
    BY <2>6, <2>7 DEF columns, A
<1>7. ASSUME NEW k \in 0 .. n, k \in P, k < n
      PROVE  k + 1 \in P
  <2>1. k + 1 \in 0 .. n /\ k + 1 \in 1 .. n
    BY <1>1, <1>7
  <2>2. CASE k = 0
    <3>1. \A a, b \in N : W[1][<<a, b>>] = SumFunctionOnSet(From(1, b), Adjacent(G, a))
      <4>1. 1 \in 0 .. n
        BY <2>1, <2>2
      <4>. HIDE DEF From, n
      <4>. QED
        BY <1>5, <4>1
    <3>. HIDE DEF From
    <3>. QED
      BY <2>1, <2>2, <3>1
  <2>3. CASE k # 0
    <3>1. k \in 1 .. n
      BY <1>1, <1>7, <2>3
    <3>2. \A a, b \in N : W[k + 1][<<a, b>>] = SumFunctionOnSet(From(k + 1, b), Adjacent(G, a))
      <4>. HIDE DEF From, P
      <4>. QED
        BY <1>6, <1>7, <2>1, <3>1
    <3>. HIDE DEF From
    <3>. QED
      BY <2>1, <3>2
  <2>. QED
    BY <2>2, <2>3
<1>8. \A k \in 0 .. n : k \in P
  <2>1. 0 \in P
    BY <1>1
  <2>. HIDE DEF P, n
  <2>. QED
    BY <1>1, <1>7, <2>1, InductionTo
<1>9. \A k \in 1 .. n : k \in 0 .. n /\ k # 0
  OBVIOUS
<1>. QED
  BY <1>8, <1>9

\* There are as many walks from a to b as from b to a.
LEMMA WalksAreSymmetric ==
  ASSUME NEW G, IsFiniteSet(G.node), NEW W, AreWalks(G, W)
  PROVE  \A k \in 0 .. Cardinality(G.node) : \A a, b \in G.node : W[k][<<a, b>>] = W[k][<<b, a>>]
<1>. DEFINE n == Cardinality(G.node)
            N == G.node
            P == {k \in 0 .. n : \A a, b \in N : W[k][<<a, b>>] = W[k][<<b, a>>]}
<1>1. n \in Nat
  BY FS_CardinalityType
<1>2. \A k \in 0 .. n : \A a, b \in N : W[k][<<a, b>>] \in Nat
  BY DEF AreWalks
<1>3. 0 \in P
  BY <1>1 DEF AreWalks
<1>4. ASSUME NEW k \in 0 .. n, k \in P, k < n
      PROVE  k + 1 \in P
  <2>1. k + 1 \in 0 .. n /\ k + 1 \in 1 .. n /\ (k + 1) - 1 = k
    BY <1>1, <1>4
  <2>2. ASSUME NEW a \in N, NEW b \in N
        PROVE  W[k + 1][<<a, b>>] = W[k + 1][<<b, a>>]
    <3>. DEFINE B == Adjacent(G, b)
                f == [u \in N |-> W[k][<<a, u>>]]
                g == [x \in N |-> W[k][<<x, a>>]]
    <3>1. W[k + 1][<<a, b>>] = SumFunctionOnSet(f, B)
      BY <2>1 DEF AreWalks
    <3>2. W[k + 1][<<b, a>>] = SumFunctionOnSet(g, B)
      BY <2>1, WalksByFirstStep
    <3>3. B \in SUBSET N /\ IsFiniteSet(B)
      BY AdjacentNodes
    <3>4. \A u \in B : g[u] \in Nat /\ f[u] = g[u]
      BY <1>2, <1>4, <3>3
    <3>. HIDE DEF f, g, B
    <3>5. SumFunctionOnSet(f, B) = SumFunctionOnSet(g, B)
      BY <3>3, <3>4, SameSum
    <3>. QED
      BY <3>1, <3>2, <3>5
  <2>. QED
    BY <2>1, <2>2
<1>5. \A k \in 0 .. n : k \in P
  <2>. HIDE DEF P, n
  <2>. QED
    BY <1>1, <1>3, <1>4, InductionTo
<1>. QED
  BY <1>5

\* The distance is the least length of a walk, or one more than any.
LEMMA DistanceIs ==
  ASSUME NEW G, IsFiniteSet(G.node), NEW W, AreWalks(G, W), NEW s \in G.node, NEW t \in G.node
  PROVE  LET n == Cardinality(G.node)
             d == Distance(W, s, t)
         IN  /\ n \in Nat /\ DOMAIN W = 0 .. n /\ d \in 0 .. n + 1
             /\ d <= n => d \in 0 .. n /\ W[d][<<s, t>>] > 0
             /\ \A k \in 0 .. n : W[k][<<s, t>>] > 0 => d <= k
<1>. DEFINE n == Cardinality(G.node)
            d == Distance(W, s, t)
            L == {k \in 0 .. n : W[k][<<s, t>>] > 0} \cup {n + 1}
<1>1. n \in Nat
  BY FS_CardinalityType
<1>2. DOMAIN W = 0 .. n
  BY DEF AreWalks
<1>3. Cardinality(0 .. n) = n + 1
  BY <1>1, FS_Interval
<1>4. d = CHOOSE x \in L : \A y \in L : x <= y
  BY <1>2, <1>3 DEF Distance, Min
<1>5. L \in SUBSET Nat /\ L # {}
  BY <1>1
<1>6. \A x \in L : x \in 0 .. n + 1 /\ (x <= n => x \in 0 .. n /\ W[x][<<s, t>>] > 0)
  BY <1>1
<1>7. \A k \in 0 .. n : W[k][<<s, t>>] > 0 => k \in L
  OBVIOUS
<1>8. d \in L /\ \A y \in L : d <= y
  <2>. HIDE DEF L, d
  <2>. QED
    BY <1>4, <1>5, LeastIsThere
<1>. HIDE DEF L, d, n
<1>. QED
  BY <1>1, <1>2, <1>6, <1>7, <1>8 DEF d, n

Near(G, s, t) == Distance(Walks(G), s, t)
Paths(G, s, t) == ShortestPaths(Walks(G), s, t)

\* The nodes next to t that are one step nearer to s.
Before(G, s, t) == {u \in Adjacent(G, t) : Near(G, s, u) + 1 = Near(G, s, t)}

\* What the distances and the numbers of shortest paths of a finite graph are like.
IsMeasured(G) ==
  LET n == Cardinality(G.node)
  IN  /\ n \in Nat
      /\ \A s, t \in G.node :
           /\ Near(G, s, t) \in 0 .. n + 1
           /\ Near(G, s, t) = 0 <=> s = t
           /\ Near(G, s, t) = Near(G, t, s)
           /\ Paths(G, s, t) \in Nat
           /\ Paths(G, s, t) > 0 <=> Near(G, s, t) <= n
           /\ Paths(G, s, t) = Paths(G, t, s)
           /\ s = t => Paths(G, s, t) = 1
      /\ \A s, t \in G.node : \A u \in Adjacent(G, t) : Near(G, s, t) <= Near(G, s, u) + 1

\* The distances and the numbers of shortest paths of a finite graph, and what they obey.
LEMMA GraphIsMeasured ==
  ASSUME NEW G, IsFiniteSet(G.node)
  PROVE  IsMeasured(G)
<1>. DEFINE n == Cardinality(G.node)
            N == G.node
            W == Walks(G)
<1>1. AreWalks(G, W) /\ n \in Nat
  BY WalksAreWalks, FS_CardinalityType
<1>. HIDE DEF W
<1>2. \A k \in 0 .. n : \A a, b \in N : W[k][<<a, b>>] \in Nat /\ W[k][<<a, b>>] = W[k][<<b, a>>]
  <2>1. \A k \in 0 .. n : \A a, b \in N : W[k][<<a, b>>] \in Nat
    BY <1>1 DEF AreWalks
  <2>2. ASSUME NEW k \in 0 .. n, NEW a \in N, NEW b \in N
        PROVE  W[k][<<a, b>>] = W[k][<<b, a>>]
    BY <1>1, WalksAreSymmetric
  <2>. QED
    BY <2>1, <2>2
<1>3. \A s \in N : \A t \in N : DOMAIN W = 0 .. n /\ Distance(W, s, t) \in 0 .. n + 1
  BY <1>1, DistanceIs
<1>4. \A s \in N : \A t \in N :
        /\ Distance(W, s, t) <= n => /\ Distance(W, s, t) \in 0 .. n
                                     /\ W[Distance(W, s, t)][<<s, t>>] > 0
        /\ \A k \in 0 .. n : W[k][<<s, t>>] > 0 => Distance(W, s, t) <= k
  BY <1>1, DistanceIs
<1>. HIDE DEF n, N
<1>5. ASSUME NEW s \in N, NEW t \in N
      PROVE  Distance(W, s, t) <= Distance(W, t, s)
  <2>. DEFINE d == Distance(W, t, s)
  <2>1. d \in 0 .. n + 1 /\ Distance(W, s, t) \in 0 .. n + 1
    BY <1>3
  <2>2. ASSUME d <= n
        PROVE  Distance(W, s, t) <= d
    <3>1. d \in 0 .. n /\ W[d][<<t, s>>] > 0
      BY <1>4, <2>2
    <3>2. W[d][<<s, t>>] > 0
      BY <1>2, <3>1
    <3>. QED
      BY <1>4, <3>1, <3>2
  <2>. QED
    BY <1>1, <2>1, <2>2
<1>6. ASSUME NEW s \in N, NEW t \in N
      PROVE  Distance(W, s, t) = Distance(W, t, s)
  <2>1. Distance(W, s, t) <= Distance(W, t, s) /\ Distance(W, t, s) <= Distance(W, s, t)
    BY <1>5
  <2>2. Distance(W, s, t) \in 0 .. n + 1 /\ Distance(W, t, s) \in 0 .. n + 1
    BY <1>3
  <2>. QED
    BY <2>1, <2>2
<1>7. ASSUME NEW s \in N, NEW t \in N
      PROVE  Distance(W, s, t) = 0 <=> s = t
  <2>1. W[0][<<s, t>>] = IF s = t THEN 1 ELSE 0
    BY <1>1 DEF AreWalks, N, n
  <2>2. 0 \in 0 .. n /\ Distance(W, s, t) \in 0 .. n + 1
    BY <1>1, <1>3
  <2>3. ASSUME s = t
        PROVE  Distance(W, s, t) = 0
    <3>1. Distance(W, s, t) <= 0
      BY <1>4, <2>1, <2>2, <2>3
    <3>. QED
      BY <2>2, <3>1
  <2>4. ASSUME Distance(W, s, t) = 0
        PROVE  s = t
    <3>1. Distance(W, s, t) <= n
      BY <1>1, <2>4
    <3>2. W[Distance(W, s, t)][<<s, t>>] > 0
      BY <1>4, <3>1
    <3>. QED
      BY <2>1, <2>4, <3>2
  <2>. QED
    BY <2>3, <2>4
<1>8. ASSUME NEW s \in N, NEW t \in N
      PROVE  /\ Distance(W, s, t) <= n => ShortestPaths(W, s, t) = W[Distance(W, s, t)][<<s, t>>]
             /\ ~(Distance(W, s, t) <= n) => ShortestPaths(W, s, t) = 0
<2>1. DOMAIN W = 0 .. n /\ Distance(W, s, t) \in 0 .. n + 1
  BY <1>3
<2>2. Distance(W, s, t) \in DOMAIN W <=> Distance(W, s, t) <= n
  BY <1>1, <2>1
<2>. QED
  BY <2>2 DEF ShortestPaths
<1>9. ASSUME NEW s \in N, NEW t \in N
      PROVE  /\ ShortestPaths(W, s, t) \in Nat
             /\ ShortestPaths(W, s, t) > 0 <=> Distance(W, s, t) <= n
             /\ ShortestPaths(W, s, t) = ShortestPaths(W, t, s)
             /\ s = t => ShortestPaths(W, s, t) = 1
  <2>1. CASE Distance(W, s, t) <= n
    <3>. DEFINE d == Distance(W, s, t)
    <3>1. d \in 0 .. n /\ W[d][<<s, t>>] > 0
      BY <1>4, <2>1
    <3>2. ShortestPaths(W, s, t) = W[d][<<s, t>>]
      BY <1>8, <2>1
    <3>3. ShortestPaths(W, t, s) = W[d][<<t, s>>]
      BY <1>6, <1>8, <2>1
    <3>4. W[d][<<s, t>>] \in Nat /\ W[d][<<s, t>>] = W[d][<<t, s>>]
      BY <1>2, <3>1
    <3>5. s = t => W[d][<<s, t>>] = 1
      <4>1. W[0][<<s, t>>] = IF s = t THEN 1 ELSE 0
        BY <1>1 DEF AreWalks, N, n
      <4>. QED
        BY <1>7, <4>1
    <3>. HIDE DEF d
    <3>. QED
      BY <2>1, <3>1, <3>2, <3>3, <3>4, <3>5
  <2>2. CASE ~(Distance(W, s, t) <= n)
    <3>1. ShortestPaths(W, s, t) = 0 /\ ShortestPaths(W, t, s) = 0
      BY <1>6, <1>8, <2>2
    <3>2. s # t
      BY <1>1, <1>7, <2>2
    <3>. QED
      BY <2>2, <3>1, <3>2
  <2>. QED
    BY <2>1, <2>2
<1>10. ASSUME NEW s \in N, NEW t \in N, NEW u \in Adjacent(G, t)
      PROVE  Distance(W, s, t) <= Distance(W, s, u) + 1
  <2>. DEFINE d == Distance(W, s, u)
              f == [x \in N |-> W[d][<<s, x>>]]
              A == Adjacent(G, t)
  <2>1. A \in SUBSET N /\ IsFiniteSet(A) /\ u \in A /\ u \in N
    BY AdjacentNodes DEF N
  <2>2. d \in 0 .. n + 1 /\ Distance(W, s, t) \in 0 .. n + 1
    BY <1>3, <2>1
  <2>3. ASSUME d < n
        PROVE  Distance(W, s, t) <= d + 1
    <3>1. d + 1 \in 1 .. n /\ d + 1 \in 0 .. n /\ (d + 1) - 1 = d /\ d \in 0 .. n /\ d <= n
      BY <1>1, <2>2, <2>3
    <3>2. W[d + 1][<<s, t>>] = SumFunctionOnSet(f, A)
      BY <1>1, <3>1 DEF AreWalks, n, N
    <3>3. \A x \in A : f[x] \in Nat
      BY <1>2, <2>1, <3>1
    <3>4. f[u] > 0
      BY <1>4, <2>1, <3>1
    <3>5. SumFunctionOnSet(f, A) > 0
      <4>. HIDE DEF f, A
      <4>. QED
        BY <2>1, <3>3, <3>4, PositiveSum
    <3>6. W[d + 1][<<s, t>>] > 0
      BY <3>2, <3>5
    <3>. HIDE DEF d
    <3>. QED
      BY <1>4, <3>1, <3>6
  <2>. HIDE DEF d
  <2>. QED
    BY <1>1, <2>2, <2>3 DEF d
<1>. QED
  BY <1>1, <1>3, <1>6, <1>7, <1>9, <1>10 DEF IsMeasured, Near, Paths, W, n, N

\* The last node but one of a shortest path is one nearer.
LEMMA PathsEndBefore ==
  ASSUME NEW G, IsFiniteSet(G.node), NEW s \in G.node, NEW t \in G.node,
         Near(G, s, t) \in 1 .. Cardinality(G.node)
  PROVE  /\ Before(G, s, t) \in SUBSET G.node /\ IsFiniteSet(Before(G, s, t))
         /\ Before(G, s, t) # {}
         /\ Paths(G, s, t) = SumFunctionOnSet([u \in G.node |-> Paths(G, s, u)], Before(G, s, t))
<1>. DEFINE n == Cardinality(G.node)
            N == G.node
            W == Walks(G)
            d == Near(G, s, t)
            A == Adjacent(G, t)
            B == Before(G, s, t)
            f == [u \in N |-> Paths(G, s, u)]
            g == [u \in N |-> W[d - 1][<<s, u>>]]
<1>1. IsMeasured(G)
  BY GraphIsMeasured
<1>2. A \in SUBSET N /\ IsFiniteSet(A)
  BY AdjacentNodes
<1>3. B \in SUBSET A /\ B \in SUBSET N /\ IsFiniteSet(B)
  <2>1. B \in SUBSET A
    BY DEF Before
  <2>. HIDE DEF A, B
  <2>. QED
    BY <1>2, <2>1, FS_Subset
<1>4. AreWalks(G, W) /\ n \in Nat
  BY WalksAreWalks, FS_CardinalityType
<1>5. d \in 1 .. n /\ d - 1 \in 0 .. n /\ d <= n /\ d - 1 <= n
  BY <1>4
<1>6. ASSUME NEW u \in N
      PROVE  W[d - 1][<<s, u>>] \in Nat
  BY <1>4, <1>5 DEF AreWalks
<1>7. W[d][<<s, t>>] = SumFunctionOnSet(g, A)
  BY <1>4, <1>5 DEF AreWalks
<1>8. DOMAIN W = 0 .. n
  BY <1>4 DEF AreWalks
<1>9. ASSUME NEW u \in N, Near(G, s, u) \in 0 .. n
      PROVE  Paths(G, s, u) = W[Near(G, s, u)][<<s, u>>]
  BY <1>8, <1>9 DEF Paths, ShortestPaths, Near
<1>10. Paths(G, s, t) = W[d][<<s, t>>]
  <2>1. d \in 0 .. n
    BY <1>4, <1>5
  <2>. QED
    BY <1>9, <2>1
<1>11. ASSUME NEW u \in B
       PROVE  f[u] \in Nat /\ g[u] = f[u]
  <2>1. u \in N /\ Near(G, s, u) + 1 = d /\ Near(G, s, u) \in 0 .. n + 1
    BY <1>1, <1>3 DEF Before, IsMeasured
  <2>2. Near(G, s, u) = d - 1
    <3>. HIDE DEF d, n
    <3>. QED
      BY <1>4, <1>5, <2>1
  <2>3. Paths(G, s, u) = W[d - 1][<<s, u>>]
    BY <1>5, <1>9, <2>1, <2>2
  <2>. QED
    BY <1>6, <2>1, <2>3
<1>12. ASSUME NEW u \in A \ B
       PROVE  g[u] = 0
  <2>1. u \in N /\ d <= Near(G, s, u) + 1 /\ Near(G, s, u) \in 0 .. n + 1
    BY <1>1, <1>2 DEF IsMeasured
  <2>2. ~(Near(G, s, u) + 1 = d)
    BY DEF Before
  <2>3. ~(Near(G, s, u) <= d - 1)
    <3>. HIDE DEF d, n
    <3>. QED
      BY <1>4, <1>5, <2>1, <2>2
  <2>4. ~(W[d - 1][<<s, u>>] > 0)
    <3>1. W[d - 1][<<s, u>>] > 0 => Near(G, s, u) <= d - 1
      <4>1. \A k \in 0 .. n : W[k][<<s, u>>] > 0 => Distance(W, s, u) <= k
        BY <1>4, <2>1, DistanceIs
      <4>. QED
        BY <1>5, <4>1 DEF Near
    <3>. QED
      BY <2>3, <3>1
  <2>. QED
    BY <1>6, <2>1, <2>4
<1>13. Paths(G, s, t) = SumFunctionOnSet(f, B)
  <2>. HIDE DEF f, g, A, B, W, d
  <2>1. SumFunctionOnSet(g, A) = SumFunctionOnSet(f, B)
    BY <1>2, <1>3, <1>11, <1>12, SumOfPart
  <2>. QED
    BY <1>7, <1>10, <2>1
<1>14. B # {}
  <2>1. Paths(G, s, t) > 0
    BY <1>1, <1>5 DEF IsMeasured
  <2>. HIDE DEF f, B
  <2>2. B = {} => SumFunctionOnSet(f, B) = 0
    BY <1>3, <1>11, SumOf
  <2>. QED
    BY <1>13, <2>1, <2>2
<1>. QED
  BY <1>3, <1>13, <1>14

\* There is no longer way round.
LEMMA TriangleInequality ==
  ASSUME NEW G, IsFiniteSet(G.node), NEW s \in G.node, NEW u \in G.node
  PROVE  \A t \in G.node : Near(G, s, t) <= Near(G, s, u) + Near(G, u, t)
<1>. DEFINE n == Cardinality(G.node)
            N == G.node
            P == {k \in 0 .. n : \A t \in N : Near(G, u, t) = k => Near(G, s, t) <= Near(G, s, u) + k}
<1>1. IsMeasured(G)
  BY GraphIsMeasured
<1>2. n \in Nat
  BY <1>1 DEF IsMeasured
<1>3. \A a, b \in N : Near(G, a, b) \in 0 .. n + 1 /\ (Near(G, a, b) = 0 <=> a = b)
  BY <1>1 DEF IsMeasured
<1>4. 0 \in P
  <2>1. ASSUME NEW t \in N, Near(G, u, t) = 0
        PROVE  Near(G, s, t) <= Near(G, s, u) + 0
    <3>1. t = u /\ Near(G, s, u) \in 0 .. n + 1
      BY <1>3, <2>1
    <3>. QED
      BY <1>2, <3>1
  <2>. QED
    BY <1>2, <2>1
<1>5. ASSUME NEW k \in 0 .. n, k \in P, k < n
      PROVE  k + 1 \in P
  <2>1. ASSUME NEW t \in N, Near(G, u, t) = k + 1
        PROVE  Near(G, s, t) <= Near(G, s, u) + (k + 1)
    <3>1. Near(G, u, t) \in 1 .. n
      BY <1>2, <1>5, <2>1
    <3>2. PICK x \in Before(G, u, t) : TRUE
      BY <3>1, PathsEndBefore
    <3>3. x \in N /\ x \in Adjacent(G, t) /\ Near(G, u, x) + 1 = k + 1
      BY <2>1, <3>1, <3>2, PathsEndBefore DEF Before
    <3>4. Near(G, u, x) = k
      BY <1>3, <3>3
    <3>5. Near(G, s, x) <= Near(G, s, u) + k
      BY <1>5, <3>3, <3>4
    <3>6. Near(G, s, t) <= Near(G, s, x) + 1
      BY <1>1, <3>3 DEF IsMeasured
    <3>7. Near(G, s, t) \in Int /\ Near(G, s, x) \in Int /\ Near(G, s, u) \in Int
      BY <1>3, <3>3
    <3>. QED
      BY <3>5, <3>6, <3>7
  <2>2. k + 1 \in 0 .. n
    BY <1>2, <1>5
  <2>. QED
    BY <2>1, <2>2
<1>6. \A k \in 0 .. n : k \in P
  <2>. HIDE DEF P, n
  <2>. QED
    BY <1>2, <1>4, <1>5, InductionTo
<1>7. ASSUME NEW t \in N
      PROVE  Near(G, s, t) <= Near(G, s, u) + Near(G, u, t)
  <2>1. Near(G, s, t) \in 0 .. n + 1 /\ Near(G, s, u) \in 0 .. n + 1 /\ Near(G, u, t) \in 0 .. n + 1
    BY <1>3
  <2>2. CASE Near(G, u, t) \in 0 .. n
    BY <1>6, <2>2
  <2>3. CASE Near(G, u, t) = n + 1
    BY <1>2, <2>1, <2>3
  <2>. QED
    BY <1>2, <2>1, <2>2, <2>3
<1>. QED
  BY <1>7

(***************************************************************************)
(* The layers, and the numbers of shortest paths.                          *)
(***************************************************************************)
Nodes(G, s, d) == {v \in G.node : Near(G, s, v) <= d}
Wider(G, X) == X \cup (G.node \cap UNION {Neighbors(G, v) : v \in X})
Widening(G, s, within) ==
  within = [d \in 0 .. Cardinality(G.node) |-> IF d = 0 THEN {s} ELSE Wider(G, within[d - 1])]

\* The nodes within d of the source are those a walk of at most d steps reaches.
LEMMA NodesWiden ==
  ASSUME NEW G, IsFiniteSet(G.node), NEW s \in G.node
  PROVE  /\ Nodes(G, s, 0) = {s}
         /\ \A d \in 1 .. Cardinality(G.node) : Nodes(G, s, d) = Wider(G, Nodes(G, s, d - 1))
<1>. DEFINE n == Cardinality(G.node)
            N == G.node
<1>1. IsMeasured(G)
  BY GraphIsMeasured
<1>2. n \in Nat /\ \A a, b \in N : Near(G, a, b) \in 0 .. n + 1 /\ (Near(G, a, b) = 0 <=> a = b)
  BY <1>1 DEF IsMeasured
<1>3. Nodes(G, s, 0) = {s}
  <2>1. ASSUME NEW v \in N
        PROVE  Near(G, s, v) <= 0 <=> v = s
    BY <1>2
  <2>. QED
    BY <2>1 DEF Nodes
<1>4. ASSUME NEW d \in 1 .. n, NEW v \in Nodes(G, s, d)
      PROVE  v \in Wider(G, Nodes(G, s, d - 1))
  <2>1. v \in N /\ Near(G, s, v) <= d /\ Near(G, s, v) \in 0 .. n + 1
    BY <1>2 DEF Nodes
  <2>2. CASE Near(G, s, v) <= d - 1
    BY <2>1, <2>2 DEF Wider, Nodes
  <2>3. CASE ~(Near(G, s, v) <= d - 1)
    <3>1. Near(G, s, v) = d /\ Near(G, s, v) \in 1 .. n
      BY <1>2, <2>1, <2>3
    <3>2. PICK u \in Before(G, s, v) : TRUE
      BY <2>1, <3>1, PathsEndBefore
    <3>3. u \in N /\ u \in Adjacent(G, v) /\ Near(G, s, u) + 1 = d
      BY <2>1, <3>1, <3>2, PathsEndBefore DEF Before
    <3>4. Near(G, s, u) <= d - 1
      BY <1>2, <3>3
    <3>5. v \in Neighbors(G, u)
      BY <2>1, <3>3 DEF Adjacent, Neighbors
    <3>. QED
      BY <2>1, <3>3, <3>4, <3>5 DEF Wider, Nodes
  <2>. QED
    BY <2>2, <2>3
<1>5. ASSUME NEW d \in 1 .. n, NEW v \in Wider(G, Nodes(G, s, d - 1))
      PROVE  v \in Nodes(G, s, d)
  <2>1. CASE v \in Nodes(G, s, d - 1)
    <3>1. v \in N /\ Near(G, s, v) <= d - 1 /\ Near(G, s, v) \in 0 .. n + 1
      BY <1>2, <2>1 DEF Nodes
    <3>2. Near(G, s, v) <= d
      BY <1>2, <3>1
    <3>. QED
      BY <3>1, <3>2 DEF Nodes
  <2>2. CASE v \notin Nodes(G, s, d - 1)
    <3>1. v \in N
      BY <2>2 DEF Wider
    <3>2. PICK u \in Nodes(G, s, d - 1) : v \in Neighbors(G, u)
      BY <2>2 DEF Wider
    <3>3. u \in N /\ Near(G, s, u) <= d - 1 /\ u # v
      BY <2>2, <3>2 DEF Nodes
    <3>4. u \in Adjacent(G, v)
      BY <3>1, <3>2, <3>3 DEF Adjacent, Neighbors
    <3>5. Near(G, s, v) <= Near(G, s, u) + 1
      BY <1>1, <3>1, <3>4 DEF IsMeasured
    <3>6. Near(G, s, v) \in Int /\ Near(G, s, u) \in Int
      BY <1>2, <3>1, <3>3
    <3>7. Near(G, s, v) <= d
      BY <3>3, <3>5, <3>6
    <3>. QED
      BY <3>1, <3>7 DEF Nodes
  <2>. QED
    BY <2>1, <2>2
<1>. QED
  BY <1>3, <1>4, <1>5

\* Layers is made from what obeys its recursion.
LEMMA LayersIs ==
  ASSUME NEW G, NEW s
  PROVE  LET within == CHOOSE w : Widening(G, s, w)
         IN  Layers(G, s) = [d \in 0 .. Cardinality(G.node) |->
                               IF d = 0 THEN {s} ELSE within[d] \ within[d - 1]]
<1>. DEFINE n == Cardinality(G.node)
            Recursive(within) ==
              within = [d \in 0 .. n |->
                IF d = 0 THEN {s}
                ELSE within[d - 1] \cup (G.node \cap UNION {Neighbors(G, v) : v \in within[d - 1]})]
            Split(within) == [d \in 0 .. n |-> IF d = 0 THEN {s} ELSE within[d] \ within[d - 1]]
<1>1. Layers(G, s) = Tabulated(Split(CHOOSE within : Recursive(within)))
  BY Zenon DEF Layers
<1>2. \A within : Recursive(within) <=> Widening(G, s, within)
  BY DEF Widening, Wider
<1>. HIDE DEF Recursive
<1>3. (CHOOSE within : Recursive(within)) = (CHOOSE within : Widening(G, s, within))
  BY <1>2, Zenon
<1>4. Layers(G, s) = Split(CHOOSE within : Widening(G, s, within))
  <2>. HIDE DEF Split
  <2>. QED
    BY <1>1, <1>3, TableIsItself
<1>. QED
  BY <1>4

\* The layer d of the source is the nodes at distance d.
LEMMA LayersAre ==
  ASSUME NEW G, IsFiniteSet(G.node), NEW s \in G.node
  PROVE  \A d \in 0 .. Cardinality(G.node) :
           Layers(G, s)[d] = {v \in G.node : Near(G, s, v) = d}
<1>. DEFINE n == Cardinality(G.node)
            N == G.node
            C == [d \in 0 .. n |-> Nodes(G, s, d)]
            within == CHOOSE w : Widening(G, s, w)
<1>1. n \in Nat /\ \A v \in N : Near(G, s, v) \in 0 .. n + 1
  BY GraphIsMeasured DEF IsMeasured
<1>2. Nodes(G, s, 0) = {s} /\ \A d \in 1 .. n : Nodes(G, s, d) = Wider(G, Nodes(G, s, d - 1))
  BY NodesWiden
<1>3. Widening(G, s, C)
  <2>1. ASSUME NEW d \in 0 .. n
        PROVE  Nodes(G, s, d) = IF d = 0 THEN {s} ELSE Wider(G, C[d - 1])
    <3>1. CASE d = 0
      BY <1>2, <3>1
    <3>2. CASE d # 0
      <4>1. d \in 1 .. n /\ d - 1 \in 0 .. n
        BY <1>1, <3>2
      <4>2. C[d - 1] = Nodes(G, s, d - 1)
        BY <4>1
      <4>. QED
        BY <1>2, <3>2, <4>1, <4>2
    <3>. QED
      BY <3>1, <3>2
  <2>. QED
    BY <2>1 DEF Widening
<1>4. Widening(G, s, within)
  BY <1>3, Zenon
<1>. HIDE DEF within
<1>5. \A d \in 0 .. n : within[d] = IF d = 0 THEN {s} ELSE Wider(G, within[d - 1])
  BY <1>4 DEF Widening
<1>6. \A d \in 0 .. n : within[d] = Nodes(G, s, d)
  <2>. DEFINE P == {d \in 0 .. n : within[d] = Nodes(G, s, d)}
  <2>1. 0 \in P
    <3>1. 0 \in 0 .. n
      BY <1>1
    <3>2. within[0] = {s}
      BY <1>5, <3>1
    <3>. QED
      BY <1>2, <3>1, <3>2
  <2>2. ASSUME NEW d \in 0 .. n, d \in P, d < n
        PROVE  d + 1 \in P
    <3>1. d + 1 \in 0 .. n /\ d + 1 \in 1 .. n /\ d + 1 # 0 /\ (d + 1) - 1 = d
      BY <1>1, <2>2
    <3>2. within[d + 1] = Wider(G, within[d])
      BY <1>5, <3>1
    <3>3. Nodes(G, s, d + 1) = Wider(G, Nodes(G, s, d))
      BY <1>2, <3>1
    <3>. QED
      BY <2>2, <3>1, <3>2, <3>3
  <2>3. \A d \in 0 .. n : d \in P
    <3>. HIDE DEF n, P
    <3>. QED
      BY <1>1, <2>1, <2>2, InductionTo
  <2>. QED
    BY <2>3
<1>7. ASSUME NEW d \in 0 .. n
      PROVE  Layers(G, s)[d] = {v \in N : Near(G, s, v) = d}
  <2>1. Layers(G, s)[d] = IF d = 0 THEN {s} ELSE within[d] \ within[d - 1]
    BY LayersIs DEF within
  <2>2. CASE d = 0
    <3>1. \A v \in N : Near(G, s, v) <= 0 <=> Near(G, s, v) = 0
      BY <1>1
    <3>. QED
      BY <1>2, <2>1, <2>2, <3>1 DEF Nodes
  <2>3. CASE d # 0
    <3>1. d - 1 \in 0 .. n
      BY <1>1, <2>3
    <3>2. \A v \in N : Near(G, s, v) <= d /\ ~(Near(G, s, v) <= d - 1) <=> Near(G, s, v) = d
      BY <1>1, <2>3
    <3>3. Layers(G, s)[d] = Nodes(G, s, d) \ Nodes(G, s, d - 1)
      BY <1>6, <2>1, <2>3, <3>1
    <3>. QED
      BY <3>2, <3>3 DEF Nodes
  <2>. QED
    BY <2>2, <2>3
<1>. QED
  BY <1>7

NextCount(G, layers, d, before) ==
  [w \in G.node |-> IF w \in layers[d]
                    THEN SumFunctionOnSet(before, layers[d - 1] \cap Neighbors(G, w))
                    ELSE before[w]]
Counting(G, layers, counts) ==
  counts = [d \in 0 .. Cardinality(G.node) |->
              IF d = 0 THEN [w \in G.node |-> IF w \in layers[0] THEN 1 ELSE 0]
              ELSE NextCount(G, layers, d, counts[d - 1])]
CountsWithin(G, s, d) ==
  [w \in G.node |-> IF Near(G, s, w) <= d THEN Paths(G, s, w) ELSE 0]

\* PathCounts is the last of what obeys its recursion.
LEMMA PathCountsIs ==
  ASSUME NEW G, NEW layers
  PROVE  PathCounts(G, layers) = (CHOOSE counts : Counting(G, layers, counts))[Cardinality(G.node)]
<1>. DEFINE n == Cardinality(G.node)
            Recursive(counts) ==
              counts = [d \in 0 .. n |->
                IF d = 0 THEN [w \in G.node |-> IF w \in layers[0] THEN 1 ELSE 0]
                ELSE Tabulated([w \in G.node |->
                       IF w \in layers[d]
                       THEN SumFunctionOnSet(counts[d - 1], layers[d - 1] \cap Neighbors(G, w))
                       ELSE counts[d - 1][w]])]
<1>1. PathCounts(G, layers) = (CHOOSE counts : Recursive(counts))[n]
  BY Zenon DEF PathCounts
<1>2. \A counts, d : Tabulated([w \in G.node |->
                       IF w \in layers[d]
                       THEN SumFunctionOnSet(counts[d - 1], layers[d - 1] \cap Neighbors(G, w))
                       ELSE counts[d - 1][w]]) = NextCount(G, layers, d, counts[d - 1])
  BY TableIsItself, Zenon DEF NextCount
<1>3. \A counts : Recursive(counts) <=> Counting(G, layers, counts)
  BY <1>2, Zenon DEF Counting
<1>. HIDE DEF Recursive
<1>4. (CHOOSE counts : Recursive(counts)) = (CHOOSE counts : Counting(G, layers, counts))
  BY <1>3, Zenon
<1>. QED
  BY <1>1, <1>4

\* The neighbours in the layer before are those that a shortest path comes from.
LEMMA LayerBefore ==
  ASSUME NEW G, IsFiniteSet(G.node), NEW s \in G.node, NEW w \in G.node,
         NEW d \in 1 .. Cardinality(G.node), Near(G, s, w) = d
  PROVE  Layers(G, s)[d - 1] \cap Neighbors(G, w) = Before(G, s, w)
<1>. DEFINE n == Cardinality(G.node)
<1>1. n \in Nat /\ \A v \in G.node : Near(G, s, v) \in 0 .. n + 1
  BY GraphIsMeasured DEF IsMeasured
<1>2. d - 1 \in 0 .. n
  BY <1>1
<1>3. Layers(G, s)[d - 1] = {u \in G.node : Near(G, s, u) = d - 1}
  BY <1>2, LayersAre
<1>4. \A u \in G.node : Near(G, s, u) = d - 1 <=> Near(G, s, u) + 1 = d
  BY <1>1
<1>5. ASSUME NEW u \in G.node, Near(G, s, u) = d - 1
      PROVE  u \in Neighbors(G, w) <=> u \in Adjacent(G, w)
  <2>1. u # w
    BY <1>5
  <2>. QED
    BY <2>1 DEF Neighbors, Adjacent
<1>6. Before(G, s, w) = {u \in G.node : u \in Adjacent(G, w) /\ Near(G, s, u) = d - 1}
  <2>1. Adjacent(G, w) \in SUBSET G.node
    BY AdjacentNodes
  <2>. QED
    BY <1>4, <2>1 DEF Before
<1>. QED
  BY <1>3, <1>5, <1>6

\* After layer d, sigma counts the shortest paths to every node that near.
LEMMA CountsGrow ==
  ASSUME NEW G, IsFiniteSet(G.node), NEW s \in G.node, NEW d \in 1 .. Cardinality(G.node)
  PROVE  NextCount(G, Layers(G, s), d, CountsWithin(G, s, d - 1)) = CountsWithin(G, s, d)
<1>. DEFINE n == Cardinality(G.node)
            N == G.node
            L == Layers(G, s)
            f == CountsWithin(G, s, d - 1)
<1>1. IsMeasured(G)
  BY GraphIsMeasured
<1>2. n \in Nat /\ \A v \in N : Near(G, s, v) \in 0 .. n + 1 /\ Paths(G, s, v) \in Nat
  BY <1>1 DEF IsMeasured
<1>3. d \in 0 .. n /\ d - 1 \in 0 .. n
  BY <1>2
<1>4. L[d] = {v \in N : Near(G, s, v) = d}
  BY <1>3, LayersAre
<1>5. ASSUME NEW w \in N
      PROVE  (IF w \in L[d] THEN SumFunctionOnSet(f, L[d - 1] \cap Neighbors(G, w)) ELSE f[w])
               = IF Near(G, s, w) <= d THEN Paths(G, s, w) ELSE 0
  <2>1. CASE Near(G, s, w) = d
    <3>. DEFINE B == Before(G, s, w)
                g == [u \in N |-> Paths(G, s, u)]
    <3>1. L[d - 1] \cap Neighbors(G, w) = B
      BY <2>1, LayerBefore
    <3>2. Near(G, s, w) \in 1 .. n
      BY <2>1
    <3>3. B \in SUBSET N /\ IsFiniteSet(B) /\ Paths(G, s, w) = SumFunctionOnSet(g, B)
      BY <3>2, PathsEndBefore
    <3>4. ASSUME NEW u \in B
          PROVE  g[u] \in Nat /\ f[u] = g[u]
      <4>1. u \in N /\ Near(G, s, u) + 1 = d
        BY <2>1, <3>3 DEF Before
      <4>2. Near(G, s, u) <= d - 1
        BY <1>2, <4>1
      <4>. QED
        BY <1>2, <4>1, <4>2 DEF CountsWithin
    <3>. HIDE DEF B, f, g
    <3>5. SumFunctionOnSet(f, B) = SumFunctionOnSet(g, B)
      BY <3>3, <3>4, SameSum
    <3>6. w \in L[d] /\ Near(G, s, w) <= d
      BY <1>2, <1>4, <2>1
    <3>. QED
      BY <3>1, <3>3, <3>5, <3>6
  <2>2. CASE Near(G, s, w) # d
    <3>1. w \notin L[d]
      BY <1>4, <2>2
    <3>2. Near(G, s, w) <= d <=> Near(G, s, w) <= d - 1
      BY <1>2, <2>2
    <3>3. f[w] = IF Near(G, s, w) <= d - 1 THEN Paths(G, s, w) ELSE 0
      BY DEF CountsWithin
    <3>. QED
      BY <3>1, <3>2, <3>3
  <2>. QED
    BY <2>1, <2>2
<1>. HIDE DEF f, L
<1>6. NextCount(G, L, d, f) = CountsWithin(G, s, d)
  BY <1>5 DEF NextCount, CountsWithin
<1>. QED
  BY <1>6 DEF f, L

\* sigma is the number of shortest paths.
LEMMA PathCountsArePaths ==
  ASSUME NEW G, IsFiniteSet(G.node), NEW s \in G.node
  PROVE  PathCounts(G, Layers(G, s)) = [w \in G.node |-> Paths(G, s, w)]
<1>. DEFINE n == Cardinality(G.node)
            N == G.node
            L == Layers(G, s)
            C == [d \in 0 .. n |-> CountsWithin(G, s, d)]
            counts == CHOOSE c : Counting(G, L, c)
            First == [w \in N |-> IF w \in L[0] THEN 1 ELSE 0]
<1>1. IsMeasured(G)
  BY GraphIsMeasured
<1>2. n \in Nat /\ \A v \in N : Near(G, s, v) \in 0 .. n + 1 /\ Paths(G, s, v) \in Nat
  BY <1>1 DEF IsMeasured
<1>3. CountsWithin(G, s, 0) = First
  <2>1. L[0] = {v \in N : Near(G, s, v) = 0}
    BY <1>2, LayersAre
  <2>2. \A w \in N : Near(G, s, w) = 0 => Paths(G, s, w) = 1
    BY <1>1 DEF IsMeasured
  <2>3. \A w \in N : Near(G, s, w) <= 0 <=> w \in L[0]
    BY <1>2, <2>1
  <2>4. \A w \in N : (IF Near(G, s, w) <= 0 THEN Paths(G, s, w) ELSE 0) = IF w \in L[0] THEN 1 ELSE 0
    BY <2>1, <2>2, <2>3
  <2>. HIDE DEF L
  <2>. QED
    BY <2>4 DEF CountsWithin
<1>4. \A d \in 1 .. n : NextCount(G, L, d, CountsWithin(G, s, d - 1)) = CountsWithin(G, s, d)
  BY CountsGrow
<1>. HIDE DEF L, First
<1>5. Counting(G, L, C)
  <2>1. ASSUME NEW d \in 0 .. n
        PROVE  CountsWithin(G, s, d) = IF d = 0 THEN First ELSE NextCount(G, L, d, C[d - 1])
    <3>1. CASE d = 0
      BY <1>3, <3>1
    <3>2. CASE d # 0
      <4>1. d \in 1 .. n /\ d - 1 \in 0 .. n
        BY <1>2, <3>2
      <4>2. C[d - 1] = CountsWithin(G, s, d - 1)
        BY <4>1
      <4>. QED
        BY <1>4, <3>2, <4>1, <4>2
    <3>. QED
      BY <3>1, <3>2
  <2>. QED
    BY <2>1 DEF Counting, First
<1>6. Counting(G, L, counts)
  BY <1>5, Zenon
<1>. HIDE DEF counts
<1>7. \A d \in 0 .. n : counts[d] = IF d = 0 THEN First ELSE NextCount(G, L, d, counts[d - 1])
  BY <1>6 DEF Counting, First
<1>8. \A d \in 0 .. n : counts[d] = CountsWithin(G, s, d)
  <2>. DEFINE P == {d \in 0 .. n : counts[d] = CountsWithin(G, s, d)}
  <2>1. 0 \in P
    <3>1. 0 \in 0 .. n
      BY <1>2
    <3>2. counts[0] = First
      BY <1>7, <3>1
    <3>. QED
      BY <1>3, <3>1, <3>2
  <2>2. ASSUME NEW d \in 0 .. n, d \in P, d < n
        PROVE  d + 1 \in P
    <3>1. d + 1 \in 0 .. n /\ d + 1 \in 1 .. n /\ d + 1 # 0 /\ (d + 1) - 1 = d
      BY <1>2, <2>2
    <3>2. counts[d + 1] = NextCount(G, L, d + 1, counts[d])
      BY <1>7, <3>1
    <3>3. NextCount(G, L, d + 1, CountsWithin(G, s, d)) = CountsWithin(G, s, d + 1)
      BY <1>4, <3>1
    <3>. QED
      BY <2>2, <3>1, <3>2, <3>3
  <2>3. \A d \in 0 .. n : d \in P
    <3>. HIDE DEF n, P
    <3>. QED
      BY <1>2, <2>1, <2>2, InductionTo
  <2>. QED
    BY <2>3
<1>9. CountsWithin(G, s, n) = [w \in N |-> Paths(G, s, w)]
  <2>1. \A w \in N : (IF Near(G, s, w) <= n THEN Paths(G, s, w) ELSE 0) = Paths(G, s, w)
    <3>1. \A w \in N : Paths(G, s, w) > 0 <=> Near(G, s, w) <= n
      BY <1>1 DEF IsMeasured
    <3>. QED
      BY <1>2, <3>1
  <2>. QED
    BY <2>1 DEF CountsWithin
<1>10. PathCounts(G, L) = counts[n]
  BY PathCountsIs DEF counts
<1>. QED
  BY <1>2, <1>8, <1>9, <1>10 DEF L

(***************************************************************************)
(* The unit, and the share of a pair of nodes.                             *)
(***************************************************************************)
LEMMA ProductOf ==
  ASSUME NEW T \in SUBSET (Nat \ {0}), IsFiniteSet(T)
  PROVE  /\ ProductSet(T) \in Nat \ {0}
         /\ \A x \in T : \E q \in Nat \ {0} : ProductSet(T) = x * q
<1>. DEFINE V == Nat \ {0}
            f == [x \in T |-> x]
<1>1. PICK F : Folds(F, f, T, V, 1, Times)
  <2>1. \A x \in T : f[x] \in V
    OBVIOUS
  <2>2. 1 \in V
    OBVIOUS
  <2>. HIDE DEF f
  <2>. QED
    BY <2>1, <2>2, TimesIsTyped, FoldExists
<1>2. \A S \in SUBSET T : F[S] \in V
  BY <1>1 DEF Folds
<1>3. F[{}] = 1 /\ \A S \in SUBSET T : \A x \in S : F[S] = x * F[S \ {x}]
  <2>1. F[{}] = 1
    BY <1>1 DEF Folds
  <2>2. ASSUME NEW S \in SUBSET T, NEW x \in S
        PROVE  F[S] = x * F[S \ {x}]
    <3>1. F[S] = Times[<<f[x], F[S \ {x}]>>] /\ f[x] = x
      BY <1>1 DEF Folds
    <3>2. x \in V /\ F[S \ {x}] \in V
      BY <1>2
    <3>. QED
      BY <3>1, <3>2, TimesIsTyped
  <2>. QED
    BY <2>1, <2>2
<1>4. \A S \in SUBSET T : S # {} => Some(S) \in S /\ S \ {Some(S)} \in SUBSET T
  BY DEF Some
<1>5. MultipliesTo([S \in SUBSET T |-> F[S]], T)
  <2>1. ASSUME NEW S \in SUBSET T
        PROVE  F[S] = IF S = {} THEN 1 ELSE Some(S) * F[S \ {Some(S)}]
    BY <1>3, <1>4
  <2>. QED
    BY <1>4, <2>1 DEF MultipliesTo
<1>. DEFINE h == CHOOSE k : MultipliesTo(k, T)
<1>6. MultipliesTo(h, T)
  BY <1>5, Zenon
<1>. HIDE DEF h
<1>7. \A S \in SUBSET T : h[S] = IF S = {} THEN 1 ELSE Some(S) * h[S \ {Some(S)}]
  BY <1>6 DEF MultipliesTo
<1>. DEFINE P == {S \in SUBSET T : h[S] = F[S]}
<1>8. {} \in P
  BY <1>3, <1>7
<1>9. ASSUME NEW S \in SUBSET T, S # {}, \A x \in S : S \ {x} \in P
      PROVE  S \in P
  <2>1. Some(S) \in S /\ h[S \ {Some(S)}] = F[S \ {Some(S)}]
    BY <1>4, <1>9
  <2>2. h[S] = Some(S) * h[S \ {Some(S)}]
    BY <1>7, <1>9
  <2>3. F[S] = Some(S) * F[S \ {Some(S)}]
    BY <1>3, <2>1
  <2>. QED
    BY <2>1, <2>2, <2>3
<1>10. \A S \in SUBSET T : S \in P
  <2>. HIDE DEF P
  <2>. QED
    BY <1>8, <1>9, InductionOverParts
<1>11. ProductSet(T) = F[T]
  BY <1>10, ProductIs DEF h
<1>12. ProductSet(T) \in V
  BY <1>2, <1>11
<1>13. ASSUME NEW x \in T
       PROVE  \E q \in Nat \ {0} : ProductSet(T) = x * q
  <2>1. ProductSet(T) = x * F[T \ {x}]
    BY <1>3, <1>11
  <2>2. F[T \ {x}] \in V
    BY <1>2
  <2>. QED
    BY <2>1, <2>2
<1>. QED
  BY <1>12, <1>13

\* Every number of shortest paths divides the unit, which is their product.
LEMMA UnitIs ==
  ASSUME NEW G, IsFiniteSet(G.node)
  PROVE  /\ Unit(G) \in Nat \ {0}
         /\ \A s, t \in G.node : Paths(G, s, t) > 0 =>
              \E q \in Nat \ {0} : Unit(G) = Paths(G, s, t) * q
<1>. DEFINE N == G.node
            R(s) == Range(PathCounts(G, Layers(G, s)))
            T == (UNION {R(s) : s \in N}) \ {0}
            all == [p \in N \X N |-> Paths(G, p[1], p[2])]
            I == {all[p] : p \in N \X N}
<1>1. IsMeasured(G)
  BY GraphIsMeasured
<1>2. \A s, t \in N : Paths(G, s, t) \in Nat
  BY <1>1 DEF IsMeasured
<1>3. ASSUME NEW s \in N
      PROVE  R(s) = {Paths(G, s, w) : w \in N}
  <2>1. PathCounts(G, Layers(G, s)) = [w \in N |-> Paths(G, s, w)]
    BY PathCountsArePaths
  <2>. QED
    BY <2>1 DEF Range
<1>. HIDE DEF R
<1>4. \A s, t \in N : Paths(G, s, t) > 0 => Paths(G, s, t) \in T
  BY <1>2, <1>3
<1>5. T \in SUBSET I
  <2>1. \A s, w \in N : Paths(G, s, w) \in I
    <3>1. \A s, w \in N : all[<<s, w>>] = Paths(G, s, w) /\ <<s, w>> \in N \X N
      OBVIOUS
    <3>. HIDE DEF all
    <3>. QED
      BY <3>1
  <2>. HIDE DEF I
  <2>. QED
    BY <1>3, <2>1
<1>6. T \in SUBSET (Nat \ {0})
  BY <1>2, <1>3
<1>7. IsFiniteSet(I)
  <2>1. IsFiniteSet(N \X N)
    BY FS_Product
  <2>2. all \in Surjection(N \X N, I)
    BY DEF Surjection
  <2>. HIDE DEF all, I
  <2>. QED
    BY <2>1, <2>2, FS_Surjection
<1>8. IsFiniteSet(T)
  <2>. HIDE DEF T, I
  <2>. QED
    BY <1>5, <1>7, FS_Subset
<1>9. Unit(G) = ProductSet(T)
  BY Zenon DEF Unit, R
<1>. HIDE DEF T
<1>. QED
  BY <1>4, <1>6, <1>8, <1>9, ProductOf

\* A product divided by one of its factors is the other.
LEMMA DivisionIsExact ==
  ASSUME NEW p \in Nat \ {0}, NEW m \in Nat
  PROVE  (p * m) \div p = m
OBVIOUS

LeadsThrough(G, s, t, v) ==
  Near(G, s, t) <= Cardinality(G.node) /\ Near(G, s, v) + Near(G, v, t) = Near(G, s, t)
Weight(G, s, t) == Unit(G) \div Paths(G, s, t)

\* What a shortest path from s to v brings v, of the paths that go on to t.
Beyond(G, s, v, t) == IF LeadsThrough(G, s, t, v) THEN Paths(G, v, t) * Weight(G, s, t) ELSE 0
Pair(G, s, t, v) == PairDependency(Unit(G), Walks(G), s, t, v)

\* The unit is the number of shortest paths between two nodes, times the weight of one.
LEMMA UnitHasWeights ==
  ASSUME NEW G, IsFiniteSet(G.node), NEW s \in G.node, NEW t \in G.node,
         Near(G, s, t) <= Cardinality(G.node)
  PROVE  /\ Paths(G, s, t) \in Nat \ {0} /\ Weight(G, s, t) \in Nat
         /\ Unit(G) = Paths(G, s, t) * Weight(G, s, t)
<1>1. Paths(G, s, t) \in Nat /\ Paths(G, s, t) > 0
  BY GraphIsMeasured DEF IsMeasured
<1>2. PICK q \in Nat \ {0} : Unit(G) = Paths(G, s, t) * q
  BY <1>1, UnitIs
<1>3. Weight(G, s, t) = q
  BY <1>1, <1>2, DivisionIsExact DEF Weight
<1>. QED
  BY <1>1, <1>2, <1>3

\* The dependency of a pair of nodes, from its definition.
LEMMA PairIs ==
  ASSUME NEW G, IsFiniteSet(G.node), NEW s \in G.node, NEW t \in G.node, NEW v \in G.node
  PROVE  /\ Beyond(G, s, v, t) \in Nat
         /\ Pair(G, s, t, v) = Paths(G, s, v) * Beyond(G, s, v, t)
         /\ Pair(G, s, t, v) \in Nat
<1>. DEFINE n == Cardinality(G.node)
            a == Paths(G, s, v)
            b == Paths(G, v, t)
            p == Paths(G, s, t)
            q == Weight(G, s, t)
<1>1. /\ n \in Nat /\ a \in Nat /\ b \in Nat /\ p \in Nat
      /\ Near(G, s, t) \in 0 .. n + 1 /\ Near(G, s, v) \in 0 .. n + 1 /\ Near(G, v, t) \in 0 .. n + 1
  BY GraphIsMeasured DEF IsMeasured
<1>2. DOMAIN Walks(G) = 0 .. n
  BY WalksAreWalks DEF AreWalks
<1>3. Near(G, s, t) \in DOMAIN Walks(G) <=> Near(G, s, t) <= n
  BY <1>1, <1>2
<1>4. Pair(G, s, t, v) = IF LeadsThrough(G, s, t, v) THEN (Unit(G) * a * b) \div p ELSE 0
  BY <1>3 DEF Pair, PairDependency, LeadsThrough, Near, Paths
<1>5. CASE LeadsThrough(G, s, t, v)
  <2>1. p \in Nat \ {0} /\ q \in Nat /\ Unit(G) = p * q
    BY <1>5, UnitHasWeights DEF LeadsThrough
  <2>2. Pair(G, s, t, v) = (p * q * a * b) \div p
    BY <1>4, <1>5, <2>1
  <2>3. Beyond(G, s, v, t) = b * q
    BY <1>5 DEF Beyond
  <2>. HIDE DEF a, b, p, q
  <2>4. p * q * a * b = p * (a * (b * q))
    BY <1>1, <2>1
  <2>5. b * q \in Nat /\ a * (b * q) \in Nat
    BY <1>1, <2>1
  <2>6. (p * (a * (b * q))) \div p = a * (b * q)
    BY <2>1, <2>5, DivisionIsExact
  <2>. QED
    BY <2>2, <2>3, <2>4, <2>5, <2>6 DEF a
<1>6. CASE ~LeadsThrough(G, s, t, v)
  <2>1. Pair(G, s, t, v) = 0 /\ Beyond(G, s, v, t) = 0
    BY <1>4, <1>6 DEF Beyond
  <2>. QED
    BY <1>1, <2>1
<1>. QED
  BY <1>5, <1>6

\* The definition does not tell the two ends of a pair apart, and asks nothing of an end.
LEMMA PairsHaveNoOrder ==
  ASSUME NEW G, IsFiniteSet(G.node), NEW s \in G.node, NEW t \in G.node, NEW v \in G.node
  PROVE  /\ Pair(G, s, t, v) = Pair(G, t, s, v)
         /\ s # v => Pair(G, s, s, v) = 0
         /\ Near(G, s, v) > Cardinality(G.node) => Pair(G, s, t, v) = 0
<1>. DEFINE n == Cardinality(G.node)
<1>1. /\ n \in Nat
      /\ \A a, b \in G.node : /\ Near(G, a, b) \in 0 .. n + 1 /\ Near(G, a, b) = Near(G, b, a)
                              /\ Near(G, a, b) = 0 <=> a = b
                              /\ Paths(G, a, b) \in Nat /\ Paths(G, a, b) = Paths(G, b, a)
  BY GraphIsMeasured DEF IsMeasured
<1>2. ASSUME NEW a \in G.node, NEW b \in G.node
      PROVE  /\ Pair(G, a, b, v) = Paths(G, a, v) * Beyond(G, a, v, b)
             /\ LeadsThrough(G, a, b, v) =>
                  Beyond(G, a, v, b) = Paths(G, v, b) * Weight(G, a, b) /\ Weight(G, a, b) \in Nat
             /\ ~LeadsThrough(G, a, b, v) => Pair(G, a, b, v) = 0
  <2>1. Pair(G, a, b, v) = Paths(G, a, v) * Beyond(G, a, v, b) /\ Paths(G, a, v) \in Nat
    BY <1>1, PairIs
  <2>2. LeadsThrough(G, a, b, v) => Weight(G, a, b) \in Nat
    BY UnitHasWeights DEF LeadsThrough
  <2>3. ~LeadsThrough(G, a, b, v) => Beyond(G, a, v, b) = 0
    BY DEF Beyond
  <2>. QED
    BY <2>1, <2>2, <2>3 DEF Beyond
<1>3. LeadsThrough(G, s, t, v) <=> LeadsThrough(G, t, s, v)
  <2>1. /\ Near(G, s, t) = Near(G, t, s) /\ Near(G, s, v) = Near(G, v, s)
        /\ Near(G, v, t) = Near(G, t, v) /\ Near(G, v, s) \in Int /\ Near(G, t, v) \in Int
    BY <1>1
  <2>. QED
    BY <2>1 DEF LeadsThrough
<1>4. Pair(G, s, t, v) = Pair(G, t, s, v)
  <2>1. CASE LeadsThrough(G, s, t, v)
    <3>. DEFINE a == Paths(G, s, v)
                b == Paths(G, v, t)
                q == Weight(G, s, t)
    <3>1. Paths(G, v, s) = a /\ Paths(G, t, v) = b /\ a \in Nat /\ b \in Nat
      BY <1>1
    <3>2. Weight(G, t, s) = q
      BY <1>1 DEF Weight
    <3>3. Pair(G, s, t, v) = a * (b * q) /\ q \in Nat
      BY <1>2, <2>1
    <3>4. Pair(G, t, s, v) = b * (a * q)
      BY <1>2, <1>3, <2>1, <3>1, <3>2
    <3>. HIDE DEF a, b, q
    <3>5. a * (b * q) = b * (a * q)
      BY <3>1, <3>3
    <3>. QED
      BY <3>3, <3>4, <3>5
  <2>2. CASE ~LeadsThrough(G, s, t, v)
    BY <1>2, <1>3, <2>2
  <2>. QED
    BY <2>1, <2>2
<1>5. ASSUME s # v
      PROVE  Pair(G, s, s, v) = 0
  <2>1. Near(G, s, s) = 0 /\ Near(G, s, v) # 0 /\ Near(G, s, v) \in Nat /\ Near(G, v, s) \in Nat
    BY <1>1, <1>5
  <2>2. ~LeadsThrough(G, s, s, v)
    BY <2>1 DEF LeadsThrough
  <2>. QED
    BY <1>2, <2>2
<1>6. ASSUME Near(G, s, v) > n
      PROVE  Pair(G, s, t, v) = 0
  <2>1. Near(G, s, v) \in Nat /\ Near(G, v, t) \in Nat /\ Near(G, s, t) \in Nat
    BY <1>1
  <2>2. ~LeadsThrough(G, s, t, v)
    BY <1>1, <1>6, <2>1 DEF LeadsThrough
  <2>. QED
    BY <1>2, <2>2
<1>. QED
  BY <1>4, <1>5, <1>6

(***************************************************************************)
(* The dependencies.                                                       *)
(***************************************************************************)
PairsFrom(G, s, v) == [t \in G.node |-> Pair(G, s, t, v)]
BeyondFrom(G, s, v) == [t \in G.node |-> Beyond(G, s, v, t)]

\* What depends on v of the paths from s, by the definition.
Dependency(G, s, v) == SumFunctionOnSet(PairsFrom(G, s, v), G.node \ {v})

\* The nodes next to v that are one step farther from s.
After(G, s, v) == {w \in Adjacent(G, v) : Near(G, s, w) = Near(G, s, v) + 1}

\* What depends on v, and the unit of v itself, are a multiple of the paths that reach v.
LEMMA DependencyIs ==
  ASSUME NEW G, IsFiniteSet(G.node), NEW s \in G.node, NEW v \in G.node
  PROVE  /\ Dependency(G, s, v) \in Nat
         /\ SumFunctionOnSet(BeyondFrom(G, s, v), G.node) \in Nat
         /\ Near(G, s, v) <= Cardinality(G.node) =>
              Unit(G) + Dependency(G, s, v)
                = Paths(G, s, v) * SumFunctionOnSet(BeyondFrom(G, s, v), G.node)
<1>. DEFINE N == G.node
            f == BeyondFrom(G, s, v)
            g == PairsFrom(G, s, v)
            c == Paths(G, s, v)
<1>1. IsMeasured(G)
  BY GraphIsMeasured
<1>2. c \in Nat
  BY <1>1 DEF IsMeasured
<1>3. \A t \in N : f[t] \in Nat /\ g[t] \in Nat /\ g[t] = c * f[t]
  BY PairIs DEF BeyondFrom, PairsFrom
<1>4. ASSUME Near(G, s, v) <= Cardinality(G.node)
      PROVE  g[v] = Unit(G)
  <2>1. Unit(G) = c * Weight(G, s, v) /\ Weight(G, s, v) \in Nat
    BY <1>4, UnitHasWeights
  <2>2. LeadsThrough(G, s, v, v)
    <3>1. Near(G, v, v) = 0 /\ Near(G, s, v) \in Int
      BY <1>1 DEF IsMeasured
    <3>. QED
      BY <1>4, <3>1 DEF LeadsThrough
  <2>3. Paths(G, v, v) = 1
    BY <1>1 DEF IsMeasured
  <2>4. f[v] = Weight(G, s, v)
    BY <2>1, <2>2, <2>3 DEF BeyondFrom, Beyond
  <2>. QED
    BY <1>3, <2>1, <2>4
<1>. HIDE DEF f, g, c
<1>5. /\ SumFunctionOnSet(f, N) \in Nat
      /\ SumFunctionOnSet(g, N) = g[v] + SumFunctionOnSet(g, N \ {v})
  BY <1>3, SumOf
<1>6. SumFunctionOnSet(g, N) = c * SumFunctionOnSet(f, N)
  BY <1>2, <1>3, SumOfMultiples
<1>7. SumFunctionOnSet(g, N \ {v}) \in Nat
  <2>1. IsFiniteSet(N \ {v}) /\ \A t \in N \ {v} : g[t] \in Nat
    BY <1>3, FS_Subset
  <2>. QED
    BY <2>1, SumOf
<1>. QED
  BY <1>4, <1>5, <1>6, <1>7 DEF Dependency, f, g, c

\* What depends on a node of the paths to t is what depends on those after it.
LEMMA SharesOfATarget ==
  ASSUME NEW G, IsFiniteSet(G.node), NEW s \in G.node, NEW v \in G.node, NEW t \in G.node,
         Near(G, s, v) < Cardinality(G.node)
  PROVE  SumFunctionOnSet([w \in G.node |-> Beyond(G, s, w, t)], After(G, s, v))
           = IF t # v THEN Beyond(G, s, v, t) ELSE 0
<1>. DEFINE n == Cardinality(G.node)
            N == G.node
            A == After(G, s, v)
            f == [w \in N |-> Beyond(G, s, w, t)]
            d == Near(G, s, v)
            m == Near(G, s, t)
<1>1. IsMeasured(G)
  BY GraphIsMeasured
<1>2. /\ n \in Nat
      /\ \A a, b \in N : /\ Near(G, a, b) \in Nat /\ Near(G, a, b) = Near(G, b, a)
                         /\ Near(G, a, b) = 0 <=> a = b
                         /\ Paths(G, a, b) \in Nat /\ Paths(G, a, b) = Paths(G, b, a)
  BY <1>1 DEF IsMeasured
<1>3. A \in SUBSET N /\ IsFiniteSet(A)
  <2>1. Adjacent(G, v) \in SUBSET N /\ A \in SUBSET Adjacent(G, v)
    BY AdjacentNodes DEF After
  <2>2. A \in SUBSET N
    BY <2>1
  <2>. HIDE DEF A
  <2>. QED
    BY <2>2, FS_Subset
<1>4. ASSUME NEW w \in A
      PROVE  /\ w \in N /\ Near(G, s, w) = d + 1
             /\ Near(G, v, t) <= Near(G, w, t) + 1
             /\ m <= d + Near(G, v, t)
             /\ f[w] \in Nat
  <2>1. w \in N /\ w \in Adjacent(G, v) /\ Near(G, s, w) = d + 1
    BY <1>3 DEF After
  <2>2. Near(G, t, v) <= Near(G, t, w) + 1
    BY <1>1, <2>1 DEF IsMeasured
  <2>3. m <= d + Near(G, v, t)
    BY TriangleInequality
  <2>4. Near(G, t, v) = Near(G, v, t) /\ Near(G, t, w) = Near(G, w, t)
    BY <1>2, <2>1
  <2>5. f[w] \in Nat
    BY <2>1, PairIs
  <2>. QED
    BY <2>1, <2>2, <2>3, <2>4, <2>5
<1>5. ASSUME NEW w \in A, LeadsThrough(G, s, t, w)
      PROVE  LeadsThrough(G, s, t, v) /\ t # v /\ Near(G, w, t) + 1 = Near(G, v, t)
  <2>1. m <= n /\ d + 1 + Near(G, w, t) = m
    BY <1>4, <1>5 DEF LeadsThrough
  <2>2. m \in Nat /\ d \in Nat /\ Near(G, w, t) \in Nat /\ Near(G, v, t) \in Nat
    BY <1>2, <1>4
  <2>3. Near(G, v, t) <= Near(G, w, t) + 1 /\ m <= d + Near(G, v, t)
    BY <1>4
  <2>. HIDE DEF m, d
  <2>4. d + Near(G, v, t) = m /\ Near(G, v, t) # 0 /\ Near(G, w, t) + 1 = Near(G, v, t)
    BY <2>1, <2>2, <2>3
  <2>5. t # v
    BY <1>2, <2>4
  <2>. QED
    BY <2>1, <2>4, <2>5 DEF LeadsThrough, m, d
<1>6. CASE ~(LeadsThrough(G, s, t, v) /\ t # v)
  <2>1. \A w \in A : f[w] = 0
    BY <1>4, <1>5, <1>6 DEF Beyond
  <2>2. (IF t # v THEN Beyond(G, s, v, t) ELSE 0) = 0
    BY <1>6 DEF Beyond
  <2>. HIDE DEF A, f
  <2>3. SumFunctionOnSet(f, A) = 0
    BY <1>3, <2>1, SumOfZeros
  <2>. QED
    BY <2>2, <2>3 DEF A, f
<1>7. CASE LeadsThrough(G, s, t, v) /\ t # v
  <2>. DEFINE B == Before(G, t, v)
              g == [u \in N |-> Paths(G, t, u)]
              h == [u \in N |-> Weight(G, s, t) * g[u]]
              j == Near(G, v, t)
  <2>1. m <= n /\ d + j = m
    BY <1>7 DEF LeadsThrough
  <2>2. Near(G, t, v) = j /\ j \in Nat /\ d \in Nat /\ m \in Nat
    BY <1>2
  <2>3. Near(G, t, v) \in 1 .. n
    <3>1. j # 0
      BY <1>2, <1>7
    <3>. HIDE DEF j, d, m, n
    <3>. QED
      BY <1>2, <2>1, <2>2, <3>1
  <2>4. B \in SUBSET N /\ IsFiniteSet(B) /\ Paths(G, t, v) = SumFunctionOnSet(g, B)
    BY <2>3, PathsEndBefore
  <2>5. Weight(G, s, t) \in Nat
    BY <2>1, UnitHasWeights
  <2>6. ASSUME NEW u \in B
        PROVE  u \in A /\ LeadsThrough(G, s, t, u)
    <3>1. u \in N /\ u \in Adjacent(G, v) /\ Near(G, t, u) + 1 = j
      BY <2>2, <2>4 DEF Before
    <3>2. /\ Near(G, s, u) \in Nat /\ Near(G, t, u) \in Nat /\ Near(G, u, t) = Near(G, t, u)
          /\ Near(G, u, s) = Near(G, s, u) /\ Near(G, v, s) = d
      BY <1>2, <3>1
    <3>3. m <= Near(G, s, u) + Near(G, u, t)
      BY <3>1, TriangleInequality
    <3>4. Near(G, s, u) <= d + 1
      <4>1. v \in Adjacent(G, u)
        BY <3>1, AdjacentNodes
      <4>. QED
        BY <1>1, <3>1, <4>1 DEF IsMeasured
    <3>. HIDE DEF m, d, j
    <3>5. Near(G, s, u) = d + 1 /\ Near(G, s, u) + Near(G, u, t) = m
      BY <2>1, <2>2, <3>1, <3>2, <3>3, <3>4
    <3>6. u \in A
      BY <3>1, <3>5 DEF After, d
    <3>7. LeadsThrough(G, s, t, u)
      BY <2>1, <3>5 DEF LeadsThrough, m
    <3>. QED
      BY <3>6, <3>7
  <2>7. ASSUME NEW w \in A \ B
        PROVE  f[w] = 0
    <3>1. w \in N /\ w \in Adjacent(G, v)
      BY <1>3 DEF After
    <3>2. Near(G, t, w) + 1 # j
      BY <2>2, <3>1 DEF Before
    <3>3. ~LeadsThrough(G, s, t, w)
      BY <1>2, <1>5, <3>1, <3>2
    <3>. QED
      BY <3>1, <3>3 DEF Beyond
  <2>8. ASSUME NEW u \in B
        PROVE  g[u] \in Nat /\ h[u] \in Nat /\ h[u] = Weight(G, s, t) * g[u] /\ f[u] = h[u]
    <3>1. u \in N /\ LeadsThrough(G, s, t, u)
      BY <2>4, <2>6
    <3>2. Paths(G, u, t) = Paths(G, t, u) /\ Paths(G, t, u) \in Nat
      BY <1>2, <3>1
    <3>3. f[u] = Paths(G, t, u) * Weight(G, s, t)
      BY <3>1, <3>2 DEF Beyond
    <3>4. g[u] = Paths(G, t, u) /\ h[u] = Weight(G, s, t) * Paths(G, t, u)
      BY <3>1
    <3>. QED
      BY <2>5, <3>2, <3>3, <3>4
  <2>9. SumFunctionOnSet(f, A) = Weight(G, s, t) * Paths(G, t, v)
    <3>1. B \in SUBSET A
      BY <2>6
    <3>. HIDE DEF A, B, f, g, h
    <3>2. SumFunctionOnSet(f, A) = SumFunctionOnSet(h, B)
      BY <1>3, <2>7, <2>8, <3>1, SumOfPart
    <3>3. SumFunctionOnSet(h, B) = Weight(G, s, t) * SumFunctionOnSet(g, B)
      BY <2>4, <2>5, <2>8, SumOfMultiples
    <3>. QED
      BY <2>4, <3>2, <3>3
  <2>10. Beyond(G, s, v, t) = Weight(G, s, t) * Paths(G, t, v)
    <3>1. Paths(G, v, t) = Paths(G, t, v) /\ Paths(G, t, v) \in Nat
      BY <1>2
    <3>2. Beyond(G, s, v, t) = Paths(G, t, v) * Weight(G, s, t)
      BY <1>7, <3>1 DEF Beyond
    <3>. QED
      BY <2>5, <3>1, <3>2
  <2>. QED
    BY <1>7, <2>9, <2>10
<1>. QED
  BY <1>6, <1>7

Shares(G, s, v) ==
  [w \in G.node |-> (Paths(G, s, v) * (Unit(G) + Dependency(G, s, w))) \div Paths(G, s, w)]

\* What depends on a node is what its shares of those after it add up to.
LEMMA SharesAddUp ==
  ASSUME NEW G, IsFiniteSet(G.node), NEW s \in G.node, NEW v \in G.node,
         Near(G, s, v) < Cardinality(G.node)
  PROVE  SumFunctionOnSet(Shares(G, s, v), After(G, s, v)) = Dependency(G, s, v)
<1>. DEFINE n == Cardinality(G.node)
            N == G.node
            A == After(G, s, v)
            c == Paths(G, s, v)
            shares == Shares(G, s, v)
            rows == [w \in N |-> SumFunctionOnSet(BeyondFrom(G, s, w), N)]
            F == [p \in A \X N |-> Beyond(G, s, p[1], p[2])]
            columns == [t \in N |-> IF t # v THEN Beyond(G, s, v, t) ELSE 0]
            others == N \ {v}
            pairs == PairsFrom(G, s, v)
            beyond == BeyondFrom(G, s, v)
<1>1. IsMeasured(G)
  BY GraphIsMeasured
<1>2. n \in Nat /\ \A a, b \in N : Near(G, a, b) \in 0 .. n + 1 /\ Paths(G, a, b) \in Nat
  BY <1>1 DEF IsMeasured
<1>3. A \in SUBSET N /\ IsFiniteSet(A)
  <2>1. Adjacent(G, v) \in SUBSET N /\ A \in SUBSET Adjacent(G, v)
    BY AdjacentNodes DEF After
  <2>2. A \in SUBSET N
    BY <2>1
  <2>. HIDE DEF A
  <2>. QED
    BY <2>2, FS_Subset
<1>4. \A w \in A, t \in N : F[<<w, t>>] = Beyond(G, s, w, t) /\ F[<<w, t>>] \in Nat
  <2>1. \A w \in A, t \in N : F[<<w, t>>] = Beyond(G, s, w, t)
    OBVIOUS
  <2>. HIDE DEF F, A
  <2>2. \A w \in A, t \in N : w \in N /\ Beyond(G, s, w, t) \in Nat
    BY <1>3, PairIs
  <2>. QED
    BY <2>1, <2>2
<1>5. ASSUME NEW w \in A
      PROVE  rows[w] \in Nat /\ shares[w] = c * rows[w]
  <2>. DEFINE p == Paths(G, s, w)
              r == rows[w]
  <2>1. w \in N /\ Near(G, s, w) = Near(G, s, v) + 1
    BY <1>3 DEF After
  <2>2. Near(G, s, w) <= n
    BY <1>2, <2>1
  <2>3. Unit(G) + Dependency(G, s, w) = p * r /\ r \in Nat
    BY <2>1, <2>2, DependencyIs
  <2>4. p \in Nat \ {0}
    BY <2>1, <2>2, UnitHasWeights
  <2>5. shares[w] = (c * (p * r)) \div p
    BY <2>1, <2>3 DEF Shares
  <2>6. c \in Nat
    BY <1>2
  <2>. HIDE DEF p, r, c
  <2>7. c * (p * r) = p * (c * r) /\ c * r \in Nat
    BY <2>3, <2>4, <2>6
  <2>8. (p * (c * r)) \div p = c * r
    BY <2>4, <2>7, DivisionIsExact
  <2>. QED
    BY <2>3, <2>5, <2>7, <2>8 DEF r
<1>6. SumFunctionOnSet(shares, A) = c * SumFunctionOnSet(rows, A)
  <2>1. c \in Nat
    BY <1>2
  <2>. HIDE DEF c, rows, shares, A
  <2>. QED
    BY <1>3, <1>5, <2>1, SumOfMultiples
<1>7. AreRows(rows, F, A, N)
  <2>1. ASSUME NEW w \in A
        PROVE  rows[w] = SumFunctionOnSet([t \in N |-> F[<<w, t>>]], N)
    <3>1. [t \in N |-> F[<<w, t>>]] = BeyondFrom(G, s, w)
      <4>. HIDE DEF F
      <4>. QED
        BY <1>4 DEF BeyondFrom
    <3>2. w \in N
      BY <1>3
    <3>. HIDE DEF F
    <3>. QED
      BY <3>1, <3>2
  <2>. QED
    BY <2>1 DEF AreRows
<1>8. AreColumns(columns, F, A, N)
  <2>1. ASSUME NEW t \in N
        PROVE  columns[t] = SumFunctionOnSet([w \in A |-> F[<<w, t>>]], A)
    <3>. DEFINE f == [w \in N |-> Beyond(G, s, w, t)]
                g == [w \in A |-> F[<<w, t>>]]
    <3>1. columns[t] = SumFunctionOnSet(f, A)
      BY SharesOfATarget
    <3>2. \A w \in A : f[w] \in Nat /\ g[w] = f[w]
      <4>. HIDE DEF F
      <4>. QED
        BY <1>3, <1>4
    <3>. HIDE DEF f, g, A
    <3>3. SumFunctionOnSet(g, A) = SumFunctionOnSet(f, A)
      BY <1>3, <3>2, SameSum
    <3>. QED
      BY <3>1, <3>3 DEF g
  <2>. QED
    BY <2>1 DEF AreColumns
<1>9. SumFunctionOnSet(rows, A) = SumFunctionOnSet(columns, N)
  <2>1. AreNumbers(F, A, N)
    BY <1>4 DEF AreNumbers
  <2>. HIDE DEF F, rows, columns, A, N
  <2>. QED
    BY <1>3, <1>7, <1>8, <2>1, SumsSwap DEF N
<1>10. others \in SUBSET N /\ IsFiniteSet(others)
  BY FS_Subset
<1>11. \A t \in N : beyond[t] \in Nat /\ pairs[t] = c * beyond[t]
  BY PairIs DEF BeyondFrom, PairsFrom
<1>12. SumFunctionOnSet(columns, N) = SumFunctionOnSet(beyond, others)
  <2>1. /\ \A t \in others : beyond[t] \in Nat /\ columns[t] = beyond[t]
        /\ \A t \in N \ others : columns[t] = 0
    BY <1>11 DEF BeyondFrom
  <2>. HIDE DEF columns, beyond, others
  <2>. QED
    BY <1>10, <2>1, SumOfPart
<1>13. Dependency(G, s, v) = c * SumFunctionOnSet(beyond, others)
  <2>1. c \in Nat
    BY <1>2
  <2>2. \A t \in others : beyond[t] \in Nat /\ pairs[t] = c * beyond[t]
    BY <1>11
  <2>. HIDE DEF c, beyond, pairs, others
  <2>3. SumFunctionOnSet(pairs, others) = c * SumFunctionOnSet(beyond, others)
    BY <1>10, <2>1, <2>2, SumOfMultiples
  <2>. QED
    BY <2>3 DEF Dependency, pairs, others
<1>. HIDE DEF columns, rows, beyond, others, c
<1>. QED
  BY <1>6, <1>9, <1>12, <1>13

\* On a node as far as a path can lead no other depends.
LEMMA NothingBeyondTheFarthest ==
  ASSUME NEW G, IsFiniteSet(G.node), NEW s \in G.node, NEW v \in G.node,
         Near(G, s, v) >= Cardinality(G.node)
  PROVE  Dependency(G, s, v) = 0
<1>. DEFINE n == Cardinality(G.node)
            N == G.node
            f == PairsFrom(G, s, v)
            others == N \ {v}
<1>1. n \in Nat /\ \A a, b \in N : Near(G, a, b) \in 0 .. n + 1 /\ (Near(G, a, b) = 0 <=> a = b)
                                   /\ Paths(G, a, b) \in Nat
  BY GraphIsMeasured DEF IsMeasured
<1>2. ASSUME NEW t \in others
      PROVE  f[t] = 0
  <2>1. t \in N /\ t # v
    OBVIOUS
  <2>2. ~LeadsThrough(G, s, t, v)
    <3>1. Near(G, v, t) # 0 /\ Near(G, v, t) \in Nat /\ Near(G, s, v) \in Nat /\ Near(G, s, t) \in Nat
      BY <1>1, <2>1
    <3>. QED
      BY <1>1, <3>1 DEF LeadsThrough
  <2>3. f[t] = Paths(G, s, v) * Beyond(G, s, v, t)
    BY <2>1, PairIs DEF PairsFrom
  <2>. QED
    BY <1>1, <2>2, <2>3 DEF Beyond
<1>3. IsFiniteSet(others)
  BY FS_Subset
<1>4. SumFunctionOnSet(f, others) = 0
  <2>. HIDE DEF f, others
  <2>. QED
    BY <1>2, <1>3, SumOfZeros
<1>. QED
  BY <1>4 DEF Dependency

SharesOver(unit, sigma, below, v, A) ==
  SumFunctionOnSet([w \in A |-> (sigma[v] * (unit + below[w])) \div sigma[w]], A)
NextDelta(G, unit, layers, sigma, k, below) ==
  [v \in G.node |->
     IF v \in layers[Cardinality(G.node) - k]
     THEN SharesOver(unit, sigma, below, v, layers[Cardinality(G.node) - k + 1] \cap Neighbors(G, v))
     ELSE below[v]]
Accumulating(G, unit, layers, sigma, delta) ==
  delta = [k \in 0 .. Cardinality(G.node) |->
             IF k = 0 THEN [v \in G.node |-> 0]
             ELSE NextDelta(G, unit, layers, sigma, k, delta[k - 1])]
DependenciesBeyond(G, s, k) ==
  [v \in G.node |-> IF Near(G, s, v) >= Cardinality(G.node) - k THEN Dependency(G, s, v) ELSE 0]

\* Dependencies is the last of what obeys its recursion.
LEMMA DependenciesIs ==
  ASSUME NEW G, NEW unit, NEW s
  PROVE  LET layers == Layers(G, s)
             sigma == PathCounts(G, layers)
         IN  Dependencies(G, unit, s)
               = (CHOOSE delta : Accumulating(G, unit, layers, sigma, delta))[Cardinality(G.node)]
<1>. DEFINE n == Cardinality(G.node)
            layers == Layers(G, s)
            sigma == PathCounts(G, layers)
            Layer(k, below) ==
              [v \in G.node |->
                 IF v \in layers[n - k]
                 THEN SumFunctionOnSet(
                        [w \in layers[n - k + 1] \cap Neighbors(G, v) |->
                           (sigma[v] * (unit + below[w])) \div sigma[w]],
                        layers[n - k + 1] \cap Neighbors(G, v))
                 ELSE below[v]]
            Recursive(delta) ==
              delta = [k \in 0 .. n |-> IF k = 0 THEN [v \in G.node |-> 0]
                                        ELSE Tabulated(Layer(k, delta[k - 1]))]
<1>1. Dependencies(G, unit, s) = (CHOOSE delta : Recursive(delta))[n]
  BY Zenon DEF Dependencies
<1>2. \A k, below : Layer(k, below) = NextDelta(G, unit, layers, sigma, k, below)
  BY Zenon DEF NextDelta, SharesOver
<1>3. \A k, below : Tabulated(Layer(k, below)) = NextDelta(G, unit, layers, sigma, k, below)
  <2>. HIDE DEF Layer, layers, sigma
  <2>. QED
    BY <1>2, TableIsItself
<1>. HIDE DEF Layer, layers, sigma
<1>4. \A delta : Recursive(delta) <=> Accumulating(G, unit, layers, sigma, delta)
  BY <1>3 DEF Accumulating
<1>. HIDE DEF Recursive
<1>5. (CHOOSE delta : Recursive(delta))
        = (CHOOSE delta : Accumulating(G, unit, layers, sigma, delta))
  BY <1>4, Zenon
<1>. QED
  BY <1>1, <1>5 DEF layers, sigma

\* The neighbours in the layer after are those that a shortest path leads to.
LEMMA LayerAfter ==
  ASSUME NEW G, IsFiniteSet(G.node), NEW s \in G.node, NEW v \in G.node,
         NEW d \in 0 .. Cardinality(G.node) - 1, Near(G, s, v) = d
  PROVE  Layers(G, s)[d + 1] \cap Neighbors(G, v) = After(G, s, v)
<1>. DEFINE n == Cardinality(G.node)
<1>1. n \in Nat /\ \A u \in G.node : Near(G, s, u) \in 0 .. n + 1
  BY GraphIsMeasured DEF IsMeasured
<1>2. d + 1 \in 0 .. n
  BY <1>1
<1>3. Layers(G, s)[d + 1] = {u \in G.node : Near(G, s, u) = d + 1}
  BY <1>2, LayersAre
<1>4. ASSUME NEW u \in G.node, Near(G, s, u) = d + 1
      PROVE  u \in Neighbors(G, v) <=> u \in Adjacent(G, v)
  <2>1. u # v
    BY <1>4
  <2>. QED
    BY <2>1 DEF Neighbors, Adjacent
<1>5. After(G, s, v) = {u \in G.node : u \in Adjacent(G, v) /\ Near(G, s, u) = d + 1}
  <2>1. Adjacent(G, v) \in SUBSET G.node
    BY AdjacentNodes
  <2>. QED
    BY <2>1 DEF After
<1>. QED
  BY <1>3, <1>4, <1>5

\* After k layers, delta sums the dependencies on every node that far.
LEMMA DependenciesGrow ==
  ASSUME NEW G, IsFiniteSet(G.node), NEW s \in G.node, NEW k \in 1 .. Cardinality(G.node)
  PROVE  NextDelta(G, Unit(G), Layers(G, s), [w \in G.node |-> Paths(G, s, w)], k,
                   DependenciesBeyond(G, s, k - 1))
           = DependenciesBeyond(G, s, k)
<1>. DEFINE n == Cardinality(G.node)
            N == G.node
            L == Layers(G, s)
            sigma == [w \in N |-> Paths(G, s, w)]
            below == DependenciesBeyond(G, s, k - 1)
            A(v) == L[n - k + 1] \cap Neighbors(G, v)
<1>1. IsMeasured(G)
  BY GraphIsMeasured
<1>2. n \in Nat /\ \A u \in N : Near(G, s, u) \in 0 .. n + 1 /\ Paths(G, s, u) \in Nat
  BY <1>1 DEF IsMeasured
<1>3. n - k \in 0 .. n /\ n - k \in 0 .. n - 1 /\ n - k < n /\ n - (k - 1) = n - k + 1
  BY <1>2
<1>4. L[n - k] = {v \in N : Near(G, s, v) = n - k}
  BY <1>3, LayersAre
<1>5. ASSUME NEW v \in N
      PROVE  (IF v \in L[n - k] THEN SharesOver(Unit(G), sigma, below, v, A(v)) ELSE below[v])
               = IF Near(G, s, v) >= n - k THEN Dependency(G, s, v) ELSE 0
  <2>1. CASE Near(G, s, v) = n - k
    <3>. DEFINE B == After(G, s, v)
                f == Shares(G, s, v)
                g == [w \in B |-> (sigma[v] * (Unit(G) + below[w])) \div sigma[w]]
    <3>1. A(v) = B
      BY <1>3, <2>1, LayerAfter
    <3>2. B \in SUBSET N /\ IsFiniteSet(B)
      <4>1. Adjacent(G, v) \in SUBSET N /\ B \in SUBSET Adjacent(G, v)
        BY AdjacentNodes DEF After
      <4>2. B \in SUBSET N
        BY <4>1
      <4>. HIDE DEF B
      <4>. QED
        BY <4>2, FS_Subset
    <3>3. Near(G, s, v) < n
      BY <1>3, <2>1
    <3>4. SumFunctionOnSet(f, B) = Dependency(G, s, v)
      BY <3>3, SharesAddUp
    <3>5. ASSUME NEW w \in B
          PROVE  f[w] \in Nat /\ g[w] = f[w]
      <4>1. w \in N /\ Near(G, s, w) = n - k + 1
        BY <2>1, <3>2 DEF After
      <4>2. Near(G, s, w) >= n - (k - 1)
        BY <1>2, <1>3, <4>1
      <4>3. below[w] = Dependency(G, s, w)
        BY <4>1, <4>2 DEF DependenciesBeyond
      <4>4. sigma[v] = Paths(G, s, v) /\ sigma[w] = Paths(G, s, w)
        BY <4>1
      <4>5. g[w] = (Paths(G, s, v) * (Unit(G) + Dependency(G, s, w))) \div Paths(G, s, w)
        <5>. HIDE DEF B, below, sigma
        <5>. QED
          BY <4>3, <4>4
      <4>6. f[w] = (Paths(G, s, v) * (Unit(G) + Dependency(G, s, w))) \div Paths(G, s, w)
        BY <4>1 DEF Shares
      <4>7. f[w] \in Nat
        <5>1. Paths(G, s, w) \in Nat \ {0}
          <6>1. Near(G, s, w) <= n
            BY <1>2, <1>3, <4>1
          <6>. QED
            BY <4>1, <6>1, UnitHasWeights
        <5>2. Paths(G, s, v) * (Unit(G) + Dependency(G, s, w)) \in Nat
          <6>1. Paths(G, s, v) \in Nat /\ Unit(G) \in Nat /\ Dependency(G, s, w) \in Nat
            BY <1>2, <4>1, UnitIs, DependencyIs
          <6>. QED
            BY <6>1
        <5>. QED
          BY <4>6, <5>1, <5>2
      <4>. QED
        BY <4>5, <4>6, <4>7
    <3>. HIDE DEF B, f, g, A
    <3>6. SumFunctionOnSet(g, B) = SumFunctionOnSet(f, B)
      BY <3>2, <3>5, SameSum
    <3>7. SharesOver(Unit(G), sigma, below, v, B) = SumFunctionOnSet(g, B)
      BY Zenon DEF SharesOver, g
    <3>8. v \in L[n - k] /\ Near(G, s, v) >= n - k
      BY <1>2, <1>4, <2>1
    <3>. QED
      BY <3>1, <3>4, <3>6, <3>7, <3>8
  <2>2. CASE Near(G, s, v) # n - k
    <3>1. v \notin L[n - k]
      BY <1>4, <2>2
    <3>2. Near(G, s, v) >= n - k <=> Near(G, s, v) >= n - (k - 1)
      BY <1>2, <1>3, <2>2
    <3>3. below[v] = IF Near(G, s, v) >= n - (k - 1) THEN Dependency(G, s, v) ELSE 0
      BY DEF DependenciesBeyond
    <3>. QED
      BY <3>1, <3>2, <3>3
  <2>. QED
    BY <2>1, <2>2
<1>. HIDE DEF below, L, sigma
<1>6. NextDelta(G, Unit(G), L, sigma, k, below) = DependenciesBeyond(G, s, k)
  BY <1>5 DEF NextDelta, DependenciesBeyond
<1>. QED
  BY <1>6 DEF below, L, sigma

\* delta is what depends on each node, by the definition.
LEMMA DependenciesAre ==
  ASSUME NEW G, IsFiniteSet(G.node), NEW s \in G.node
  PROVE  Dependencies(G, Unit(G), s) = [v \in G.node |-> Dependency(G, s, v)]
<1>. DEFINE n == Cardinality(G.node)
            N == G.node
            L == Layers(G, s)
            sigma == [w \in N |-> Paths(G, s, w)]
            C == [k \in 0 .. n |-> DependenciesBeyond(G, s, k)]
            delta == CHOOSE f : Accumulating(G, Unit(G), L, sigma, f)
            Zeros == [v \in N |-> 0]
            Then(k, below) == NextDelta(G, Unit(G), L, sigma, k, below)
<1>1. IsMeasured(G)
  BY GraphIsMeasured
<1>2. n \in Nat /\ \A v \in N : Near(G, s, v) \in 0 .. n + 1
  BY <1>1 DEF IsMeasured
<1>3. DependenciesBeyond(G, s, 0) = Zeros
  <2>1. \A v \in N : Near(G, s, v) >= n - 0 => Dependency(G, s, v) = 0
    BY <1>2, NothingBeyondTheFarthest
  <2>. QED
    BY <2>1 DEF DependenciesBeyond
<1>4. \A k \in 1 .. n : Then(k, DependenciesBeyond(G, s, k - 1)) = DependenciesBeyond(G, s, k)
  BY DependenciesGrow
<1>. HIDE DEF Zeros
<1>5. \A f : Accumulating(G, Unit(G), L, sigma, f)
               <=> f = [k \in 0 .. n |-> IF k = 0 THEN Zeros ELSE Then(k, f[k - 1])]
  BY Zenon DEF Accumulating, Zeros
<1>. HIDE DEF L, sigma, Then
<1>6. Accumulating(G, Unit(G), L, sigma, C)
  <2>1. ASSUME NEW k \in 0 .. n
        PROVE  DependenciesBeyond(G, s, k) = IF k = 0 THEN Zeros ELSE Then(k, C[k - 1])
    <3>1. CASE k = 0
      BY <1>3, <3>1
    <3>2. CASE k # 0
      <4>1. k \in 1 .. n /\ k - 1 \in 0 .. n
        BY <1>2, <3>2
      <4>2. C[k - 1] = DependenciesBeyond(G, s, k - 1)
        BY <4>1
      <4>. QED
        BY <1>4, <3>2, <4>1, <4>2
    <3>. QED
      BY <3>1, <3>2
  <2>2. C = [k \in 0 .. n |-> IF k = 0 THEN Zeros ELSE Then(k, C[k - 1])]
    BY <2>1
  <2>. HIDE DEF C
  <2>. QED
    BY <1>5, <2>2
<1>7. Accumulating(G, Unit(G), L, sigma, delta)
  BY <1>6, Zenon
<1>. HIDE DEF delta
<1>8. \A k \in 0 .. n : delta[k] = IF k = 0 THEN Zeros ELSE Then(k, delta[k - 1])
  <2>1. delta = [k \in 0 .. n |-> IF k = 0 THEN Zeros ELSE Then(k, delta[k - 1])]
    BY <1>5, <1>7
  <2>. QED
    BY <2>1
<1>9. \A k \in 0 .. n : delta[k] = DependenciesBeyond(G, s, k)
  <2>. DEFINE P == {k \in 0 .. n : delta[k] = DependenciesBeyond(G, s, k)}
  <2>1. 0 \in P
    <3>1. 0 \in 0 .. n
      BY <1>2
    <3>2. delta[0] = Zeros
      BY <1>8, <3>1
    <3>. QED
      BY <1>3, <3>1, <3>2
  <2>2. ASSUME NEW k \in 0 .. n, k \in P, k < n
        PROVE  k + 1 \in P
    <3>1. k + 1 \in 0 .. n /\ k + 1 \in 1 .. n /\ k + 1 # 0 /\ (k + 1) - 1 = k
      BY <1>2, <2>2
    <3>2. delta[k + 1] = Then(k + 1, delta[k])
      BY <1>8, <3>1
    <3>3. Then(k + 1, DependenciesBeyond(G, s, k)) = DependenciesBeyond(G, s, k + 1)
      BY <1>4, <3>1
    <3>. QED
      BY <2>2, <3>1, <3>2, <3>3
  <2>3. \A k \in 0 .. n : k \in P
    <3>. HIDE DEF n, P
    <3>. QED
      BY <1>2, <2>1, <2>2, InductionTo
  <2>. QED
    BY <2>3
<1>10. DependenciesBeyond(G, s, n) = [v \in N |-> Dependency(G, s, v)]
  <2>1. \A v \in N : Near(G, s, v) >= n - n
    BY <1>2
  <2>. QED
    BY <2>1 DEF DependenciesBeyond
<1>11. PathCounts(G, L) = sigma
  BY PathCountsArePaths DEF L, sigma
<1>12. Dependencies(G, Unit(G), s) = delta[n]
  <2>1. Dependencies(G, Unit(G), s)
          = (CHOOSE f : Accumulating(G, Unit(G), L, PathCounts(G, L), f))[n]
    BY DependenciesIs DEF L
  <2>. QED
    BY <1>11, <2>1 DEF delta
<1>. QED
  BY <1>2, <1>9, <1>10, <1>12

(***************************************************************************)
(* The pairs, from both ends.                                              *)
(***************************************************************************)
LEMMA PairsAre ==
  ASSUME NEW M, IsFiniteSet(M)
  PROVE  /\ IsFiniteSet(kSubset(2, M))
         /\ \A x, y \in M : x # y => {x, y} \in kSubset(2, M)
         /\ \A q \in kSubset(2, M) : \E x, y \in M : x # y /\ q = {x, y}
<1>1. kSubset(2, M) = {q \in SUBSET M : Cardinality(q) = 2}
  BY Zenon DEF kSubset
<1>2. IsFiniteSet(kSubset(2, M))
  <2>1. IsFiniteSet(SUBSET M)
    BY FS_SUBSET
  <2>. QED
    BY <1>1, <2>1, FS_Subset
<1>3. ASSUME NEW x \in M, NEW y \in M, x # y
      PROVE  {x, y} \in kSubset(2, M)
  <2>1. IsFiniteSet({x}) /\ Cardinality({x}) = 1
    BY FS_Singleton
  <2>2. Cardinality({x} \cup {y}) = 2
    BY <1>3, <2>1, FS_AddElement
  <2>3. {x} \cup {y} = {x, y}
    OBVIOUS
  <2>. QED
    BY <1>1, <2>2, <2>3
<1>4. ASSUME NEW q \in kSubset(2, M)
      PROVE  \E x, y \in M : x # y /\ q = {x, y}
  <2>1. q \in SUBSET M /\ Cardinality(q) = 2
    BY <1>1
  <2>2. IsFiniteSet(q) /\ q # {}
    BY <2>1, FS_Subset, FS_EmptySet
  <2>3. PICK x \in q : TRUE
    BY <2>2
  <2>4. Cardinality(q \ {x}) = 1 /\ IsFiniteSet(q \ {x})
    BY <2>1, <2>2, <2>3, FS_RemoveElement
  <2>5. PICK y : q \ {x} = {y}
    BY <2>4, FS_Singleton
  <2>6. x \in M /\ y \in M /\ x # y /\ q = {x, y}
    BY <2>1, <2>3, <2>5
  <2>. QED
    BY <2>6
<1>. QED
  BY <1>2, <1>3, <1>4

\* A sum over the ordered pairs counts every unordered one twice.
AreOfPairs(g, F, M) == \A x, y \in M : x # y => g[{x, y}] = F[<<x, y>>]
IsSymmetric(F, M) ==
  /\ \A x, y \in M : F[<<x, y>>] = F[<<y, x>>]
  /\ \A x \in M : F[<<x, x>>] = 0

\* The sum over ordered pairs is twice the one over unordered pairs.
LEMMA TwiceThePairs ==
  ASSUME NEW M, IsFiniteSet(M), NEW F, NEW rows, NEW g,
         AreNumbers(F, M, M), AreRows(rows, F, M, M), IsSymmetric(F, M), AreOfPairs(g, F, M)
  PROVE  SumFunctionOnSet(rows, M) = 2 * SumFunctionOnSet(g, kSubset(2, M))
<1>. DEFINE K == kSubset(2, M)
            H == [p \in M \X K |-> IF p[1] \in p[2] THEN g[p[2]] ELSE 0]
            columns == [q \in K |-> 2 * g[q]]
<1>1. /\ IsFiniteSet(K)
      /\ \A x, y \in M : x # y => {x, y} \in K
      /\ \A q \in K : \E x, y \in M : x # y /\ q = {x, y}
  BY PairsAre
<1>2. \A x, y \in M : x # y => g[{x, y}] = F[<<x, y>>] /\ F[<<x, y>>] \in Nat
  BY DEF AreOfPairs, AreNumbers
<1>. HIDE DEF K
<1>3. ASSUME NEW q \in K
      PROVE  g[q] \in Nat
  <2>1. PICK x \in M, y \in M : x # y /\ q = {x, y}
    BY <1>1
  <2>2. g[{x, y}] = F[<<x, y>>] /\ F[<<x, y>>] \in Nat
    BY <1>2, <2>1
  <2>. QED
    BY <2>1, <2>2
<1>4. \A x \in M, q \in K : H[<<x, q>>] = (IF x \in q THEN g[q] ELSE 0) /\ H[<<x, q>>] \in Nat
  <2>1. \A x \in M, q \in K : H[<<x, q>>] = IF x \in q THEN g[q] ELSE 0
    OBVIOUS
  <2>2. \A q \in K : (IF TRUE THEN g[q] ELSE 0) \in Nat
    BY <1>3
  <2>3. \A x \in M, q \in K : (IF x \in q THEN g[q] ELSE 0) \in Nat
    BY <2>2
  <2>. HIDE DEF H
  <2>. QED
    BY <2>1, <2>3
<1>. HIDE DEF H
<1>5. AreRows(rows, H, M, K)
  <2>1. ASSUME NEW x \in M
        PROVE  rows[x] = SumFunctionOnSet([q \in K |-> H[<<x, q>>]], K)
    <3>. DEFINE others == M \ {x}
                f == [y \in M |-> F[<<x, y>>]]
                h == [y \in others |-> {x, y}]
                I == {h[y] : y \in others}
                k == [q \in K |-> H[<<x, q>>]]
    <3>1. \A y \in M : f[y] \in Nat
      BY DEF AreNumbers
    <3>2. f[x] = 0
      BY DEF IsSymmetric
    <3>3. rows[x] = SumFunctionOnSet(f, M)
      BY DEF AreRows
    <3>4. SumFunctionOnSet(f, M) = SumFunctionOnSet(f, others)
      <4>1. SumFunctionOnSet(f, others) \in Nat
        <5>1. IsFiniteSet(others) /\ \A y \in others : f[y] \in Nat
          BY <3>1, FS_Subset
        <5>. HIDE DEF f, others
        <5>. QED
          BY <5>1, SumOf
      <4>. HIDE DEF f
      <4>2. SumFunctionOnSet(f, M) = f[x] + SumFunctionOnSet(f, others)
        BY <3>1, SumOf
      <4>. QED
        BY <3>2, <4>1, <4>2
    <3>5. \A y \in others : f[y] \in Nat /\ g[h[y]] = f[y]
      BY <1>2
    <3>6. \A y, z \in others : h[y] = h[z] => y = z
      OBVIOUS
    <3>7. IsFiniteSet(others)
      BY FS_Subset
    <3>8. SumFunctionOnSet(g, I) = SumFunctionOnSet(f, others)
      <4>. HIDE DEF f, h, others
      <4>. QED
        BY <3>5, <3>6, <3>7, SumRenamed
    <3>9. I \in SUBSET K /\ \A q \in K : q \in I <=> x \in q
      <4>1. \A y \in others : {x, y} \in K
        BY <1>1
      <4>2. I \in SUBSET K /\ \A q \in I : x \in q
        BY <4>1
      <4>3. ASSUME NEW q \in K, x \in q
            PROVE  q \in I
        <5>1. PICK y \in others : q = {x, y}
          <6>1. PICK a \in M, b \in M : a # b /\ q = {a, b}
            BY <1>1
          <6>2. CASE x = a
            BY <6>1, <6>2
          <6>3. CASE x = b
            <7>1. q = {x, a} /\ a \in others
              BY <6>1, <6>3
            <7>. QED
              BY <7>1
          <6>. QED
            BY <4>3, <6>1, <6>2, <6>3
        <5>2. h[y] = q
          BY <5>1
        <5>. QED
          BY <5>2
      <4>. HIDE DEF I
      <4>. QED
        BY <4>2, <4>3
    <3>10. \A q \in I : g[q] \in Nat /\ k[q] = g[q]
      <4>. HIDE DEF I
      <4>. QED
        BY <1>3, <1>4, <3>9
    <3>11. \A q \in K \ I : k[q] = 0
      <4>. HIDE DEF I
      <4>. QED
        BY <1>4, <3>9
    <3>12. SumFunctionOnSet(k, K) = SumFunctionOnSet(g, I)
      <4>. HIDE DEF k, I
      <4>. QED
        BY <1>1, <3>9, <3>10, <3>11, SumOfPart
    <3>. HIDE DEF k, I, f, others
    <3>. QED
      BY <3>3, <3>4, <3>8, <3>12 DEF k
  <2>. QED
    BY <2>1 DEF AreRows
<1>6. AreColumns(columns, H, M, K)
  <2>1. ASSUME NEW q \in K
        PROVE  2 * g[q] = SumFunctionOnSet([x \in M |-> H[<<x, q>>]], M)
    <3>. DEFINE f == [x \in M |-> H[<<x, q>>]]
    <3>1. PICK x \in M, y \in M : x # y /\ q = {x, y}
      BY <1>1
    <3>2. \A z \in M : f[z] \in Nat /\ f[z] = IF z = x \/ z = y THEN g[q] ELSE 0
      BY <1>4, <3>1
    <3>. DEFINE R == M \ {x}
    <3>3. y \in R /\ IsFiniteSet(R) /\ \A z \in R \ {y} : f[z] = 0
      BY <3>1, <3>2, FS_Subset
    <3>4. f[x] = g[q] /\ f[y] = g[q] /\ f[y] \in Nat
      BY <3>2
    <3>. HIDE DEF f
    <3>5. SumFunctionOnSet(f, M) = f[x] + SumFunctionOnSet(f, R)
      BY <3>2, SumOf
    <3>. HIDE DEF R
    <3>6. SumFunctionOnSet(f, R) = f[y]
      BY <3>3, <3>4, SumOfOne
    <3>7. 2 * g[q] = SumFunctionOnSet(f, M)
      BY <1>3, <3>4, <3>5, <3>6
    <3>. QED
      BY <3>7 DEF f
  <2>2. \A q \in K : columns[q] = 2 * g[q]
    OBVIOUS
  <2>. HIDE DEF columns
  <2>. QED
    BY <2>1, <2>2 DEF AreColumns
<1>7. SumFunctionOnSet(rows, M) = SumFunctionOnSet(columns, K)
  <2>1. AreNumbers(H, M, K)
    BY <1>4 DEF AreNumbers
  <2>. HIDE DEF columns
  <2>. QED
    BY <1>1, <1>5, <1>6, <2>1, SumsSwap
<1>8. SumFunctionOnSet(columns, K) = 2 * SumFunctionOnSet(g, K)
  <2>1. \A q \in K : g[q] \in Nat /\ columns[q] = 2 * g[q]
    BY <1>3
  <2>2. IsFiniteSet(K) /\ 2 \in Nat
    BY <1>1
  <2>. HIDE DEF columns
  <2>. QED
    BY <2>1, <2>2, SumOfMultiples
<1>. QED
  BY <1>7, <1>8 DEF K

PairsOn(G, v) ==
  [p \in (G.node \ {v}) \X (G.node \ {v}) |-> Pair(G, p[1], p[2], v)]
OtherOf(pair) == CHOOSE x \in pair : x # Some(pair)
PairSums(G, v) ==
  [pair \in kSubset(2, G.node \ {v}) |-> Pair(G, Some(pair), OtherOf(pair), v)]
DependenciesOn(G, v) ==
  [s \in G.node |-> [a \in G.node |-> Dependencies(G, Unit(G), a)][s][v]]

\* The two betweennesses, from their tables.
LEMMA BetweennessTables ==
  ASSUME NEW G, NEW v \in G.node
  PROVE  LET n == Cardinality(G.node)
             sum == SumFunctionOnSet(DependenciesOn(G, v), G.node \ {v})
         IN  /\ Betweenness(G)[v] = IF n > 2 THEN <<2 * sum, Unit(G) * (n - 1) * (n - 2)>>
                                             ELSE <<sum, Unit(G)>>
             /\ BetweennessByDefinition(G, Unit(G))[v]
                  = SumFunctionOnSet(PairSums(G, v), kSubset(2, G.node \ {v}))
<1>. DEFINE n == Cardinality(G.node)
            N == G.node
            all == [a \in N |-> Dependencies(G, Unit(G), a)]
            On(table, a) == SumFunctionOnSet([s \in N |-> table[s][a]], N \ {a})
            Entry(table, a) == IF n > 2 THEN <<2 * On(table, a), Unit(G) * (n - 1) * (n - 2)>>
                                        ELSE <<On(table, a), Unit(G)>>
            Table(table) == [a \in N |-> Entry(table, a)]
            Shared(a) == SumFunctionOnSet(PairSums(G, a), kSubset(2, N \ {a}))
            shared == [a \in N |-> Shared(a)]
<1>1. Betweenness(G) = Tabulated(Table(Tabulated(all)))
  BY Zenon DEF Betweenness
<1>2. Betweenness(G) = Table(all)
  <2>. HIDE DEF Table, all
  <2>. QED
    BY <1>1, TableIsItself
<1>3. Betweenness(G)[v] = Entry(all, v)
  <2>. HIDE DEF Entry, all
  <2>. QED
    BY <1>2
<1>4. On(all, v) = SumFunctionOnSet(DependenciesOn(G, v), N \ {v})
  BY Zenon DEF DependenciesOn
<1>5. BetweennessByDefinition(G, Unit(G)) = Tabulated(shared)
  BY Zenon DEF BetweennessByDefinition, PairSums, Pair, Some, OtherOf
<1>6. BetweennessByDefinition(G, Unit(G))[v] = Shared(v)
  <2>. HIDE DEF Shared
  <2>1. Tabulated(shared) = shared
    BY TableIsItself
  <2>. QED
    BY <1>5, <2>1
<1>. HIDE DEF On, all
<1>. QED
  BY <1>3, <1>4, <1>6

\* Brandes' algorithm counts what betweenness is defined to count, from both ends.
LEMMA BetweennessIs ==
  ASSUME NEW G, IsFiniteSet(G.node), NEW v \in G.node
  PROVE  LET n == Cardinality(G.node)
         IN  Betweenness(G)[v] =
               IF n > 2 THEN <<2 * 2 * BetweennessByDefinition(G, Unit(G))[v],
                               Unit(G) * (n - 1) * (n - 2)>>
                        ELSE <<0, Unit(G)>>
<1>. DEFINE n == Cardinality(G.node)
            N == G.node
            M == N \ {v}
            F == PairsOn(G, v)
            g == PairSums(G, v)
            rows == DependenciesOn(G, v)
            K == kSubset(2, M)
<1>1. IsFiniteSet(M) /\ Cardinality(M) = n - 1 /\ n \in Nat
  BY FS_CardinalityType, FS_RemoveElement
<1>2. \A s, t \in M : F[<<s, t>>] = Pair(G, s, t, v) /\ s \in N /\ t \in N
  BY DEF PairsOn
<1>. HIDE DEF F
<1>3. AreNumbers(F, M, M)
  <2>1. \A s, t \in M : Pair(G, s, t, v) \in Nat
    BY <1>2, PairIs
  <2>. HIDE DEF M
  <2>. QED
    BY <1>2, <2>1 DEF AreNumbers
<1>4. IsSymmetric(F, M)
  <2>1. ASSUME NEW s \in M, NEW t \in M
        PROVE  F[<<s, t>>] = F[<<t, s>>]
    <3>1. Pair(G, s, t, v) = Pair(G, t, s, v)
      BY PairsHaveNoOrder
    <3>. HIDE DEF M
    <3>. QED
      BY <1>2, <3>1
  <2>2. ASSUME NEW s \in M
        PROVE  F[<<s, s>>] = 0
    <3>1. Pair(G, s, s, v) = 0
      BY PairsHaveNoOrder
    <3>. HIDE DEF M
    <3>. QED
      BY <1>2, <3>1
  <2>. HIDE DEF M
  <2>. QED
    BY <2>1, <2>2 DEF IsSymmetric
<1>5. AreRows(rows, F, M, M)
  <2>1. ASSUME NEW s \in M
        PROVE  rows[s] = SumFunctionOnSet([t \in M |-> F[<<s, t>>]], M)
    <3>. DEFINE f == PairsFrom(G, s, v)
                h == [t \in M |-> F[<<s, t>>]]
    <3>1. rows[s] = Dependencies(G, Unit(G), s)[v]
      BY DEF DependenciesOn
    <3>2. Dependencies(G, Unit(G), s)[v] = Dependency(G, s, v)
      BY DependenciesAre
    <3>3. Dependency(G, s, v) = SumFunctionOnSet(f, M)
      BY DEF Dependency
    <3>4. \A t \in M : f[t] = Pair(G, s, t, v) /\ f[t] \in Nat
      BY PairIs DEF PairsFrom
    <3>5. \A t \in M : f[t] \in Nat /\ h[t] = f[t]
      <4>. HIDE DEF M, f
      <4>. QED
        BY <1>2, <3>4
    <3>. HIDE DEF f, h, M, rows
    <3>6. SumFunctionOnSet(h, M) = SumFunctionOnSet(f, M)
      BY <1>1, <3>5, SameSum
    <3>. QED
      BY <3>1, <3>2, <3>3, <3>6 DEF h
  <2>. HIDE DEF rows, M
  <2>. QED
    BY <2>1 DEF AreRows
<1>6. AreOfPairs(g, F, M)
  <2>1. ASSUME NEW x \in M, NEW y \in M, x # y
        PROVE  g[{x, y}] = F[<<x, y>>]
    <3>. DEFINE q == {x, y}
                s == Some(q)
                t == OtherOf(q)
    <3>1. q \in K
      BY <1>1, <2>1, PairsAre
    <3>2. s \in q
      BY DEF Some
    <3>3. t \in q /\ t # s
      <4>1. \E z \in q : z # s
        BY <2>1
      <4>. HIDE DEF q
      <4>. QED
        BY <4>1 DEF OtherOf
    <3>4. g[q] = Pair(G, s, t, v)
      <4>. HIDE DEF q
      <4>. QED
        BY <3>1 DEF PairSums
    <3>. HIDE DEF s, t, g
    <3>5. (s = x /\ t = y) \/ (s = y /\ t = x)
      BY <3>2, <3>3
    <3>6. Pair(G, x, y, v) = Pair(G, y, x, v)
      BY PairsHaveNoOrder
    <3>. HIDE DEF M
    <3>. QED
      BY <1>2, <3>4, <3>5, <3>6
  <2>. HIDE DEF g, M
  <2>. QED
    BY <2>1 DEF AreOfPairs
<1>7. SumFunctionOnSet(rows, M) = 2 * SumFunctionOnSet(g, K)
  <2>. HIDE DEF rows, g, M
  <2>. QED
    BY <1>1, <1>3, <1>4, <1>5, <1>6, TwiceThePairs DEF K
<1>8. SumFunctionOnSet(g, K) \in Nat
  <2>1. IsFiniteSet(K) /\ \A q \in K : \E x, y \in M : x # y /\ q = {x, y}
    BY <1>1, PairsAre
  <2>2. ASSUME NEW q \in K
        PROVE  g[q] \in Nat
    <3>1. PICK x \in M, y \in M : x # y /\ q = {x, y}
      BY <2>1
    <3>2. g[{x, y}] = F[<<x, y>>] /\ F[<<x, y>>] \in Nat
      <4>. HIDE DEF g, M
      <4>. QED
        BY <1>3, <1>6, <3>1 DEF AreNumbers, AreOfPairs
    <3>. QED
      BY <3>1, <3>2
  <2>. HIDE DEF g, K
  <2>. QED
    BY <2>1, <2>2, SumOf
<1>9. ASSUME ~(n > 2)
      PROVE  SumFunctionOnSet(g, K) = 0
  <2>1. K = {}
    <3>1. ASSUME NEW q \in K
          PROVE  FALSE
      <4>1. q \in SUBSET M /\ Cardinality(q) = 2
        BY DEF kSubset
      <4>2. Cardinality(q) <= Cardinality(M)
        BY <1>1, <4>1, FS_Subset
      <4>. HIDE DEF M, n
      <4>. QED
        BY <1>1, <1>9, <4>1, <4>2
    <3>. QED
      BY <3>1
  <2>. HIDE DEF g, K
  <2>. QED
    BY <2>1, FS_EmptySet, SumOfZeros
<1>10. /\ Betweenness(G)[v] =
            IF n > 2 THEN <<2 * SumFunctionOnSet(rows, M), Unit(G) * (n - 1) * (n - 2)>>
                     ELSE <<SumFunctionOnSet(rows, M), Unit(G)>>
       /\ BetweennessByDefinition(G, Unit(G))[v] = SumFunctionOnSet(g, K)
  BY BetweennessTables
<1>. HIDE DEF rows, g, K, M, n
<1>11. 2 * (2 * SumFunctionOnSet(g, K)) = 2 * 2 * SumFunctionOnSet(g, K)
  BY <1>8
<1>. QED
  BY <1>7, <1>9, <1>10, <1>11 DEF n

\* Whatever graph a crawl found, the betweenness that the report shows of a node is the
\* share of the shortest paths between other nodes that lead through it, twice over.
THEOREM BetweennessIsCounted == ReportSpec => []BetweennessCountsShortestPaths
<1>1. ReportInit => BetweennessCountsShortestPaths
  BY DEF ReportInit, BetweennessCountsShortestPaths, IsReported
<1>2. ASSUME IInv, ReportIsOfTheEnd, BetweennessCountsShortestPaths,
             [ReportNext]_<<vars, reportVars>>
      PROVE  BetweennessCountsShortestPaths'
  <2>1. CASE IsReported
    <3>1. UNCHANGED <<vars, reportVars>>
      BY <1>2, <2>1, ReportedStays
    <3>2. results' = results /\ summary' = summary /\ Graph' = Graph /\ Crawled' = Crawled
      BY <3>1 DEF vars, reportVars, Graph, Crawled
    <3>. QED
      BY <1>2, <2>1, <3>2 DEF BetweennessCountsShortestPaths, IsReported
  <2>2. CASE Report
    <3>1. PICK answered \in Lookups : results' = Scored(Analyzed(answered))
      BY <2>2 DEF Report
    <3>2. UNCHANGED vars
      BY <2>2 DEF Report
    <3>3. Graph' = Graph /\ Crawled' = Crawled
      BY <3>2 DEF vars, Graph, Crawled
    <3>4. ASSUME NEW a \in Crawled
          PROVE  results'[a].betweenness =
                   IF Cardinality(Crawled) > 2
                   THEN <<2 * 2 * BetweennessByDefinition(Graph, Unit(Graph))[a],
                          Unit(Graph) * (Cardinality(Crawled) - 1) * (Cardinality(Crawled) - 2)>>
                   ELSE <<0, Unit(Graph)>>
      <4>1. results'[a].betweenness = Betweenness(Graph)[a]
        BY <3>1, ScoredIs DEF IsScored
      <4>2. Graph.node = Crawled /\ IsFiniteSet(Crawled)
        BY <1>2 DEF Graph, IInv
      <4>. QED
        BY <4>1, <4>2, BetweennessIs
    <3>. QED
      BY <3>3, <3>4 DEF BetweennessCountsShortestPaths
  <2>3. CASE ~IsReported /\ ~Report
    BY <1>2, <2>3 DEF ReportNext, Crawling, reportVars, IsReported, BetweennessCountsShortestPaths
  <2>. QED
    BY <2>1, <2>2, <2>3
<1>. QED
  BY <1>1, <1>2, ReportImplementsCrawl, Invariance, ReportIsAtTheEnd, PTL
     DEF ReportSpec, FairSpec
=============================================================================
