------------------------------ MODULE Crawler ------------------------------
(***************************************************************************)
(* The breadth-first crawl of the Arweave peer network (NodeCrawler in     *)
(* src/arweave/node-crawler.ts): workers share a queue of addresses, ask a *)
(* node for /info and then for /peers, and queue the peers it lists.       *)
(*                                                                         *)
(* The program has one thread: what a worker does between two awaits is    *)
(* one action.  A host may answer a request or not, and list any of the    *)
(* peers it is given as a constant.  A request fails when the connection   *)
(* breaks, stays silent for the timeout or brings no usable JSON.  It      *)
(* never settles when the answer is cut short after its header (no "end",  *)
(* and nobody listens for "error" on the response) or keeps trickling in.  *)
(*                                                                         *)
(* Left out: what /info says of a node, times, and the order and           *)
(* multiplicity of edges and inbound peers.  An address is a host and the  *)
(* text of its port; junk that is no address at all is not listed.         *)
(***************************************************************************)
EXTENDS Naturals, Sequences, FiniteSets

CONSTANTS
  IPv4, IPv6,  \* hosts, by the form of their address
  Workers,     \* config.concurrency of them
  MaxNodes,    \* config.maxNodes
  Retries,     \* config.retries
  Seeds,       \* config.seedNodes: a sequence of peers as written
  Lists        \* [IPv4 -> the answers to /peers: sequences of peers as written]

\* The port of an address as a peer may write it: none, the default in two ways, zero,
\* more than there are, and a word.
PortTexts == {"none", "1984", "01984", "0", "70000", "word"}
Written == (IPv4 \cup IPv6) \X PortTexts
Addresses == (IPv4 \cup IPv6) \X (PortTexts \ {"none", "word"})

\* normalizeAddress: null for a port that does not start with a number; a missing one
\* becomes the default and any other keeps its text.
IsAddress(peer) == peer[2] # "word"
Normalized(peer) == IF peer[2] = "none" THEN <<peer[1], "1984">> ELSE peer

Elements(s) == {s[i] : i \in 1 .. Len(s)}

\* The elements of s at the indices in W, in their order: SelectSeq, put so that a proof
\* need not unfold a recursion.
Rank(W, i) == Cardinality({j \in W : j <= i})
Kept(s, W) == [k \in 1 .. Cardinality(W) |-> s[CHOOSE i \in W : Rank(W, i) = k]]

NormalizeAll(peers) ==
  LET addresses == Kept(peers, {i \in 1 .. Len(peers) : IsAddress(peers[i])})
  IN  [i \in 1 .. Len(addresses) |-> Normalized(addresses[i])]

\* processNode parses the address again.  `parseInt(portStr) || DEFAULT_PORT` takes zero
\* for the default.  Split at its colons, an IPv6 address has its first group for a host
\* and the second, which is no port, for a port: no request ever reaches it.
Port(address) == IF address[2] = "70000" THEN 70000 ELSE 1984
PortIsValid(address) == address[1] \in IPv6 \/ Port(address) \in 1 .. 65535
CanAnswer(address) == address[1] \in IPv4

ASSUME WorkersAssumption == IsFiniteSet(Workers) /\ Workers # {}
ASSUME LimitsAreNat == MaxNodes \in Nat \ {0} /\ Retries \in Nat
ASSUME HostsDiffer == IPv4 \cap IPv6 = {}
ASSUME PeersAreWritten ==
  /\ Seeds \in Seq(Written)
  /\ Lists \in [IPv4 -> SUBSET Seq(Written)]

NoAddress == <<>>

VARIABLES
  queue,       \* addresses to crawl, some more than once
  visited,     \* addresses a worker took from it
  nodes,       \* [addresses crawled -> a Node]
  edges,       \* {<<source, target>>}
  responsive,  \* responsiveCount
  failed,      \* failedCount
  worker,      \* [Workers -> a Worker]
  dropped      \* history: addresses that were not queued because the queue was full

vars == <<queue, visited, nodes, edges, responsive, failed, worker, dropped>>

Node == [isResponsive : BOOLEAN, inboundPeers : SUBSET Addresses]

\* `attempt` counts the failed requests for /info, `cut` is a request that never settles.
Worker == [pc : {"start", "loop", "info", "peers", "done"},
           address : Addresses \cup {NoAddress},
           attempt : Nat,
           cut : BOOLEAN]

At(pc, address) == [pc |-> pc, address |-> address, attempt |-> 0, cut |-> FALSE]

Crawled == DOMAIN nodes
\* Mutant of Enough: an off-by-one.
EnoughAtOneMore == Cardinality(Crawled) > MaxNodes

Enough == Cardinality(Crawled) >= MaxNodes
MaxQueueSize == MaxNodes * 3

Requesting == {w \in Workers : worker[w].pc \in {"info", "peers"}}
Done(w) == worker[w].pc = "done"
Finished == \A w \in Workers : Done(w)

TypeOK ==
  /\ queue \in Seq(Addresses)
  /\ visited \subseteq Addresses
  /\ Crawled \subseteq Addresses
  /\ nodes \in [Crawled -> Node]
  /\ edges \subseteq Addresses \X Addresses
  /\ responsive \in Nat /\ failed \in Nat
  /\ worker \in [Workers -> Worker]
  /\ dropped \subseteq Addresses

\* Nothing is visited yet when the seeds are queued: a seed given twice is queued twice.
Init ==
  /\ queue = NormalizeAll(Seeds)
  /\ visited = {}
  /\ nodes = [a \in {} |-> [isResponsive |-> FALSE, inboundPeers |-> {}]]
  /\ edges = {}
  /\ responsive = 0 /\ failed = 0
  /\ worker = [w \in Workers |-> At("start", NoAddress)]
  /\ dropped = {}

-----------------------------------------------------------------------------
(***************************************************************************)
(* The loop of a worker.  The workers all run up to their first await      *)
(* before anything else happens.                                           *)
(***************************************************************************)
AllStarted == \A w \in Workers : worker[w].pc # "start"

HasTheTurn(w) == worker[w].pc = "start" \/ (worker[w].pc = "loop" /\ AllStarted)

\* Mutant of IsNext: an address counts as visited once it has a node.
IsNextWithoutNode(i) == queue[i] \notin Crawled /\ \A j \in 1 .. i - 1 : queue[j] \in Crawled

\* Where the first address is that nobody visited.
IsNext(i) == queue[i] \notin visited /\ \A j \in 1 .. i - 1 : queue[j] \in visited

\* Mutant of Take: one address more leaves the queue.
TakeShiftsTwice(w) ==
  /\ HasTheTurn(w)
  /\ ~Enough
  /\ \E i \in 1 .. Len(queue) :
       /\ IsNext(i)
       /\ queue' = SubSeq(queue, i + 2, Len(queue))
       /\ visited' = visited \cup {queue[i]}
       /\ worker' = [worker EXCEPT ![w] = IF PortIsValid(queue[i])
                                          THEN At("info", queue[i])
                                          ELSE At("loop", NoAddress)]
  /\ UNCHANGED <<nodes, edges, responsive, failed, dropped>>

\* An address whose port is out of range is done with at once, and leaves no node.
Take(w) ==
  /\ HasTheTurn(w)
  /\ ~Enough
  /\ \E i \in 1 .. Len(queue) :
       /\ IsNext(i)
       /\ queue' = SubSeq(queue, i + 1, Len(queue))
       /\ visited' = visited \cup {queue[i]}
       /\ worker' = [worker EXCEPT ![w] = IF PortIsValid(queue[i])
                                          THEN At("info", queue[i])
                                          ELSE At("loop", NoAddress)]
  /\ UNCHANGED <<nodes, edges, responsive, failed, dropped>>

\* A worker leaves for good, also when others are about to queue more.
Leave(w) ==
  /\ HasTheTurn(w)
  /\ \/ Enough /\ UNCHANGED queue
     \/ ~Enough /\ Elements(queue) \subseteq visited /\ queue' = <<>>
  /\ worker' = [worker EXCEPT ![w] = At("done", NoAddress)]
  /\ UNCHANGED <<visited, nodes, edges, responsive, failed, dropped>>

-----------------------------------------------------------------------------
(***************************************************************************)
(* Requests.                                                               *)
(***************************************************************************)
Waiting(w, what) == AllStarted /\ worker[w].pc = what /\ ~worker[w].cut

Returned(w) == worker' = [worker EXCEPT ![w] = At("loop", NoAddress)]

InfoAnswers(w) ==
  /\ Waiting(w, "info")
  /\ CanAnswer(worker[w].address)
  /\ responsive' = responsive + 1
  /\ worker' = [worker EXCEPT ![w] = At("peers", @.address)]
  /\ UNCHANGED <<queue, visited, nodes, edges, failed, dropped>>

Added(address, isResponsive) ==
  [a \in Crawled \cup {address} |->
     IF a = address THEN [isResponsive |-> isResponsive, inboundPeers |-> {}] ELSE nodes[a]]

\* Mutant of RetryInfo: the attempt is not counted.
RetryInfoForever(w) ==
  /\ Waiting(w, "info")
  /\ worker[w].attempt < Retries
  /\ UNCHANGED vars

RetryInfo(w) ==
  /\ Waiting(w, "info")
  /\ worker[w].attempt < Retries
  /\ worker' = [worker EXCEPT ![w].attempt = @ + 1]
  /\ UNCHANGED <<queue, visited, nodes, edges, responsive, failed, dropped>>

InfoFails(w) ==
  /\ Waiting(w, "info")
  /\ worker[w].attempt >= Retries
  /\ failed' = failed + 1
  /\ nodes' = Added(worker[w].address, FALSE)
  /\ Returned(w)
  /\ UNCHANGED <<queue, visited, edges, responsive, dropped>>

\* The peers to queue, and as many of them as there is room for.
Wanted(peers) ==
  Kept(peers, {i \in 1 .. Len(peers) : peers[i] \notin visited /\ ~Enough})
Admitted(peers) ==
  LET room == IF Len(queue) < MaxQueueSize THEN MaxQueueSize - Len(queue) ELSE 0
  IN  IF Len(Wanted(peers)) <= room THEN Wanted(peers) ELSE SubSeq(Wanted(peers), 1, room)

\* Peers crawled before learn that they are listed, and then the node itself is added:
\* peers crawled later never learn it.
PeersAnswer(w) ==
  LET source == worker[w].address
  IN  /\ Waiting(w, "peers")
      /\ CanAnswer(source)
      /\ \E list \in Lists[source[1]] :
           LET peers == NormalizeAll(list)
           IN  /\ edges' = edges \cup {<<source, target>> : target \in Elements(peers)}
               /\ nodes' = [a \in Crawled \cup {source} |->
                              IF a = source THEN [isResponsive |-> TRUE, inboundPeers |-> {}]
                              ELSE IF a \in Elements(peers)
                              THEN [nodes[a] EXCEPT !.inboundPeers = @ \cup {source}]
                              ELSE nodes[a]]
               /\ queue' = queue \o Admitted(peers)
               /\ dropped' = dropped \cup (Elements(Wanted(peers)) \ Elements(Admitted(peers)))
      /\ Returned(w)
      /\ UNCHANGED <<visited, responsive, failed>>

PeersFail(w) ==
  /\ Waiting(w, "peers")
  /\ nodes' = Added(worker[w].address, TRUE)
  /\ Returned(w)
  /\ UNCHANGED <<queue, visited, edges, responsive, failed, dropped>>

\* The answer starts and never ends.
Cut(w) ==
  /\ Waiting(w, "info") \/ Waiting(w, "peers")
  /\ CanAnswer(worker[w].address)
  /\ worker' = [worker EXCEPT ![w].cut = TRUE]
  /\ UNCHANGED <<queue, visited, nodes, edges, responsive, failed, dropped>>

-----------------------------------------------------------------------------
\* What a worker does without the help of a host: a request that brings nothing fails
\* at its timeout.
Proceeds(w) == Take(w) \/ Leave(w) \/ RetryInfo(w) \/ InfoFails(w) \/ PeersFail(w)

Next ==
  \E w \in Workers : Proceeds(w) \/ InfoAnswers(w) \/ PeersAnswer(w) \/ Cut(w)

Spec == Init /\ [][Next]_vars
FairSpec == Spec /\ \A w \in Workers : WF_vars(Proceeds(w))
-----------------------------------------------------------------------------
(***************************************************************************)
(* Properties.                                                             *)
(***************************************************************************)

\* The requests under way are for addresses that were taken, that have no node yet, and
\* that no other worker asks.
OneWorkerPerAddress ==
  \A w \in Requesting :
    /\ worker[w].address \in visited \ Crawled
    /\ \A v \in Requesting : worker[v].address = worker[w].address => v = w

\* An edge comes from a node that answered, and an inbound peer from an edge.
EdgesComeFromAnswers ==
  /\ \A e \in edges : e[1] \in Crawled /\ nodes[e[1]].isResponsive
  /\ \A a \in Crawled : \A p \in nodes[a].inboundPeers : <<p, a>> \in edges

\* Below the limit, every peer that was listed is visited, waits in the queue, or found
\* it full.
NothingIsForgotten ==
  Enough \/ \A e \in edges : e[2] \in visited \cup Elements(queue) \cup dropped

\* The last worker leaves nothing behind.
QueueIsServed == Finished => queue = <<>> \/ Enough

\* MAX_NODES is a threshold, not a maximum (README.md:170): each worker but one may
\* add a node after it is reached, and no more than that.
CrawlIsBounded ==
  Cardinality(Crawled) + Cardinality(Requesting) < MaxNodes + Cardinality(Workers)

QueueIsBounded == Len(queue) <= Len(Seeds) \/ Len(queue) <= MaxQueueSize

IInv ==
  /\ TypeOK
  /\ OneWorkerPerAddress
  /\ Crawled \subseteq visited /\ IsFiniteSet(Crawled)
  /\ EdgesComeFromAnswers
  /\ NothingIsForgotten
  /\ QueueIsServed
  /\ CrawlIsBounded
  /\ QueueIsBounded

Responsive == {a \in Crawled : nodes[a].isResponsive}
Failed == Crawled \ Responsive
Answered == {w \in Workers : worker[w].pc = "peers"}

\* The counts of calculateStats are those of the nodes: once the crawl is over the
\* responsive and the failed ones add up to all of them, and before that the only node
\* counted and not yet added is one that is asked for its peers.
CountsMatch ==
  /\ failed = Cardinality(Failed)
  /\ responsive = Cardinality(Responsive) + Cardinality(Answered)

\* A crawl that ends below its limit has visited every peer that any node listed, but
\* for those that found the queue full: workers that leave early, because the queue was
\* empty while others were still asking, lose nothing (node-crawler.ts:51-68).
NoFrontierIsLeft ==
  Finished => Enough \/ \A e \in edges : e[2] \in visited \cup dropped

KeepsNode(a) ==
  /\ a \in Crawled'
  /\ nodes'[a].isResponsive = nodes[a].isResponsive
  /\ nodes[a].inboundPeers \subseteq nodes'[a].inboundPeers

\* A node is crawled once: no later answer, for this address or another, changes what was
\* found or takes an inbound peer away.
NodesAreCrawledOnce == [][\A a \in Crawled : KeepsNode(a)]_vars

\* Every worker ends, or is held by an answer that never does (node-crawler.ts:188-231
\* settles on "end", "error" of the request and "timeout" only).
CrawlSettles == <>(\A w \in Workers : Done(w) \/ worker[w].cut)
=============================================================================
