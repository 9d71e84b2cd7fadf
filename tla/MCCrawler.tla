----------------------------- MODULE MCCrawler -----------------------------
(* Constants for Crawler: three IPv4 hosts and one IPv6 host.  One seed is given in   *)
(* two spellings of one address, so that of three workers one finds nothing new.      *)
(* h1 lists two hosts, or one address with no valid port as often as the queue has    *)
(* room and then a host that finds it full.  h2 and h3 list hosts that are there      *)
(* already, and some under another spelling of their port, which are new addresses.   *)
(* h1 and h2 share a range, h1 and h3 a provider and a city, and the lookup may find  *)
(* all of them, two or none.                                                          *)
EXTENDS NodeReport

CONSTANTS h1, h2, h3, v6, w1, w2, w3

MCSeeds == <<<<h1, "1984">>, <<h1, "none">>, <<h2, "none">>, <<v6, "1984">>>>

Full == [i \in 1 .. MaxQueueSize + 1 |->
           IF i > MaxQueueSize THEN <<h3, "1984">> ELSE <<h2, "70000">>]

MCLists ==
  (h1 :> {<<<<h2, "none">>, <<h3, "1984">>>>, Full}) @@
  (h2 :> {<<<<h1, "01984">>, <<h3, "1984">>, <<h3, "word">>>>, <<<<v6, "none">>, <<h1, "0">>>>}) @@
  (h3 :> {<<<<h2, "1984">>, <<h3, "0">>, <<h1, "01984">>>>})

MCRange24 == (h1 :> "a") @@ (h2 :> "a") @@ (h3 :> "b")
MCRange16 == [h \in IPv4 |-> "A"]
MCVersion == (h1 :> "v1") @@ (h2 :> "v1") @@ (h3 :> "v2")
Located(city, isp, provider) ==
  [country |-> "DE", city |-> city, isp |-> isp, asn |-> isp, provider |-> provider,
   hosting |-> provider # None]
MCPlace ==
  (h1 :> Located("Berlin", "i1", "Hetzner")) @@ (h2 :> Located("Berlin", "i2", None)) @@
  (h3 :> Located("Berlin", "i1", "Hetzner"))
MCLookups == {{}, {h1, h3}, {h1, h2, h3}}
MCMany == [range24 |-> 2, range16 |-> 4, city |-> 2, isp |-> 2, asn |-> 2, site |-> 2,
           alike |-> 2]
MCShown == [providers |-> 1, ranges |-> 1]

\* Kept is SelectSeq, on every sequence over four values up to length three.
ASSUME KeptIsSelectSeq ==
  \A n \in 0 .. 3 : \A s \in [1 .. n -> 1 .. 4] :
    LET IsEven(e) == e % 2 = 0
    IN  Kept(s, {i \in 1 .. n : IsEven(s[i])}) = SelectSeq(s, IsEven)
=============================================================================
