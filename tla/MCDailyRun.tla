----------------------------- MODULE MCDailyRun -----------------------------
(* Constants for DailyRun: five gateways on three domains, one of which is leaving the *)
(* network, on pages of three.  Two of one domain are on one server or on two, whose   *)
(* provider and country are the same.  Three of three domains may meet on one server.  *)
EXTENDS DailyRun

CONSTANTS g1, g2, g3, g4, g5

Gateway(fqdn, base, wallet, stake, joined) ==
  [fqdn |-> fqdn, base |-> base, pattern |-> IF base = "d1" THEN "prefix_number" ELSE "unique",
   wallet |-> wallet, stake |-> stake, registered |-> 100 * stake, joined |-> joined]

MCRegistered ==
  (g1 :> Gateway("n1", "d1", "w1", 2, TRUE)) @@ (g2 :> Gateway("n2", "d2", "w2", 2, TRUE)) @@
  (g3 :> Gateway("n3", "d3", "w1", 1, TRUE)) @@ (g4 :> Gateway("n4", "d1", "w1", 1, TRUE)) @@
  (g5 :> Gateway("n5", "d5", "w3", 1, FALSE))

MCOrders == {<<g1, g2, g5, g4, g3>>, <<g3, g1, g4, g5, g2>>}
MCAddresses ==
  ("n1" :> {"a"}) @@ ("n2" :> {"a", None}) @@ ("n3" :> {"a"}) @@ ("n4" :> {"a", "b", None})
MCRange24 == ("a" :> "r") @@ ("b" :> "s")
At(spot, asn) ==
  [city |-> "Berlin", country |-> "DE", isp |-> "Hetzner", asn |-> asn, spot |-> spot,
   hosting |-> TRUE]
MCPlace == ("a" :> At("north", "AS1")) @@ ("b" :> At("south", "AS2"))
MCLookups == {{}, {"a", "b"}}
Says(server, speed) ==
  [server |-> server, http |-> "1.1", issuer |-> "LE", speed |-> speed, release |-> "77"]
MCFingerprint ==
  [n \in {"n1", "n2", "n3", "n4"} |-> IF n = "n3" THEN Says(None, "slow") ELSE Says("nginx", "fast")]
MCAnswering == {{"n1", "n2", "n3", "n4"}}
MCFar == {<<"north", "south">>}
MCMany == [city |-> 3, isp |-> 4, hosted |-> 2, asn |-> 3]
=============================================================================
