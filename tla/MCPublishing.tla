---------------------------- MODULE MCPublishing ----------------------------
(* Constants for Publishing: the daily analysis waits for the lock and owns a *)
(* document and the homepage, the findings cadence skips and owns another     *)
(* document.                                                                  *)
EXTENDS Publishing, TLC

CONSTANTS daily, findings, network, observers, homepage

\* In the order of the code's ten minutes, a day and a wait of five and a half minutes.
MCPeriod == (daily :> 6) @@ (findings :> 4)

MCOwns == (daily :> {network, homepage}) @@ (findings :> {observers})
=============================================================================
