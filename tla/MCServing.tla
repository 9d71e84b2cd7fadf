----------------------------- MODULE MCServing -----------------------------
(* Constants for Serving: the portal takes compressed answers and polls the  *)
(* manifest and the document it points at, the script reads the homepage.    *)
EXTENDS Serving, TLC

CONSTANTS portal, script, doc, page

MCPolls == (portal :> {doc, Index}) @@ (script :> {page})
=============================================================================
