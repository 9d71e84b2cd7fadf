----------------------------- MODULE MCPollLock -----------------------------
(* Constants for PollLock: a supervised daemon and a --once run on one host,  *)
(* and a --once run on another host that shares the file.                     *)
EXTENDS PollLock, TLC

CONSTANTS daemon, once, elsewhere, here, there

MCHostOf == (daemon :> here) @@ (once :> here) @@ (elsewhere :> there)
=============================================================================
