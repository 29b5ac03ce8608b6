----------------------------- MODULE MCEventLog -----------------------------
(***************************************************************************)
(* EventLog.tla with two writers, on every platform and with every fault.  *)
(***************************************************************************)
EXTENDS EventLog, TLC

CONSTANTS u, v    \* writers

=============================================================================
