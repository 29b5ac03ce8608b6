---------------------------- MODULE MCProcessTree ----------------------------
(***************************************************************************)
(* ProcessTree.tla with a command and one or two descendants.              *)
(***************************************************************************)
EXTENDS ProcessTree, TLC

CONSTANTS p, d, e    \* the command and its descendants
=============================================================================
