---------------------------- MODULE MCAgentPool ----------------------------
(* AgentPool on small instances. *)
EXTENDS AgentPool

CONSTANTS l1, l2
OneLoc == {l1}
TwoLocs == {l1, l2}
SyncOnly == {FALSE}
SyncAndAsync == BOOLEAN
=============================================================================
