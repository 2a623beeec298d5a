---------------------------- MODULE MCGitBudget -----------------------------
(* Two threads and both pools, one slot each.                              *)
EXTENDS GitBudget

TwoThreads == {"t1", "t2"}
BothPools == {"Local", "Served"}
OneSlot == [p \in BothPools |-> 1]
ShortQueues == [p \in BothPools |-> IF p = "Local" THEN 1 ELSE 0]
=============================================================================
