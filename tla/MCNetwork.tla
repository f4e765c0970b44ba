----------------------------- MODULE MCNetwork -----------------------------
(***************************************************************************)
(* Network for TLC.  What competes for a name and what competes for a      *)
(* place in the pool is explored apart, to keep the sum of the states and  *)
(* not their product: listeners, reloads and staples with one connection,  *)
(* or two connections with fewer listeners.                                *)
(***************************************************************************)
EXTENDS Network

CONSTANTS
    Second,         \* the connections that only the pool's behaviours have
    PoolListens     \* how often these listen

VARIABLE part

MCInit == Init /\ part \in {"listeners", "pool"}

Bounds ==
    \/ part = "listeners" /\ \A c \in Second : conn'[c] = Fresh
    \/ part = "pool" /\ listens' <= PoolListens /\ UNCHANGED <<disk, reload>>

MCNext == Next /\ Bounds /\ UNCHANGED part

MCSpec == MCInit /\ [][MCNext]_<<vars, part>> /\ Fairness

=============================================================================
