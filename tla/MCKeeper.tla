------------------------------ MODULE MCKeeper ------------------------------
(***************************************************************************)
(* Small instances of Keeper for TLC.                                      *)
(***************************************************************************)
EXTENDS Keeper, TLC

CONSTANTS v1, v2

\* The addresses are interchangeable where all of them decode and nothing
\* about liveness is asked.
Symmetric == Permutations(Vaults)

\* A keeper answered by nodes of which one is behind repeats its reminders
\* without end.  What was sent decides nothing and is a history that only
\* Escalates and the liveness properties read: without them, states that
\* differ in nothing else are one.
Unsent == <<now, chainVars, nodeVars, phase, scanVars, storeVars, tracker>>

=============================================================================
