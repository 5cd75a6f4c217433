\* Two vaults that take turns in the loop, and two lives of their addresses;
\* scans are answered by an endpoint of which one node is behind, so a scan may
\* show an older state than the last.  The cache is in memory.
CONSTANTS
    v1 = v1
    v2 = v2
    Vaults = {v1, v2}
    Undecodable = {}
    Outcomes = {FALSE}
    Persistent = FALSE
    Lagging = TRUE
    Timeouts = {1}
    Thresholds = {1}
    MAX_CLOCK = 2
    MAX_LIVES = 2
VIEW Unsent
SYMMETRY Symmetric
SPECIFICATION Spec
CHECK_DEADLOCK FALSE
INVARIANTS StatusAgrees TrackerBounded NoFalseCalm
