\* One vault, two thresholds, two lives of its address, the cache in Postgres.
\* Node, store, process and channel fail as they like, and no message gets
\* through.
CONSTANTS
    v1 = v1
    v2 = v2
    Vaults = {v1}
    Undecodable = {}
    Outcomes = {FALSE}
    Persistent = TRUE
    Lagging = FALSE
    Timeouts = {3}
    Thresholds = {1, 2}
    MAX_CLOCK = 4
    MAX_LIVES = 2
SPECIFICATION LiveSpec
CHECK_DEADLOCK FALSE
INVARIANTS TypeOK StatusAgrees TrackerBounded NoFalseCalm Escalates
PROPERTIES OverdueIsReported
