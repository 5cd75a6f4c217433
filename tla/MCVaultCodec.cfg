\* Vaults of SOL and of a mint, whole and cut at every byte.
CONSTANTS
    BASE = 4
    DISC = 1
    KEY = 2
    LONG = 3
    SHORT = 2
    MAX_BENEFICIARIES = 2
    SECOND = 2
    MAX_TIMEOUT_SECONDS = 12
    Vaults <- MCVaults
SPECIFICATION Spec
CHECK_DEADLOCK FALSE
INVARIANT NeverMisread
