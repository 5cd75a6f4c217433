\* A SOL vault: the owner and two heirs, one of whom can send lamports.
CONSTANTS
    owner = owner
    ana = ana
    ben = ben
    nobody = nobody
    noMint = noMint
    gold = gold
    silver = silver
    spare = spare
    Keys = {owner, ana, ben, nobody}
    DEFAULT_KEY = nobody
    None = noMint
    Mints = {}
    MAX_I64 = 7
    MAX_U64 = 65535
    MIN_TIMEOUT_SECONDS = 2
    MAX_TIMEOUT_SECONDS = 3
    Owner = owner
    Wallets = {owner, ana, ben}
    OtherAccounts = {}
    RENT = 2
    Grants <- MCGrantsSol
    Timeouts = {1, 2, 3, 4}
    Tables <- MCTables
    Amounts = {0, 1, 3, 8}
    Gifts = {2}
    MAX_CLOCK = 6
SPECIFICATION Spec
CHECK_DEADLOCK FALSE
INVARIANTS TypeOK HeirTableValid DeadlineInRange TripConsistent Solvent ReserveKept
PROPERTIES FairPayout LastHeirSweeps TrippedIsFinal ImplementsSwitch ImplementsInheritance
