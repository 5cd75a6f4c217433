\* A vault, of SOL or of a mint, that goes on while a request is under way.
CONSTANTS
    owner = owner
    ana = ana
    ben = ben
    nobody = nobody
    noMint = noMint
    gold = gold
    Keys = {owner, ana, ben, nobody}
    DEFAULT_KEY = nobody
    None = noMint
    Mints = {gold}
    MAX_I64 = 8
    MAX_U64 = 65535
    MIN_TIMEOUT_SECONDS = 2
    MAX_TIMEOUT_SECONDS = 3
    Owner = owner
    Wallets = {owner, ana, ben}
    OtherAccounts = {}
    RENT = 1
    Grants <- MCGrants
    Timeouts = {2}
    Tables <- MCTables
    Amounts = {3}
    Gifts = {}
    MAX_CLOCK = 5
SPECIFICATION BlinkSpec
CHECK_DEADLOCK FALSE
INVARIANTS LockedOutAsTold HandedOutIsAccepted
PROPERTY RefusalStands
