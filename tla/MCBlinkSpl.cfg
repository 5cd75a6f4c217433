\* A vault of a mint: what the server hands to its heirs.
CONSTANTS
    owner = owner
    ana = ana
    ben = ben
    nobody = nobody
    noMint = noMint
    gold = gold
    Keys = {owner, ana, ben, nobody}
    DEFAULT_KEY = nobody
    None = noMint
    Mints = {gold}
    MAX_I64 = 8
    MAX_U64 = 65535
    MIN_TIMEOUT_SECONDS = 2
    MAX_TIMEOUT_SECONDS = 3
    Owner = owner
    Wallets = {owner, ana, ben}
    OtherAccounts = {}
    RENT = 1
    Grants <- MCGrantsSpl
    Timeouts = {2}
    Tables <- MCTables
    Amounts = {3}
    Gifts = {}
    MAX_CLOCK = 5
SPECIFICATION BlinkSpec
CHECK_DEADLOCK FALSE
INVARIANT ToldBeforeSigning
