\* An SPL vault of an indivisible token, left to two heirs.
CONSTANTS
    owner = owner
    ana = ana
    ben = ben
    nobody = nobody
    noMint = noMint
    gold = gold
    silver = silver
    spare = spare
    Keys = {owner, ana, ben, nobody}
    DEFAULT_KEY = nobody
    None = noMint
    Mints = {gold}
    MAX_I64 = 4
    MAX_U64 = 65535
    MIN_TIMEOUT_SECONDS = 2
    MAX_TIMEOUT_SECONDS = 2
    Owner = owner
    Wallets = {owner, ana, ben}
    OtherAccounts = {}
    RENT = 2
    Grants <- MCGrantsGold
    Timeouts = {2}
    Tables <- MCTablesSpl
    Amounts = {1, 8}
    Gifts = {1}
    MAX_CLOCK = 3
SPECIFICATION Spec
CHECK_DEADLOCK FALSE
INVARIANT NothingStalls
