\* An SPL vault whose PDA has a second token account.
CONSTANTS
    owner = owner
    ana = ana
    ben = ben
    nobody = nobody
    noMint = noMint
    gold = gold
    silver = silver
    spare = spare
    Keys = {owner, ana, ben, nobody}
    DEFAULT_KEY = nobody
    None = noMint
    Mints = {gold}
    MAX_I64 = 4
    MAX_U64 = 65535
    MIN_TIMEOUT_SECONDS = 2
    MAX_TIMEOUT_SECONDS = 2
    Owner = owner
    Wallets = {owner, ana, ben}
    OtherAccounts = {spare}
    RENT = 2
    Grants <- MCGrantsGold
    Timeouts = {2}
    Tables <- MCTablesSpl
    Amounts = {1, 8}
    Gifts = {1}
    MAX_CLOCK = 3
SPECIFICATION Spec
CHECK_DEADLOCK FALSE
PROPERTY CloseOrphansNothing
