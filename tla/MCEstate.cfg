\* The owner may die; one of the two other heirs claims, the other need not.
CONSTANTS
    owner = owner
    ana = ana
    ben = ben
    nobody = nobody
    noMint = noMint
    gold = gold
    silver = silver
    spare = spare
    Keys = {owner, ana, ben, nobody}
    DEFAULT_KEY = nobody
    None = noMint
    Mints = {gold}
    MAX_I64 = 4
    MAX_U64 = 65535
    MIN_TIMEOUT_SECONDS = 2
    MAX_TIMEOUT_SECONDS = 2
    Owner = owner
    Wallets = {owner, ana, ben}
    OtherAccounts = {}
    RENT = 2
    Grants <- MCGrantsEstate
    Timeouts = {2}
    Tables <- MCTablesEstate
    Amounts = {1, 4}
    Gifts = {1}
    MAX_CLOCK = 4
    Diligent = {ana}
SPECIFICATION EstateSpec
CHECK_DEADLOCK FALSE
PROPERTIES HeirGetsPaid NobodyReplacesTheOwner NothingLostByWaiting
