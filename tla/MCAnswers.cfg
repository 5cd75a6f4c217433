\* A vault of either asset, and every way of being refused.
CONSTANTS
    owner = owner
    ana = ana
    ben = ben
    nobody = nobody
    noMint = noMint
    gold = gold
    silver = silver
    spare = spare
    Keys = {owner, ana, ben, nobody}
    DEFAULT_KEY = nobody
    None = noMint
    Mints = {gold, silver}
    MAX_I64 = 4
    MAX_U64 = 65535
    MIN_TIMEOUT_SECONDS = 2
    MAX_TIMEOUT_SECONDS = 3
    Owner = owner
    Wallets = {owner, ana, ben}
    OtherAccounts = {}
    RENT = 2
    Grants <- MCGrantsBoth
    Timeouts = {1, 2}
    Tables <- MCTablesAll
    Amounts = {0, 1, 3}
    Gifts = {1}
    MAX_CLOCK = 3
SPECIFICATION Spec
CHECK_DEADLOCK FALSE
INVARIANTS RefusedWithReason PaidHeirIsTold EligibleHeirIsServed OwnerCanTakeAllBack Solvent Conserved
PROPERTIES FairPayout TrippedIsFinal OnlyOwnMint ImplementsInheritance LastClaimLetsClose
