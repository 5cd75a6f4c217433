\* Two vaults, of which one account does not decode.
CONSTANTS
    v1 = v1
    v2 = v2
    Vaults = {v1, v2}
    Undecodable = {v2}
    Outcomes = {TRUE}
    Persistent = FALSE
    Lagging = FALSE
    Timeouts = {1}
    Thresholds = {1}
    MAX_CLOCK = 2
    MAX_LIVES = 1
SPECIFICATION LiveSpec
CHECK_DEADLOCK FALSE
PROPERTIES OneMalformedBlindsNobody
