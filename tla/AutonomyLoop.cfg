SPECIFICATION Spec
CONSTANTS
    loop = loop
    manual = manual
    c1 = c1
    c2 = c2
    u1 = u1
    u2 = u2
    None = None
    Run <- LoopAlone
    Loop = loop
    Character <- TwoCharacters
    Silent = {}
    Recipient <- TwoRecipients
    HourCap = 2
    DayCap = 2
    Cooldown = 1
    QuietStart = 0
    QuietEnd = 0
    Hour = 1
    Day = 2
    MaxTime = 2
    MaxLog = 2
    ChangeAt = 1
    Shifts <- NoChange
    ThreadsAreDeleted = TRUE
SYMMETRY Symmetry
INVARIANTS
    InitiativesApart
PROPERTIES
    EveryCharacterChecked
    StateAdvances
