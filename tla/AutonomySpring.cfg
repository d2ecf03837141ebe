SPECIFICATION Spec
CONSTANTS
    loop = loop
    manual = manual
    c1 = c1
    c2 = c2
    u1 = u1
    u2 = u2
    None = None
    Run <- LoopAlone
    Loop = loop
    Character <- OneCharacter
    Silent = {}
    Recipient <- OneRecipient
    HourCap = 1
    DayCap = 9
    Cooldown = 1
    QuietStart = 0
    QuietEnd = 0
    Hour = 2
    Day = 9
    MaxTime = 4
    MaxLog = 4
    ChangeAt = 1
    Shifts <- Spring
    ThreadsAreDeleted = FALSE
SYMMETRY Symmetry
INVARIANTS
    CapsHold
