SPECIFICATION Spec
CONSTANTS
    loop = loop
    manual = manual
    c1 = c1
    c2 = c2
    u1 = u1
    u2 = u2
    None = None
    Run <- LoopAndManual
    Loop = loop
    Character <- OneCharacter
    Silent = {}
    Recipient <- OneRecipient
    HourCap = 1
    DayCap = 1
    Cooldown = 2
    QuietStart = 1
    QuietEnd = 2
    Hour = 2
    Day = 3
    MaxTime = 3
    MaxLog = 3
    ChangeAt = 1
    Shifts <- Autumn
    ThreadsAreDeleted = FALSE
VIEW View
INVARIANTS
    TypeOK
    CapsOvershoot
    CooldownAtDecision
    OneArc
