SPECIFICATION Spec
CONSTANTS
    q1 = q1
    q2 = q2
    q3 = q3
    Request <- MCRequest
    Hour = 1
    Day = 2
    MaxTime = 3
    OutputAllowance = 3
    Prompts = {1}
    Answers = {1, 5}
    DryRunAnswer = 2
    LimitChoices <- MCLimits
    DryRunModes = {TRUE, FALSE}
SYMMETRY Symmetry
INVARIANTS
    TypeOK
    RequestWindows
    ImageWindows
    SpendWindows
    ReservedWhileInFlight
PROPERTIES
    LedgerHistory
