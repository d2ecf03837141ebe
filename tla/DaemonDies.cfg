SPECIFICATION PromptSpec
CONSTANTS
    t1 = t1
    t2 = t2
    t3 = t3
    m1 = m1
    m2 = m2
    NoTask = NoTask
    Task <- ThreeTasks
    Maintainer <- TwoRequests
    LoopMayRaise = TRUE
PROPERTIES
    EveryInterval
