CONSTANTS
    Id = {a, b}
    Bytes = {1}
    MaxQueueRequests = 2
    MaxQueueBytes = 3
    IdleSteps = 1
    MaxSent = 2
    MaxSequence = 2
    EngineFails = TRUE
    Nothing = Nothing
SPECIFICATION FairSpec
PROPERTIES EveryMessageAnswered StopEnds ClientLearnsBackground
