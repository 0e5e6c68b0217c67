CONSTANTS
    Id = {a, b}
    Bytes = {1, 2}
    MaxQueueRequests = 2
    MaxQueueBytes = 3
    IdleSteps = 1
    MaxSent = 3
    MaxSequence = 3
    EngineFails = TRUE
    Nothing = Nothing
SYMMETRY IdSymmetry
SPECIFICATION Spec
INVARIANTS AdmissionExact OneAnswer TruthfulCancellation NoLostUpdate SequenceNamesState
