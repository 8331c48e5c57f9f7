SPECIFICATION FairSpec
CONSTANTS
    MaxRuns = 2
    Envs = {paper, real}
    Stamps = {paper}
    NoEnv = NoEnv
    MaxStops = 1
    MaxMishaps = 1
CHECK_DEADLOCK FALSE
INVARIANTS SlotInv
PROPERTIES DeployKeepsRuns HeardStopEnds
