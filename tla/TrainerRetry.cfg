SPECIFICATION Spec
CONSTANTS
    NumActors = 2
    NumSteps = 2
    MaxRestartAttempts = 2
    TimeLimit = TRUE
    Replacers = {"none", "mock", "gemini"}
    MaxFaults = 3
INVARIANTS TypeOK ReturnsOnlyComplete ExhaustedForCause NoBadNodeReused
PROPERTY EventuallyDecided
