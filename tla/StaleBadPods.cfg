SPECIFICATION Spec
CONSTANTS
    NumActors = 2
    NumSteps = 2
    MaxRestartAttempts = 2
    TimeLimit = TRUE
    Replacers = {"gemini"}
    MaxFaults = 3
PROPERTY RaisesForCause
