SPECIFICATION Spec
CONSTANTS
    Objects = {src, save}
    First = src
    Copies = 2
    MaxAttempts = 2
    MaxRuns = 3
    MaxFaults = 2
    MaxEdits = 1
    DirSync = TRUE
INVARIANTS
    TextSurvives
    ReportTrue
CHECK_DEADLOCK FALSE
