\* A deploy template one of whose instructions cannot be inserted.
SPECIFICATION Spec
CONSTANTS
    Cluster = {1}
    MaxTmpl = 2
    MaxInstr = 6
    Modes = {"instance"}
    Parts = {1, 2, 3, 4}
    Failing = TRUE
    Omitting = FALSE
PROPERTIES FailedChangesNothing
