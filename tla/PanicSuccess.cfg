\* An expand that panics is reported as a success.
SPECIFICATION Spec
CONSTANTS
    TaskId = {1}
    BxTaskId = {11, 12}
    m1 = m1
    m2 = m2
    m3 = m3
    Machine = {m1}
    Cluster = {1}
    Faults = {"auth"}
    EndStep = 4
    Broken = {}
    Requested = {"Expand"}
    Counts = {1}
    Mounted = {}
    OneAtATime = FALSE
    MaxServers = 40
SYMMETRY MachineSymmetry
INVARIANTS SuccessIsComplete
