\* A shrink of one machine where two have rows and none is mounted.
SPECIFICATION Spec
CONSTANTS
    TaskId = {1, 2}
    BxTaskId = {11, 12}
    m1 = m1
    m2 = m2
    m3 = m3
    Machine = {m1, m2}
    Cluster = {1}
    Faults = {}
    EndStep = 3
    Broken = {}
    Requested = {"Expand", "Shrink"}
    Counts = {1, 2}
    Mounted = {}
    OneAtATime = TRUE
    MaxServers = 40
SYMMETRY MachineSymmetry
INVARIANTS ShrinkWithinCount
