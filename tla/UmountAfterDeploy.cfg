\* A shrink after a deploy finds nothing to unmount.
SPECIFICATION Spec
CONSTANTS
    TaskId = {1, 2}
    BxTaskId = {11, 12}
    m1 = m1
    m2 = m2
    m3 = m3
    Machine = {m1}
    Cluster = {1}
    Faults = {}
    EndStep = 4
    Broken = {}
    Requested = {"Deploy", "Shrink"}
    Counts = {1}
    Mounted = {m1}
    OneAtATime = TRUE
    MaxServers = 40
PROPERTIES EmptyUmountMeansUnmounted
