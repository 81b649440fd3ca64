\* One task of any kind, any statement of which may fail; cluster 2 has no machine yet.
SPECIFICATION Spec
CONSTANTS
    TaskId = {1}
    BxTaskId = {11, 12}
    m1 = m1
    m2 = m2
    m3 = m3
    Machine = {m1, m2}
    Cluster = {1, 2}
    Faults = {"db", "auth", "ssh"}
    EndStep = 4
    Broken = {"Expand", "Shrink", "Deploy"}
    Requested = {"Expand", "Deploy", "Shrink"}
    Counts = {1}
    Mounted = {m1}
    OneAtATime = FALSE
    MaxServers = 40
INVARIANTS PhaseBarrier OneLiveRow
