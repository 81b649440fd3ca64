\* Two tasks of any kind at the same time, in one cluster or in two; answers lost,
\* remote work that fails or outlasts its poll, crashes and restarts.
SPECIFICATION Spec
CONSTANTS
    TaskId = {1, 2}
    BxTaskId = {11, 12, 13}
    m1 = m1
    m2 = m2
    m3 = m3
    Machine = {m1, m2, m3}
    Cluster = {1, 2}
    Faults = {"bridgx", "lost", "ssh", "slow", "crash"}
    EndStep = 4
    Broken = {"Expand", "Shrink", "Deploy"}
    Requested = {"Expand", "Shrink", "Deploy"}
    Counts = {2}
    Mounted = {m1}
    OneAtATime = FALSE
    MaxServers = 40
INVARIANTS TypeOK PhaseBarrier RecordsTellProgress WorksInOwnCluster RateIsDefined
PROPERTIES ImplementsLifecycle RevivedByItsOwnTask
