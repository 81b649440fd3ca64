\* Expands, deploys and shrinks of one cluster, one after another.
SPECIFICATION Spec
CONSTANTS
    TaskId = {1, 2, 3}
    BxTaskId = {11, 12, 13, 14}
    m1 = m1
    m2 = m2
    m3 = m3
    Machine = {m1, m2}
    Cluster = {1}
    Faults = {"slb", "ssh"}
    EndStep = 4
    Broken = {}
    Requested = {"Expand", "Shrink", "Deploy"}
    Counts = {1, 2}
    Mounted = {m1}
    OneAtATime = TRUE
    MaxServers = 40
INVARIANTS DeploySuccessIsComplete OneLiveRow RunningIsTracked CountIsOfRunning
