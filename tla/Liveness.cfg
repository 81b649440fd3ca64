\* Every task ends although BridgX and the commands of an expand may hang; the ids BridgX
\* gives to its tasks are those of the schedule tasks, so that their rows meet.
SPECIFICATION FairSpec
CONSTANTS
    TaskId = {1, 2}
    BxTaskId = {1, 2}
    m1 = m1
    m2 = m2
    m3 = m3
    Machine = {m1, m2}
    Cluster = {1}
    Faults = {"slow", "ssh"}
    EndStep = 4
    Broken = {"Expand", "Shrink", "Deploy"}
    Requested = {"Expand", "Shrink", "Deploy"}
    Counts = {1}
    Mounted = {m1}
    OneAtATime = FALSE
    MaxServers = 40
PROPERTIES TasksEnd
