\* A service with templates of both kinds; requests that fail or panic half-way;
\* two callers who ask whether there is a task before they start one.
SPECIFICATION SpecServices
CONSTANTS
    c1 = c1
    c2 = c2
    Name = {"s1"}
    Cluster = {1}
    Caller = {c1, c2}
    Careful = {c1, c2}
    MaxTask = 2
    MaxTmpl = 3
    MaxInstr = 7
    Modes = {"container", "instance"}
    Parts = {1, 4}
    Failing = TRUE
    Omitting = TRUE
SYMMETRY CallerSymmetry
CONSTRAINT OneOnceTorn
INVARIANTS ServicesTypeOK PairsAreWhole ShrinkUndoesExpand  TaskKeepsItsGroup BoundHasTemplate OneClusterPerService DetailShowsExpand HistoryShowsRunning TasksWithinCallers
