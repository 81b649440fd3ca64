\* Both kinds of poll, and the listing after them.
SPECIFICATION FairBoth
CONSTANTS
    Interval = 2
    TimeWait = 6
    Grace = 1
    MaxClock = 12
    Polls = {"bridgx", "nodes"}
    PageSize = 2
    MaxRows = 5
INVARIANTS TypeOK NeverBlocks DoneWasSeen EarlyFailureMeansErrors FullPages ListedIsComplete NothingTwice
PROPERTIES BothEnd ListingEnds
