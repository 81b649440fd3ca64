\* The table changes while a request and the refresh use the token.
SPECIFICATION FairSpec
CONSTANTS
    Host = {"zadig1", "zadig2"}
    Request = {"r1"}
    MaxIntegrations = 2
    MaxTrouble = 2
INVARIANTS TypeOK EmptySentIsExplained
PROPERTIES EventuallyAccepted
