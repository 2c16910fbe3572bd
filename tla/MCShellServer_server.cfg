\* Descriptors of two sessions that compete for four, to the end.
SPECIFICATION FairSpec
CONSTANTS
    s1 = s1
    s2 = s2
    Sessions = {s1, s2}
    Copiers = {"stdout", "stdin"}
    Numbers = {0, 1, 2, 3}
    Requests <- MCRequests
INVARIANTS TypeOK OwnDescriptors OwnTerminal NothingLeft
PROPERTIES NobodyWaits AllReleased
CHECK_DEADLOCK FALSE
