\* A number reused between Close and the read that has loaded it.
SPECIFICATION Spec
CONSTANTS
    s1 = s1
    s2 = s2
    Sessions = {s1, s2}
    Copiers = {"stdout", "stdin"}
    Numbers = {0, 1, 2, 3}
    Requests <- MCRequests
INVARIANT Isolated
CHECK_DEADLOCK FALSE
