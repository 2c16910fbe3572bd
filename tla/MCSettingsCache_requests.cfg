\* Three health requests on a cold cache.
CONSTANTS
    r1 = r1
    r2 = r2
    r3 = r3
    Requests <- MCRequests
    Names <- MCNames
    Environ <- MCEnviron
    Fields <- MCFields
    ExpFrom = 1000000
SPECIFICATION Spec
INVARIANTS
    TypeOK
    RightUnlessRaced
PROPERTIES
    WarmStaysWarm
