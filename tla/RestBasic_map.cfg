SPECIFICATION Spec
CONSTANTS
    Keys = {k1, k2}
    Vals = {v1}
    Reqs = {r1, r2}
    Nothing = Nothing
    BadJSON = BadJSON
INVARIANT IInv
PROPERTY MapRefined
CHECK_DEADLOCK FALSE
