SPECIFICATION BoundedSpec
CONSTANTS
    Write = {w1}
    Key = {k1, k2}
    User = {u1}
    Tab = {t1}
    Slot = {c1, c2}
    MaxForgotten = 1
    NoKey = NoKey
    NoWrite = NoWrite
    NoUser = NoUser
    NoTab = NoTab
SYMMETRY Symmetry
INVARIANT WorkHappensOnce
