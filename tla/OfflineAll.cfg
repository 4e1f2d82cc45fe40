SPECIFICATION BoundedSpec
CONSTANTS
    Write = {w1}
    Key = {k1}
    User = {u1, u2}
    Tab = {t1, t2}
    Slot = {c1}
    MaxForgotten = 1
    NoKey = NoKey
    NoWrite = NoWrite
    NoUser = NoUser
    NoTab = NoTab
SYMMETRY Symmetry
INVARIANTS TypeOK WriteInv SentMeansDone
