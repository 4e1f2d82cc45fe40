SPECIFICATION CrashSweepSpec
CONSTANTS
    Message = {m1}
    Phone = {p1}
    Device = {d1}
    Request = {r1,r2}
    NoPhone = NoPhone
    NoDevice = NoDevice
    NoMessage = NoMessage
    MaxAttempts = 2
    MaxBatch = 1
    Parts = 1
PROPERTIES HandedOverSettles
