SPECIFICATION RaceSpec
CONSTANTS
    Message = {m1}
    Phone = {p1,p2}
    Device = {d1,d2}
    Request = {r1,r2}
    NoPhone = NoPhone
    NoDevice = NoDevice
    NoMessage = NoMessage
    MaxAttempts = 2
    MaxBatch = 1
    Parts = 1
SYMMETRY Symmetry
PROPERTIES LeaseRespected KeepsPromise
