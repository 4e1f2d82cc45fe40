SPECIFICATION CrashPhoneSpec
CONSTANTS
    Message = {m1}
    Phone = {p1}
    Device = {d1}
    Request = {r1}
    NoPhone = NoPhone
    NoDevice = NoDevice
    NoMessage = NoMessage
    MaxAttempts = 1
    MaxBatch = 1
    Parts = 2
PROPERTIES StoredGetsOutcome
