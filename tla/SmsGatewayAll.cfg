SPECIFICATION Spec
CONSTANTS
    Message = {m1}
    Phone = {p1}
    Device = {d1,d2}
    Request = {r1}
    NoPhone = NoPhone
    NoDevice = NoDevice
    NoMessage = NoMessage
    MaxAttempts = 1
    MaxBatch = 1
    Parts = 2
SYMMETRY Symmetry
INVARIANTS TypeOK GatewayInv OfferBound FailedIsLogged SentIsTrue OneSendPerPhone
PROPERTIES SettledIsFinal
