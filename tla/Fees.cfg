CONSTANTS
    Payment = {p1, p2, p3}
    Clerk = {c1, c2}
    NoPayment = NoPayment
    Years = 2
    Invoices = 1
    Net = 1
    Fine = 1
    MaxNet = 2
SPECIFICATION BoundedSpec
SYMMETRY Symmetry
CHECK_DEADLOCK FALSE
INVARIANTS TypeOK FeesInv ReceiptsGapless OffTheBooks SettledWhenPaid
PROPERTIES ImplementsRowLock
