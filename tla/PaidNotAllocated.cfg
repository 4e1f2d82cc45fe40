CONSTANTS
    Payment = {p1, p2}
    Clerk = {c1, c2}
    NoPayment = NoPayment
    Years = 2
    Invoices = 2
    Net = 1
    Fine = 1
    MaxNet = 2
SPECIFICATION BoundedSpec
SYMMETRY Symmetry
CHECK_DEADLOCK FALSE
INVARIANTS PaidIsAllocated
