---------------------------- MODULE ReceiptSeries ----------------------------
(***************************************************************************)
(* What a receipt series promises: fees.NextNumberOn of internal/fees, the *)
(* server the Worker was ported from, where SELECT ... FOR UPDATE holds    *)
(* the counter until the payment commits, so that drawing a number and     *)
(* writing the receipt are one step and a failure gives the number back.   *)
(***************************************************************************)
EXTENDS Naturals

CONSTANTS Payment, Year

VARIABLES
    last,     \* the last number used in each year's series
    number    \* per payment: the year and the number on its receipt

Unnumbered == [fy |-> 0, seq |-> 0]

Init ==
    /\ last = [y \in Year |-> 0]
    /\ number = [p \in Payment |-> Unnumbered]

Issue(p, y) ==
    /\ number[p] = Unnumbered
    /\ last' = [last EXCEPT ![y] = @ + 1]
    /\ number' = [number EXCEPT ![p] = [fy |-> y, seq |-> last[y] + 1]]

Next == \E p \in Payment, y \in Year : Issue(p, y)

Spec == Init /\ [][Next]_<<last, number>>
=============================================================================
