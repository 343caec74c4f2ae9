--------------------------- MODULE MCVoucherOrders ---------------------------
(* Values of the constants of VoucherOrders for TLC. *)
EXTENDS VoucherOrders

CONSTANTS a1, e1, u1

MCAmounts == {a1}
MCEvents == {e1}
MCUsers == {u1}

\* A payment with an event id, redelivered or not, one without, and a
\* callback in which no amount is found.
MCDeliveries == {[event |-> e1, amount |-> a1],
                 [event |-> NoEvent, amount |-> a1],
                 [event |-> NoEvent, amount |-> NoAmount]}
=============================================================================
