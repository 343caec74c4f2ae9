--------------------------- MODULE MCVoucherBatches ---------------------------
(* Values of the constants of VoucherBatches for TLC. *)
EXTENDS VoucherBatches

\* Both users are vouchers of the one batch of the panel.
MCNames == [b \in Panel |-> Users]
=============================================================================
