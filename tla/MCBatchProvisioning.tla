------------------------- MODULE MCBatchProvisioning -------------------------
(* Values of the constants of BatchProvisioning for TLC. *)
EXTENDS BatchProvisioning

CONSTANTS u1, u2

\* One batch of two vouchers.
MCVouchers == <<<<u1, u2>>>>
=============================================================================
