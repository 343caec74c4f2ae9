---------------------------- MODULE MCCollectorCash ----------------------------
(* Model-checking instance of CollectorCash; requests are numbered, the ids   *)
(* of customers, invoices and settlements are interchangeable.               *)
EXTENDS CollectorCash, TLC

Symmetry == Permutations(Customers) \cup Permutations(Names)
=============================================================================
