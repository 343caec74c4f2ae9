---------------------------- MODULE MCResellerBot ----------------------------
(***************************************************************************)
(* Model values for ResellerBot: two bots and a panel that may also take   *)
(* from the balance.                                                       *)
(***************************************************************************)
EXTENDS ResellerBot

CONSTANTS b1, b2

MCBots == {b1, b2}
MCAdjustments == {-1}
=============================================================================
