----------------------------- MODULE MCCdcLink -----------------------------
(* One link with a register of three values.                               *)
EXTENDS CdcLink, FiniteSets
=============================================================================
