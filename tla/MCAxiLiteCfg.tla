---------------------------- MODULE MCAxiLiteCfg ----------------------------
(* One bit of data, a register of each kind (write-only, read-write, read-   *)
(* only) and the reset threshold as a third value.                           *)
EXTENDS AxiLiteCfg

MCAddresses == {"CMD", "THRESHOLD", "STATE"}
MCData == {{}, {0}}
MCStatus == {{1}}
MCMaxThreshold == {2}
=============================================================================
