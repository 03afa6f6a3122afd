--------------------------- MODULE MCCaptureCore ---------------------------
(* Small instances of CaptureCore: power 0 or 1, and a threshold that either *)
(* splits them or (the reset value) lies above both. Five of the sixteen     *)
(* sets of commands have between them every effect that any set has in any   *)
(* state; the two larger ones are those that the state machine has to rank,  *)
(* a reset with a scan and a replay with a scan.                             *)
EXTENDS CaptureCore

MCPower == {0, 1}
MCThresholds == {1, 2}
MCPulses == {{}, {"SCAN"}, {"RESET", "SCAN"}, {"SCAN", "REPLAY_BEGIN"}, {"REPLAY_END"}}
=============================================================================
