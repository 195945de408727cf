---------------------------- MODULE MCPowerControl ----------------------------
(* Two workers, as in the code, both power actions, three live presses, one *)
(* restart and one lost connection.                                         *)
EXTENDS PowerControl

MCActions == {"shutdown", "reboot"}

===============================================================================
