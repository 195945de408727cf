----------------------------- MODULE MCPoeControl -----------------------------
EXTENDS PoeControl, TLC

\* A port that feeds a device.
MCInitialHw == {[admin |-> "on", detect |-> "delivering", link |-> "up"]}

\* Used in the runs that check no liveness.
WorkerSymmetry == Permutations(Workers)
===============================================================================
