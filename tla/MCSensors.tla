------------------------------ MODULE MCSensors ------------------------------
(* One sensor that is due in every second step.                            *)
EXTENDS Sensors

MCPeriod == [s \in Sensor |-> 2]

===============================================================================
