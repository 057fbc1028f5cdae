------------------------------ MODULE MCBarrier ------------------------------
(* BarrierClients with three threads.                                      *)
EXTENDS BarrierClients

ThreeThreads == {"runner", "worker1", "worker2"}

===============================================================================
