------------------------------- MODULE MCComms -------------------------------
(* A drone with a topic at an address, and a rover that wants the same     *)
(* address for itself and has one more.                                    *)
EXTENDS Comms

MCAddressOf == [e \in Endpoint |-> IF e = "chat" THEN "b" ELSE "a"]
MCModelOf ==
  [e \in Endpoint |-> IF e = "video" THEN "drone" ELSE "rover"]
MCFrom == [n \in Message |-> "a"]
MCTo == [n \in Message |-> "b"]

===============================================================================
