----------------------------- MODULE MCRuntime -----------------------------
(* Values for the constants of Runtime that a cfg cannot write. *)
EXTENDS Runtime

CONSTANTS c1, c2

NoFaults  == {}
LinkFault == {"link"}
AllFaults == {"link", "power"}
=============================================================================
