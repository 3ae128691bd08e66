---------------------------- MODULE MCWifiConnect ----------------------------
(* Values for the constants of WifiConnect that a cfg cannot write. *)
EXTENDS WifiConnect

CONSTANTS n1, n2, n3, n4
=============================================================================
