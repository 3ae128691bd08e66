--------------------------- MODULE MCConfigStore ---------------------------
(* Values for the constants of ConfigStore that a cfg cannot write. *)
EXTENDS ConfigStore

Zones == {[hours |-> -3, colon |-> TRUE, minutes |-> 30]}

(* What the first format may hold; its host name and date mean nothing. *)
Old == [DefaultConfig EXCEPT !.timezone_set = TRUE, !.timezone = 3600,
          !.wifi_configured = TRUE, !.ssid = 31, !.date = "on", !.hostname = 0]

FirstBoots == {NoFile, [version |-> "v1", data |-> Old],
               [version |-> "v2", data |-> Old]}

FreshFlash == {NoFile}
=============================================================================
