--------------------------- MODULE MCCaptiveProbe ---------------------------
(* Values for the constants of CaptiveProbe that a cfg cannot write. *)
EXTENDS CaptiveProbe

CONSTANTS s1, s2

TitleAnd204 == <<"title", "204">>
=============================================================================
