----------------------------- MODULE MCNtpTime ------------------------------
(* NtpTime for TLC; its cfgs give every constant an ordinary value. *)
EXTENDS NtpTime
=============================================================================
