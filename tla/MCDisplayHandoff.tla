-------------------------- MODULE MCDisplayHandoff --------------------------
(* DisplayHandoff for TLC; its cfg gives every constant an ordinary value. *)
EXTENDS DisplayHandoff
=============================================================================
