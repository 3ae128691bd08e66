---------------------------- MODULE FrameStream ----------------------------
(***************************************************************************)
(* What the video output promises the main loop: the pictures it is given   *)
(* are sent row by row, each from first row to last, a picture is replaced  *)
(* only between two frames, and none that was presented is skipped.         *)
(*                                                                          *)
(* Pictures are numbered in the order in which they are presented, modulo   *)
(* Pictures; three numbers tell the picture being sent from the one waiting *)
(* and from the one before.                                                 *)
(***************************************************************************)
EXTENDS Integers

CONSTANTS
  Pictures,   \* how many pictures are told apart: at least 3
  Height      \* DISPLAY_HEIGHT

Picture == 0 .. Pictures - 1
Rows    == 0 .. Height - 1
None    == -1

Following(p) == IF p = Pictures - 1 THEN 0 ELSE p + 1

VARIABLES
  picture,    \* the picture being sent
  row,        \* its next row
  waiting,    \* the picture presented and not yet taken up, or None
  sent        \* the last row sent

frameVars == <<picture, row, waiting, sent>>

Init ==
  /\ picture = 0 /\ row = 0 /\ waiting = None
  /\ sent = [picture |-> 0, row |-> Height - 1]

Present ==
  /\ waiting = None
  /\ waiting' = Following(picture)
  /\ UNCHANGED <<picture, row, sent>>

TakeUp ==
  /\ row = 0 /\ waiting # None
  /\ picture' = waiting /\ waiting' = None
  /\ UNCHANGED <<row, sent>>

SendRow ==
  /\ sent' = [picture |-> picture, row |-> row]
  /\ row' = IF row = Height - 1 THEN 0 ELSE row + 1
  /\ UNCHANGED <<picture, waiting>>

Next == Present \/ TakeUp \/ SendRow

Spec == Init /\ [][Next]_frameVars

(* Rows are sent for ever, and a waiting picture is taken up. *)
FairSpec == Spec /\ WF_frameVars(SendRow) /\ SF_frameVars(TakeUp)
=============================================================================
