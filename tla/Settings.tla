------------------------------ MODULE Settings ------------------------------
(***************************************************************************)
(* What the persistent configuration promises to the rest of the firmware:  *)
(* which settings are in use, which ones a restart would find, and at which *)
(* points the latter may change.  ConfigStore, with its file, its formats   *)
(* and its failures, implements this.                                       *)
(***************************************************************************)
CONSTANTS
  Choices,    \* the settings there are
  Defaults    \* the settings of a device that has none stored

VARIABLES
  current,    \* the settings in use
  stored,     \* the settings a restart finds
  ready       \* whether the storage has been found in order since power-on

Init == current = Defaults /\ stored \in Choices /\ ready = FALSE

(* Power is lost and returns, and only what is stored outlasts it. *)
Restart == current' = Defaults /\ ready' = FALSE /\ UNCHANGED stored

(* The storage is looked at, once until it is in order.  If it is damaged   *)
(* what is stored is lost: a restart finds the defaults.                    *)
Examine == ~ready /\ ready' \in BOOLEAN /\ stored' \in {stored, Defaults}

(* At boot what is stored is taken up, if the storage can be read. *)
Load ==
  /\ current = Defaults
  /\ Examine
  /\ current' \in {Defaults, stored'} /\ (~ready' => current' = Defaults)

Change == current' \in Choices /\ UNCHANGED <<stored, ready>>

(* A save has to look at the storage if the boot could not. *)
Mend == Examine /\ UNCHANGED current

(* The settings in use are stored: all of them, or none. *)
Save == ready /\ stored' = current /\ UNCHANGED <<current, ready>>

Next == Restart \/ Load \/ Change \/ Mend \/ Save

Spec == Init /\ [][Next]_<<current, stored, ready>>
=============================================================================
