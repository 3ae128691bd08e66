---------------------------- MODULE MCClockFace ----------------------------
(* Values for the constants of ClockFace that a cfg cannot write. *)
EXTENDS ClockFace

Builds == {[width |-> 800, height |-> 480], [width |-> 320, height |-> 240]}

(* UTC, 5:30 east, 3:30 west, and "timezone -555555", which is accepted. *)
Zones == {0, 19800, -12600, -1999998000}

(* 2036-02-07, 06:28:15: the last second of a 32-bit NTP time. *)
EraEnd == 2085978495

(* Every month's first midnight, in years of each kind and where something  *)
(* begins or ends: before the epoch, the epoch, a century, the era.         *)
Years == {1908, 1969, 1970, 1972, 1999, 2000, 2035, 2036}

Days == {DayNumber(<<y, m, 1>>) : y \in Years, m \in 1 .. 12}
          \union {DayNumber(<<2024, 2, d>>) : d \in 28 .. 29}

(* Around midnight, and around the two ends of the hours around it. *)
Moments == {-91, -90, -1, 0, 1, 89, 90, 3599, 3600, 3601, 82799, 82800, 82801}

(* Sums are compared with what is left of 32 bits first. *)
Explore == {DaySeconds * d + s : d \in {e \in Days : e < 24200}, s \in Moments}
=============================================================================
