SPECIFICATION Spec
CONSTANTS
  Frames <- Builds
  Offsets <- Zones
  Modes = {"off", "on", "auto"}
  MaxEpoch <- EraEnd
  Explored <- Explore
  Gaps = {0, 1, 90}
  Correction = 1
INVARIANTS
  TypeOK
  FaceTellsTime
PROPERTIES
  DateTurnsInSight
