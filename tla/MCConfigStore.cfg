SPECIFICATION Spec
CONSTANTS
  Timezones <- Zones
  Colours = {0}
  Ssids = {31, 33}
  Passwords = {64}
  DateModes = {"auto"}
  Servers = {33}
  Hostnames = {40}
  OldFiles <- FirstBoots
INVARIANTS
  TypeOK
  SavedMeansStored
  Usable
PROPERTIES
  ImplementsSettings
