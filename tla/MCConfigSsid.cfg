SPECIFICATION Spec
CONSTANTS
  Timezones <- Zones
  Colours = {0}
  Ssids = {32}
  Passwords = {64}
  DateModes = {"off", "auto"}
  Servers = {80}
  Hostnames = {40}
  OldFiles <- FreshFlash
INVARIANTS
  SsidStored
