---------------------------- MODULE ConfigStore ----------------------------
(***************************************************************************)
(* The persistent configuration (src/config.c): loading it at boot, in the  *)
(* current or in an older format, changing it by console commands, and      *)
(* saving it, with power cuts and failures between any two steps.           *)
(*                                                                          *)
(* A text is abstracted to its length: of all texts with one beginning,     *)
(* copy_string keeps as much as fits, so a length says which one is left.   *)
(* An offset and a colour are numbers.                                      *)
(*                                                                          *)
(* littlefs is external.  It replaces the contents of a file in one step,   *)
(* when the file is synchronised; a call of it may fail, for want of memory *)
(* for instance, and has then changed nothing.  It may find the flash       *)
(* corrupt whenever it mounts it.                                           *)
(***************************************************************************)
EXTENDS Integers

CONSTANTS
  Timezones,   \* the time zones typed: see Typed
  Colours,     \* values typed for the colour
  Ssids,       \* lengths of the SSIDs typed
  Passwords,   \* lengths of the passwords typed; 0 for none
  Servers,     \* lengths of the server lists typed
  Hostnames,   \* lengths of the host names typed
  DateModes,   \* the date modes typed
  OldFiles     \* what the flash may hold when this firmware first runs

(* A time zone as typed: hours, and minutes if there is a colon.  strtol    *)
(* gives a number the sign in front of it; that of a zero is lost.  Zones   *)
(* that overflow an int32_t are left out.                                   *)
Typed == [hours : Int, colon : BOOLEAN, minutes : Int]

ASSUME ConfigAssumption ==
  /\ Timezones \subseteq Typed
  /\ Colours \subseteq 0 .. 255
  /\ Ssids \subseteq Nat \ {0} /\ Passwords \subseteq Nat
  /\ DateModes \subseteq {"off", "on", "auto"}
  /\ Servers \subseteq Nat \ {0} /\ Hostnames \subseteq Nat \ {0}

(* The room of each text, its NUL included, in memory and in the file. *)
SsidRoom       == 33
StoredSsidRoom == 32
PasswordRoom   == 64
ServersRoom    == 64
HostnameRoom   == 33

(* copy_string *)
Copy(length, room) == IF length < room THEN length ELSE room - 1

DefaultHostname == 10   \* "pico-clock"
DefaultServers  == 33   \* "2001:4860:4860::8888,216.239.35.0"

VARIABLES
  pc,        \* "boot", "idle", and the steps of config_save from "mount" on
  config,    \* pico_config_t
  file,      \* what littlefs has for CONFIG_FILE_NAME
  mounted,   \* g_lfs_ready
  synced,    \* result of lfs_file_sync
  report     \* how the last command ended

vars == <<pc, config, file, mounted, synced, report>>
-----------------------------------------------------------------------------
(* config_apply_defaults *)
DefaultConfig ==
  [timezone_set |-> FALSE, timezone |-> 0,
   colour_set |-> FALSE, colour |-> 255,
   wifi_configured |-> FALSE, ssid |-> 0, password |-> 0,
   ntp_set |-> FALSE, servers |-> DefaultServers,
   date |-> "off", hostname |-> DefaultHostname]

(* config_store_persisted *)
StorePersisted(c) ==
  [version |-> "v3",
   data |-> [c EXCEPT
     !.timezone = IF c.timezone_set THEN @ ELSE 0,
     !.colour   = IF c.colour_set THEN @ ELSE 255,
     !.ssid     = Copy(@, StoredSsidRoom),
     !.hostname = IF @ = 0 THEN DefaultHostname ELSE @]]

(* config_load_persisted *)
LoadPersisted(data) ==
  [data EXCEPT !.hostname = IF @ = 0 THEN DefaultHostname ELSE @]

(* Variant: the host name is taken from a record that has none. *)
LoadLegacy_NoHostname(data) == [data EXCEPT !.date = "off", !.hostname = 0]

(* config_load_legacy_persisted: the first format has no date mode and no   *)
(* host name.                                                               *)
LoadLegacy(data) ==
  [data EXCEPT !.date = "off", !.hostname = DefaultHostname]

(* config_load on a file that could be opened: magic, version and size      *)
(* decide.                                                                  *)
Loaded(f) ==
  CASE f.version = "v3" -> LoadPersisted(f.data)
    [] f.version = "v1" -> LoadLegacy(f.data)
    [] OTHER            -> DefaultConfig

(* What the rest of the firmware reads of a configuration. *)
Observed(c) ==
  [offset   |-> IF c.timezone_set THEN c.timezone ELSE 0,
   colour   |-> IF c.colour_set THEN c.colour ELSE 255,
   network  |-> IF c.wifi_configured /\ c.ssid > 0
                THEN <<c.ssid, c.password>> ELSE <<>>,
   servers  |-> IF c.ntp_set THEN c.servers ELSE 0,
   date     |-> c.date,
   hostname |-> c.hostname]
-----------------------------------------------------------------------------
Configs ==
  [timezone_set : BOOLEAN, timezone : Int,
   colour_set : BOOLEAN, colour : 0 .. 255,
   wifi_configured : BOOLEAN, ssid : 0 .. SsidRoom - 1,
   password : 0 .. PasswordRoom - 1,
   ntp_set : BOOLEAN, servers : 0 .. ServersRoom - 1,
   date : {"off", "on", "auto"}, hostname : 0 .. HostnameRoom - 1]

Observations ==
  [offset : Int, colour : 0 .. 255,
   network : {<<>>} \union ((1 .. SsidRoom - 1) \X (0 .. PasswordRoom - 1)),
   servers : 0 .. ServersRoom - 1,
   date : {"off", "on", "auto"}, hostname : 1 .. HostnameRoom - 1]

(* "absent" and "empty" have no data to speak of; nor has an old file the   *)
(* fields that its format lacks.                                            *)
Records == [version : {"absent", "empty", "v1", "v2", "v3"}, data : Configs]

(* A flash that has just been formatted, or never written. *)
NoFile == [version |-> "absent", data |-> DefaultConfig]

(* An older firmware has cut texts to the same room and refused a network   *)
(* without a name as well.                                                  *)
ASSUME FilesAssumption ==
  /\ OldFiles \subseteq Records
  /\ \A f \in OldFiles : /\ f.data.ssid < StoredSsidRoom
                         /\ f.data.wifi_configured => f.data.ssid > 0

(* Every text leaves room for its NUL, in memory and in the file. *)
TypeOK ==
  /\ pc \in {"boot", "idle", "mount", "open", "write", "sync", "close"}
  /\ config \in Configs
  /\ file \in Records
  /\ file.version = "v3" => file.data.ssid < StoredSsidRoom
  /\ mounted \in BOOLEAN /\ synced \in BOOLEAN
  /\ report \in {"none", "rejected", "saved", "failed"}

Init ==
  /\ pc = "boot" /\ config = DefaultConfig
  /\ file \in OldFiles /\ mounted = FALSE
  /\ synced = FALSE /\ report = "none"
-----------------------------------------------------------------------------
(* config_prepare_filesystem.  A flash that lfs_mount reports as corrupt, or *)
(* as having no root, is formatted and mounted again; the result of         *)
(* lfs_format is not looked at, and the second attempt may fail as well.    *)
Prepare ==
  \/ mounted /\ UNCHANGED <<mounted, file>>
  \/ ~mounted /\ mounted' \in BOOLEAN /\ file' \in {file, NoFile}

(* config_load: without a file system the defaults stay; with one, the file *)
(* cannot be opened or read, or it can.                                     *)
Load ==
  /\ pc = "boot" /\ pc' = "idle"
  /\ Prepare
  /\ IF mounted' THEN config' \in {DefaultConfig, Loaded(file')}
                 ELSE UNCHANGED config
  /\ UNCHANGED <<synced, report>>
-----------------------------------------------------------------------------
(***************************************************************************)
(* config_handle_command.  A command that is understood is followed by      *)
(* config_save, one that is not changes nothing.                            *)
(***************************************************************************)
Handled(c) ==
  /\ pc = "idle" /\ pc' = "mount"
  /\ config' = c /\ report' = "none"
  /\ UNCHANGED <<file, mounted, synced>>

(* The command, the zone, the colour or the date mode is not valid. *)
Reject ==
  /\ pc = "idle" /\ report' = "rejected"
  /\ UNCHANGED <<pc, config, file, mounted, synced>>

(* parse_timezone_offset: the minutes take the sign of the hours, as far as *)
(* these have one.                                                          *)
TimezoneOffset(t) ==
  LET minutes == IF ~t.colon THEN 0
                 ELSE IF t.hours < 0 THEN -t.minutes ELSE t.minutes
  IN 3600 * t.hours + 60 * minutes

SetTimezone ==
  \/ Handled([config EXCEPT !.timezone_set = FALSE])
  \/ \E t \in Timezones :
       Handled([config EXCEPT !.timezone_set = TRUE,
                              !.timezone = TimezoneOffset(t)])

SetColour ==
  \/ Handled([config EXCEPT !.colour_set = FALSE])
  \/ \E v \in Colours :
       Handled([config EXCEPT !.colour_set = TRUE, !.colour = v])

(* Variant: the password is copied with the size of its source. *)
SetWifi_Unbounded ==
  \/ Handled([config EXCEPT !.wifi_configured = FALSE])
  \/ \E s \in Ssids, p \in Passwords :
       Handled([config EXCEPT !.wifi_configured = TRUE,
                              !.ssid = Copy(s, SsidRoom),
                              !.password = p])

SetWifi ==
  \/ Handled([config EXCEPT !.wifi_configured = FALSE])
  \/ \E s \in Ssids, p \in Passwords :
       Handled([config EXCEPT !.wifi_configured = TRUE,
                              !.ssid = Copy(s, SsidRoom),
                              !.password = Copy(p, PasswordRoom)])

SetDate == \E mode \in DateModes : Handled([config EXCEPT !.date = mode])

SetServers ==
  \/ Handled([config EXCEPT !.ntp_set = FALSE])
  \/ \E v \in Servers :
       Handled([config EXCEPT !.ntp_set = TRUE,
                              !.servers = Copy(v, ServersRoom)])

SetHostname ==
  \E h \in Hostnames \union {DefaultHostname} :
    Handled([config EXCEPT !.hostname = Copy(h, HostnameRoom)])

Reset == Handled(DefaultConfig)
-----------------------------------------------------------------------------
(***************************************************************************)
(* config_save.                                                             *)
(***************************************************************************)
Return(result) == pc' = "idle" /\ report' = result

SaveFails == Return("failed") /\ UNCHANGED <<config, file, synced>>

Mount ==
  /\ pc = "mount"
  /\ Prepare
  /\ IF mounted' THEN pc' = "open" /\ UNCHANGED report ELSE Return("failed")
  /\ UNCHANGED <<config, synced>>

(* Variant: opening the file for writing empties it at once. *)
Open_Truncates ==
  /\ pc = "open" /\ pc' = "write"
  /\ file' = [file EXCEPT !.version = "empty"]
  /\ UNCHANGED <<config, mounted, synced, report>>

(* LFS_O_CREAT leaves an empty file where there was none; LFS_O_TRUNC takes *)
(* effect when the file is synchronised.                                    *)
Open ==
  /\ pc = "open"
  /\ \/ SaveFails
     \/ /\ pc' = "write"
        /\ file' = IF file.version = "absent"
                   THEN [file EXCEPT !.version = "empty"] ELSE file
        /\ UNCHANGED <<config, synced, report>>
  /\ UNCHANGED mounted

(* A write that fails leaves the file marked, and lfs_file_close stores     *)
(* nothing of it.                                                           *)
Write ==
  /\ pc = "write"
  /\ \/ SaveFails
     \/ pc' = "sync" /\ UNCHANGED <<config, file, synced, report>>
  /\ UNCHANGED mounted

Sync ==
  /\ pc = "sync" /\ pc' = "close"
  /\ \/ file' = StorePersisted(config) /\ synced' = TRUE
     \/ synced' = FALSE /\ UNCHANGED file
  /\ UNCHANGED <<config, mounted, report>>

(* Variant: the result of lfs_file_sync is not looked at. *)
Close_ForgetsSync ==
  /\ pc = "close"
  /\ \E closed \in BOOLEAN : Return(IF closed THEN "saved" ELSE "failed")
  /\ synced' = FALSE
  /\ UNCHANGED <<config, file, mounted>>

Close ==
  /\ pc = "close"
  /\ \E closed \in BOOLEAN :
       Return(IF synced /\ closed THEN "saved" ELSE "failed")
  /\ synced' = FALSE
  /\ UNCHANGED <<config, file, mounted>>
-----------------------------------------------------------------------------
(* Power is lost and returns: config_init, and config_load still to come. *)
PowerCycle ==
  /\ pc' = "boot" /\ config' = DefaultConfig
  /\ mounted' = FALSE /\ synced' = FALSE /\ report' = "none"
  /\ UNCHANGED file

Command ==
  \/ SetTimezone \/ SetColour \/ SetWifi \/ SetDate \/ SetServers
  \/ SetHostname \/ Reset \/ Reject

Next == Load \/ Command \/ Mount \/ Open \/ Write \/ Sync \/ Close \/ PowerCycle

Spec == Init /\ [][Next]_vars
-----------------------------------------------------------------------------
(***************************************************************************)
(* Properties.                                                              *)
(***************************************************************************)

(* Of an SSID of 32 characters the file keeps 31: see SsidStored.  All else *)
(* that can be typed has a place in it.                                     *)
Storable(c) == [c EXCEPT !.ssid = IF @ = SsidRoom - 1 THEN @ - 1 ELSE @]

(* A command that was reported as saved is in the file: what littlefs has   *)
(* is, in all that the firmware reads of it, what is in use, but for the    *)
(* last character of an SSID of full length (config_save,                   *)
(* config_store_persisted, config_load).                                    *)
SavedMeansStored ==
  report = "saved" => Observed(Loaded(file)) = Observed(Storable(config))

(* Whatever is loaded, typed and cut short, the firmware never runs with an *)
(* empty host name or with a network to join that has no name.              *)
Usable ==
  \A c \in {config, Loaded(file)} :
    c.hostname > 0 /\ (c.wifi_configured => c.ssid > 0)

(* What a restart finds changes at two places only.  A save replaces it, in *)
(* one step and by the settings in use, never by a mixture; and a flash     *)
(* found corrupt is formatted, which may only happen before the file system *)
(* is mounted: at boot, or in the first save after a boot that could not    *)
(* mount it.  From then on nothing stored is lost, also when a save fails   *)
(* or power is cut in the middle of it, and also over a change of format.   *)
StoredSettings ==
  INSTANCE Settings WITH
    Choices  <- Observations,
    Defaults <- Observed(DefaultConfig),
    current  <- Observed(Storable(config)),
    stored   <- Observed(Loaded(file)),
    ready    <- mounted

ImplementsSettings == StoredSettings!Spec

(* docs/configuration.md: "Stores the SSID and optional password            *)
(* persistently."  The console takes an SSID of up to 32 characters.        *)
SsidStored ==
  report = "saved" /\ config.wifi_configured => Loaded(file).ssid = config.ssid
=============================================================================
