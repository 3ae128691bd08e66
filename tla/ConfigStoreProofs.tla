------------------------- MODULE ConfigStoreProofs -------------------------
(***************************************************************************)
(* Theorems about the persistent configuration, for every value of the      *)
(* constants: any texts typed, any old file.                                *)
(*                                                                          *)
(* The inductive invariant is StoreInv.  Its parts are                      *)
(*   TypeOK       every text fits its room;                                 *)
(*   Named        no configuration, in memory or in the file, asks for a    *)
(*                network without a name, and none in memory has an empty   *)
(*                host name;                                                *)
(*   SavedInFile  once littlefs has synchronised, and until the settings    *)
(*                change, the file is the record of the settings in use;    *)
(*   Ordered      a boot begins with the defaults and without a file        *)
(*                system, and a file is only written with one.              *)
(* SavedMeansStored follows from the third: it has to be known from the     *)
(* call of lfs_file_sync on, two steps before the report.  The last is what *)
(* keeps the formatting of the flash away from what has been saved.         *)
(***************************************************************************)
EXTENDS ConfigStore, TLAPS

Named ==
  /\ config.hostname > 0
  /\ config.wifi_configured => config.ssid > 0
  /\ file.data.ssid < StoredSsidRoom
  /\ file.data.wifi_configured => file.data.ssid > 0

SavedInFile ==
  /\ synced => pc = "close"
  /\ report = "saved" => pc = "idle"
  /\ synced \/ report = "saved" => file = StorePersisted(config)

Ordered ==
  /\ pc = "boot" => config = DefaultConfig /\ mounted = FALSE
  /\ pc \in {"open", "write", "sync", "close"} => mounted = TRUE

StoreInv == TypeOK /\ Named /\ SavedInFile /\ Ordered

(* A configuration in memory that the rest of the firmware can use. *)
Good(c) ==
  c \in Configs /\ c.hostname > 0 /\ (c.wifi_configured => c.ssid > 0)

LEMMA DefaultGood == Good(DefaultConfig) /\ DefaultConfig.ssid < StoredSsidRoom
BY DEF Good, DefaultConfig, Configs, DefaultServers, DefaultHostname, SsidRoom,
       StoredSsidRoom, PasswordRoom, ServersRoom, HostnameRoom

(* Fields that are replaced by values of their types leave a configuration. *)
LEMMA FieldsReplaced ==
  ASSUME NEW c \in Configs
  PROVE  /\ [c EXCEPT !.timezone_set = FALSE] \in Configs
         /\ [c EXCEPT !.colour_set = FALSE] \in Configs
         /\ [c EXCEPT !.ntp_set = FALSE] \in Configs
         /\ [c EXCEPT !.wifi_configured = FALSE] \in Configs
         /\ \A v \in Int :
              [c EXCEPT !.timezone_set = TRUE, !.timezone = v] \in Configs
         /\ \A v \in 0 .. 255 :
              [c EXCEPT !.colour_set = TRUE, !.colour = v] \in Configs
         /\ \A v \in 0 .. ServersRoom - 1 :
              [c EXCEPT !.ntp_set = TRUE, !.servers = v] \in Configs
         /\ \A v \in 0 .. SsidRoom - 1, p \in 0 .. PasswordRoom - 1 :
              [c EXCEPT !.wifi_configured = TRUE, !.ssid = v, !.password = p]
                \in Configs
         /\ \A h \in 0 .. HostnameRoom - 1 :
              [c EXCEPT !.date = "off", !.hostname = h] \in Configs
         /\ \A x \in Int, y \in 0 .. 255, v \in 0 .. SsidRoom - 1,
               h \in 0 .. HostnameRoom - 1 :
              [c EXCEPT !.timezone = x, !.colour = y, !.ssid = v, !.hostname = h]
                \in Configs
BY ZenonT(60) DEF Configs

(* What is written fits the file and is a configuration again. *)
LEMMA StoredGood ==
  ASSUME NEW c, Good(c)
  PROVE  /\ StorePersisted(c) \in Records
         /\ StorePersisted(c).version = "v3"
         /\ StorePersisted(c).data.ssid < StoredSsidRoom
         /\ Good(StorePersisted(c).data)
<1> DEFINE d == [c EXCEPT
     !.timezone = IF c.timezone_set THEN @ ELSE 0,
     !.colour   = IF c.colour_set THEN @ ELSE 255,
     !.ssid     = Copy(@, StoredSsidRoom),
     !.hostname = IF @ = 0 THEN DefaultHostname ELSE @]
<1>1. /\ c.ssid \in Nat /\ Copy(c.ssid, StoredSsidRoom) \in 0 .. StoredSsidRoom - 1
      /\ c.ssid > 0 => Copy(c.ssid, StoredSsidRoom) > 0
  BY DEF Copy, Good, Configs, SsidRoom, StoredSsidRoom
<1>2. d \in Configs
  <2> DEFINE x == IF c.timezone_set THEN c.timezone ELSE 0
             y == IF c.colour_set THEN c.colour ELSE 255
             v == Copy(c.ssid, StoredSsidRoom)
             h == IF c.hostname = 0 THEN DefaultHostname ELSE c.hostname
  <2>1. /\ x \in Int /\ y \in 0 .. 255
        /\ v \in 0 .. SsidRoom - 1 /\ h \in 0 .. HostnameRoom - 1
    BY <1>1 DEF Good, Configs, SsidRoom, StoredSsidRoom, HostnameRoom,
                DefaultHostname
  <2>2. d = [c EXCEPT !.timezone = x, !.colour = y, !.ssid = v, !.hostname = h]
    OBVIOUS
  <2> HIDE DEF d, x, y, v, h
  <2>3. [c EXCEPT !.timezone = x, !.colour = y, !.ssid = v, !.hostname = h]
          \in Configs
    BY <2>1, FieldsReplaced, Zenon DEF Good
  <2> QED BY <2>2, <2>3
<1>3. d.hostname = c.hostname /\ d.ssid = Copy(c.ssid, StoredSsidRoom)
      /\ d.wifi_configured = c.wifi_configured
  BY DEF Good, Configs
<1>4. StorePersisted(c) = [version |-> "v3", data |-> d]
  BY DEF StorePersisted
<1> HIDE DEF d
<1> QED BY <1>1, <1>2, <1>3, <1>4 DEF Good, Records, StoredSsidRoom

(* Every file that can be met loads as a configuration that can be used. *)
LEMMA LoadedGood ==
  ASSUME NEW f \in Records, f.data.wifi_configured => f.data.ssid > 0
  PROVE  Good(Loaded(f))
<1>1. f.data \in Configs /\ f.version \in {"absent", "empty", "v1", "v2", "v3"}
  BY DEF Records
<1>2. Good(LoadPersisted(f.data))
  BY <1>1 DEF LoadPersisted, Good, Configs, DefaultHostname, HostnameRoom
<1>3. Good(LoadLegacy(f.data))
  <2>1. LoadLegacy(f.data) \in Configs
    <3>1. DefaultHostname \in 0 .. HostnameRoom - 1
      BY DEF DefaultHostname, HostnameRoom
    <3> QED BY <1>1, <3>1, FieldsReplaced, Zenon DEF LoadLegacy
  <2> QED BY <1>1, <2>1 DEF LoadLegacy, Good, Configs, DefaultHostname, HostnameRoom
<1> QED BY <1>1, <1>2, <1>3, DefaultGood DEF Loaded
-----------------------------------------------------------------------------
LEMMA InitInv == Init => StoreInv
<1> SUFFICES ASSUME Init PROVE StoreInv
  OBVIOUS
<1>1. file \in Records /\ file.data.ssid < StoredSsidRoom
      /\ (file.data.wifi_configured => file.data.ssid > 0)
  BY FilesAssumption DEF Init
<1> QED BY <1>1, DefaultGood
        DEF Init, StoreInv, TypeOK, Named, SavedInFile, Ordered, Good

(* The commands that are understood, each a use of Handled. *)
Changing ==
  \/ SetTimezone \/ SetColour \/ SetWifi \/ SetDate \/ SetServers
  \/ SetHostname \/ Reset

LEMMA ChangingHandled == Changing => \E c : Handled(c)
BY DEF Changing, SetTimezone, SetColour, SetWifi, SetDate, SetServers,
       SetHostname, Reset
(* What a command makes of a usable configuration can be used. *)
LEMMA HandledGood ==
  ASSUME Good(config), Changing
  PROVE  Good(config')
<1>1. CASE SetTimezone
  <2>1. CASE Handled([config EXCEPT !.timezone_set = FALSE])
    <3>1. [config EXCEPT !.timezone_set = FALSE] \in Configs
      BY FieldsReplaced, Zenon DEF Good
    <3> QED BY <2>1, <3>1 DEF Handled, Good, Configs
  <2>2. ASSUME NEW t \in Timezones,
               Handled([config EXCEPT !.timezone_set = TRUE,
                                      !.timezone = TimezoneOffset(t)])
        PROVE  Good(config')
    <3>1. TimezoneOffset(t) \in Int
      BY ConfigAssumption DEF TimezoneOffset, Typed
    <3> QED BY <2>2, <3>1 DEF Handled, Good, Configs
  <2> QED BY <1>1, <2>1, <2>2 DEF SetTimezone
<1>2. CASE SetColour
  <2>1. CASE Handled([config EXCEPT !.colour_set = FALSE])
    <3>1. [config EXCEPT !.colour_set = FALSE] \in Configs
      BY FieldsReplaced, Zenon DEF Good
    <3> QED BY <2>1, <3>1 DEF Handled, Good, Configs
  <2>2. ASSUME NEW v \in Colours,
               Handled([config EXCEPT !.colour_set = TRUE, !.colour = v])
        PROVE  Good(config')
    <3>1. v \in 0 .. 255
      BY ConfigAssumption
    <3>2. [config EXCEPT !.colour_set = TRUE, !.colour = v] \in Configs
      BY <3>1, FieldsReplaced, Zenon DEF Good
    <3> QED BY <2>2, <3>2 DEF Handled, Good, Configs
  <2> QED BY <1>2, <2>1, <2>2 DEF SetColour
<1>3. CASE SetWifi
  <2>1. CASE Handled([config EXCEPT !.wifi_configured = FALSE])
    <3>1. [config EXCEPT !.wifi_configured = FALSE] \in Configs
      BY FieldsReplaced, Zenon DEF Good
    <3> QED BY <2>1, <3>1 DEF Handled, Good, Configs
  <2>2. ASSUME NEW s \in Ssids, NEW p \in Passwords,
               Handled([config EXCEPT !.wifi_configured = TRUE,
                                      !.ssid = Copy(s, SsidRoom),
                                      !.password = Copy(p, PasswordRoom)])
        PROVE  Good(config')
    <3>1. /\ Copy(s, SsidRoom) \in 0 .. SsidRoom - 1 /\ Copy(s, SsidRoom) > 0
          /\ Copy(p, PasswordRoom) \in 0 .. PasswordRoom - 1
      BY ConfigAssumption DEF Copy, SsidRoom, PasswordRoom
    <3>2. [config EXCEPT !.wifi_configured = TRUE, !.ssid = Copy(s, SsidRoom),
                         !.password = Copy(p, PasswordRoom)] \in Configs
      BY <3>1, FieldsReplaced, Zenon DEF Good
    <3> QED BY <2>2, <3>1, <3>2 DEF Handled, Good, Configs
  <2> QED BY <1>3, <2>1, <2>2 DEF SetWifi
<1>4. CASE SetDate
  <2>1. PICK m \in DateModes : Handled([config EXCEPT !.date = m])
    BY <1>4 DEF SetDate
  <2>2. m \in {"off", "on", "auto"}
    BY ConfigAssumption
  <2> QED BY <2>1, <2>2 DEF Handled, Good, Configs
<1>5. CASE SetServers
  <2>1. CASE Handled([config EXCEPT !.ntp_set = FALSE])
    <3>1. [config EXCEPT !.ntp_set = FALSE] \in Configs
      BY FieldsReplaced, Zenon DEF Good
    <3> QED BY <2>1, <3>1 DEF Handled, Good, Configs
  <2>2. ASSUME NEW v \in Servers,
               Handled([config EXCEPT !.ntp_set = TRUE,
                                      !.servers = Copy(v, ServersRoom)])
        PROVE  Good(config')
    <3>1. Copy(v, ServersRoom) \in 0 .. ServersRoom - 1
      BY ConfigAssumption DEF Copy, ServersRoom
    <3>2. [config EXCEPT !.ntp_set = TRUE, !.servers = Copy(v, ServersRoom)]
            \in Configs
      BY <3>1, FieldsReplaced, Zenon DEF Good
    <3> QED BY <2>2, <3>2 DEF Handled, Good, Configs
  <2> QED BY <1>5, <2>1, <2>2 DEF SetServers
<1>6. CASE SetHostname
  <2>1. PICK h \in Hostnames \union {DefaultHostname} :
          Handled([config EXCEPT !.hostname = Copy(h, HostnameRoom)])
    BY <1>6 DEF SetHostname
  <2>2. h \in Nat \ {0}
    BY ConfigAssumption DEF DefaultHostname
  <2>3. Copy(h, HostnameRoom) \in 0 .. HostnameRoom - 1 /\ Copy(h, HostnameRoom) > 0
    BY <2>2 DEF Copy, HostnameRoom
  <2> QED BY <2>1, <2>3 DEF Handled, Good, Configs
<1>7. CASE Reset
  BY <1>7, DefaultGood DEF Reset, Handled
<1> QED BY <1>1, <1>2, <1>3, <1>4, <1>5, <1>6, <1>7 DEF Changing

(* A flash that is formatted holds a record like any other. *)
LEMMA PrepareKeeps ==
  ASSUME Prepare, TypeOK, Named
  PROVE  /\ mounted' \in BOOLEAN /\ file' \in Records
         /\ file'.data.ssid < StoredSsidRoom
         /\ file'.data.wifi_configured => file'.data.ssid > 0
         /\ file' \in {file, NoFile}
<1>1. /\ NoFile \in Records /\ NoFile.data.ssid < StoredSsidRoom
      /\ NoFile.data.wifi_configured => NoFile.data.ssid > 0
  BY DefaultGood DEF NoFile, Records, Good
<1>2. mounted' \in BOOLEAN /\ file' \in {file, NoFile}
  BY DEF Prepare, TypeOK
<1> QED BY <1>1, <1>2 DEF TypeOK, Named

LEMMA StepInv == StoreInv /\ [Next]_vars => StoreInv'
<1> SUFFICES ASSUME StoreInv, [Next]_vars PROVE StoreInv'
  OBVIOUS
<1> USE DEF StoreInv, Named, SavedInFile, Ordered
<1>1. Good(config) /\ Good(Loaded(file))
  BY LoadedGood DEF TypeOK, Good
<1>2. CASE Load
  <2>1. /\ mounted' \in BOOLEAN /\ file' \in Records
        /\ file'.data.ssid < StoredSsidRoom
        /\ file'.data.wifi_configured => file'.data.ssid > 0
        /\ file' \in {file, NoFile}
    BY <1>2, PrepareKeeps DEF Load, TypeOK
  <2>2. Good(config')
    BY <1>1, <1>2, <2>1, LoadedGood DEF Load
  <2>3. pc = "boot" /\ pc' = "idle" /\ synced' = synced /\ report' = report
    BY <1>2 DEF Load
  <2> QED BY <2>1, <2>2, <2>3 DEF TypeOK, Good
<1>3. CASE Changing
  <2>1. Good(config')
    BY <1>1, <1>3, HandledGood
  <2>2. PICK c : Handled(c)
    BY <1>3, ChangingHandled
  <2> QED BY <2>1, <2>2 DEF Handled, TypeOK, Good
<1>4. CASE Reject
  BY <1>4 DEF Reject, TypeOK
<1>5. CASE Mount \/ Open
  <2>1. /\ file' \in Records /\ file'.data.ssid < StoredSsidRoom
        /\ file'.data.wifi_configured => file'.data.ssid > 0
    <3>1. CASE Mount
      BY <1>1, <3>1, PrepareKeeps DEF Mount, TypeOK
    <3>2. CASE Open
      <4>1. file' \in {file, [file EXCEPT !.version = "empty"]}
        BY <3>2 DEF Open, SaveFails
      <4> QED BY <4>1 DEF Records, TypeOK
    <3> QED BY <1>5, <3>1, <3>2
  <2>2. /\ config' = config /\ synced' = synced /\ mounted' \in BOOLEAN
        /\ report' \in {report, "failed"} /\ pc' \in {"idle", "open", "write"}
        /\ pc' # "idle" => mounted' = TRUE
    BY <1>5 DEF Mount, Prepare, Open, SaveFails, Return, TypeOK
  <2>3. ~synced /\ report # "saved"
    BY <1>5 DEF Mount, Open
  <2> QED BY <2>1, <2>2, <2>3 DEF TypeOK
<1>6. CASE Write
  BY <1>6 DEF Write, SaveFails, Return, TypeOK
<1>7. CASE Sync
  <2>1. CASE file' = StorePersisted(config) /\ synced' = TRUE
    BY <1>1, <1>7, <2>1, StoredGood DEF Sync, TypeOK, Good
  <2>2. CASE synced' = FALSE /\ UNCHANGED file
    BY <1>7, <2>2 DEF Sync, TypeOK
  <2> QED BY <1>7, <2>1, <2>2 DEF Sync
<1>8. CASE Close
  BY <1>8 DEF Close, Return, TypeOK
<1>9. CASE PowerCycle
  BY <1>9, DefaultGood DEF PowerCycle, TypeOK, Good
<1>10. CASE UNCHANGED vars
  BY <1>10 DEF vars, TypeOK
<1> QED BY <1>2, <1>3, <1>4, <1>5, <1>6, <1>7, <1>8, <1>9, <1>10
        DEF Next, Command, Changing

LEMMA StoreInvariant == Spec => []StoreInv
BY InitInv, StepInv, PTL DEF Spec

(* Every text typed, and every text found in an old file, leaves room for   *)
(* its NUL in memory and in the file (copy_string).                         *)
THEOREM TextsFit == Spec => []TypeOK
<1>1. StoreInv => TypeOK
  BY DEF StoreInv
<1> QED BY <1>1, StoreInvariant, PTL

(* The firmware never runs, nor restarts, with an empty host name or with a *)
(* network to join that has no name.                                        *)
THEOREM AlwaysUsable == Spec => []Usable
<1>1. StoreInv => Usable
  BY LoadedGood DEF StoreInv, Named, Usable, Good, TypeOK
<1> QED BY <1>1, StoreInvariant, PTL
-----------------------------------------------------------------------------
(***************************************************************************)
(* What is in the file when a restart reads it.  The 32 bytes of            *)
(* persisted_config_t have no room for a name of 32 characters with its     *)
(* NUL; Storable is what they have room for.                                *)
(***************************************************************************)
LEMMA StorableFields ==
  ASSUME NEW c \in Configs
  PROVE  /\ Storable(c).timezone_set = c.timezone_set
         /\ Storable(c).timezone = c.timezone
         /\ Storable(c).colour_set = c.colour_set
         /\ Storable(c).colour = c.colour
         /\ Storable(c).wifi_configured = c.wifi_configured
         /\ Storable(c).ssid = IF c.ssid = 32 THEN 31 ELSE c.ssid
         /\ Storable(c).password = c.password
         /\ Storable(c).ntp_set = c.ntp_set
         /\ Storable(c).servers = c.servers
         /\ Storable(c).date = c.date
         /\ Storable(c).hostname = c.hostname
<1>1. Storable(c).ssid = IF c.ssid = 32 THEN 31 ELSE c.ssid
  BY DEF Storable, Configs, SsidRoom
<1> QED BY <1>1 DEF Storable, Configs

(* What is stored and loaded again is, in all that the firmware reads of    *)
(* it, what was to be stored.                                               *)
LEMMA RoundTrip ==
  ASSUME NEW c, Good(c)
  PROVE  Observed(Loaded(StorePersisted(c))) = Observed(Storable(c))
<1> DEFINE d == StorePersisted(c).data
           e == Storable(c)
<1>1. c \in Configs /\ c.hostname # 0 /\ c.ssid \in 0 .. 32
  BY DEF Good, Configs, SsidRoom
<1>2. /\ d.timezone_set = c.timezone_set /\ d.colour_set = c.colour_set
      /\ d.wifi_configured = c.wifi_configured /\ d.ntp_set = c.ntp_set
      /\ d.password = c.password /\ d.servers = c.servers /\ d.date = c.date
      /\ d.timezone = (IF c.timezone_set THEN c.timezone ELSE 0)
      /\ d.colour = (IF c.colour_set THEN c.colour ELSE 255)
      /\ d.ssid = Copy(c.ssid, StoredSsidRoom)
      /\ d.hostname = c.hostname
  <2>1. /\ d.timezone_set = c.timezone_set /\ d.colour_set = c.colour_set
        /\ d.wifi_configured = c.wifi_configured /\ d.ntp_set = c.ntp_set
    BY <1>1 DEF StorePersisted, Configs
  <2>2. d.password = c.password /\ d.servers = c.servers /\ d.date = c.date
    BY <1>1 DEF StorePersisted, Configs
  <2>3. /\ d.timezone = (IF c.timezone_set THEN c.timezone ELSE 0)
        /\ d.colour = (IF c.colour_set THEN c.colour ELSE 255)
    BY <1>1 DEF StorePersisted, Configs
  <2>4. d.ssid = Copy(c.ssid, StoredSsidRoom) /\ d.hostname = c.hostname
    BY <1>1 DEF StorePersisted, Configs
  <2> QED BY <2>1, <2>2, <2>3, <2>4
<1>3. Copy(c.ssid, StoredSsidRoom) = IF c.ssid = 32 THEN 31 ELSE c.ssid
  BY <1>1 DEF Copy, StoredSsidRoom
<1>4. d \in Configs /\ d.hostname # 0
  BY StoredGood DEF Good, Configs
<1>5. Loaded(StorePersisted(c)) = LoadPersisted(d)
  BY StoredGood DEF Loaded
<1> HIDE DEF d, e
<1>6. Observed(LoadPersisted(d)) = Observed(d)
  BY <1>4 DEF LoadPersisted, Observed, Configs
<1>7. /\ e.timezone_set = d.timezone_set /\ e.colour_set = d.colour_set
      /\ e.wifi_configured = d.wifi_configured /\ e.ntp_set = d.ntp_set
      /\ e.ssid = d.ssid /\ e.password = d.password
      /\ e.servers = d.servers /\ e.date = d.date /\ e.hostname = d.hostname
      /\ e.timezone_set => e.timezone = d.timezone
      /\ e.colour_set => e.colour = d.colour
  BY <1>1, <1>2, <1>3, StorableFields DEF e
<1>8. Observed(d) = Observed(e)
  BY <1>7 DEF Observed
<1> QED BY <1>5, <1>6, <1>8 DEF e

(* A command that was reported as saved is in the file, whatever was typed  *)
(* and whatever the file held before: all of it, but for the last character *)
(* of an SSID of full length (config_save, config_load).                    *)
THEOREM SavedSettingsSurvive == Spec => []SavedMeansStored
<1>1. StoreInv => SavedMeansStored
  BY RoundTrip DEF StoreInv, Named, SavedInFile, SavedMeansStored, Good, TypeOK
<1> QED BY <1>1, StoreInvariant, PTL
-----------------------------------------------------------------------------
(***************************************************************************)
(* The refinement of Settings.                                              *)
(***************************************************************************)
LEMMA ObservedTyped == ASSUME NEW c, Good(c) PROVE Observed(c) \in Observations
BY DEF Good, Observed, Observations, Configs, ServersRoom

LEMMA StorableTyped ==
  ASSUME NEW c, Good(c) PROVE Observed(Storable(c)) \in Observations
<1>1. Storable(c).ssid \in 0 .. SsidRoom - 1
      /\ (c.ssid > 0 => Storable(c).ssid > 0)
  BY StorableFields DEF Good, Configs, SsidRoom
<1>2. Storable(c) \in Configs
  <2>1. Storable(c) = [c EXCEPT !.ssid = Storable(c).ssid]
    BY DEF Good, Configs, Storable
  <2>2. \A v \in 0 .. SsidRoom - 1 : [c EXCEPT !.ssid = v] \in Configs
    BY DEF Good, Configs
  <2> QED BY <1>1, <2>1, <2>2, Zenon
<1>3. Good(Storable(c))
  BY <1>1, <1>2, StorableFields DEF Good
<1> QED BY <1>3, ObservedTyped

(* What has been read from the file, or is built in, can be stored as it is.*)
LEMMA LoadedStorable ==
  /\ Observed(Storable(DefaultConfig)) = Observed(DefaultConfig)
  /\ \A f \in Records : f.data.ssid < StoredSsidRoom
        => Observed(Storable(Loaded(f))) = Observed(Loaded(f))
<1>1. ASSUME NEW c \in Configs, c.ssid < StoredSsidRoom
      PROVE  Observed(Storable(c)) = Observed(c)
  <2>1. (IF c.ssid = 32 THEN 31 ELSE c.ssid) = c.ssid
    BY <1>1 DEF StoredSsidRoom
  <2> QED BY <2>1, StorableFields DEF Observed
<1>2. DefaultConfig \in Configs
  BY DefaultGood DEF Good
<1>3. ASSUME NEW f \in Records, f.data.ssid < StoredSsidRoom
      PROVE  Loaded(f) \in Configs /\ Loaded(f).ssid < StoredSsidRoom
  <2>1. f.data \in Configs
    BY DEF Records
  <2>2. DefaultHostname \in 0 .. HostnameRoom - 1
    BY DEF DefaultHostname, HostnameRoom
  <2>3. LoadPersisted(f.data) \in Configs
        /\ LoadPersisted(f.data).ssid = f.data.ssid
    BY <2>1, <2>2 DEF LoadPersisted, Configs
  <2>4. LoadLegacy(f.data) \in Configs
    BY <2>1, <2>2, FieldsReplaced, Zenon DEF LoadLegacy
  <2>5. LoadLegacy(f.data).ssid = f.data.ssid
    BY <2>1 DEF LoadLegacy, Configs
  <2> QED BY <1>2, <1>3, <2>3, <2>4, <2>5, DefaultGood DEF Loaded
<1> QED BY <1>1, <1>2, <1>3, DefaultGood

LEMMA InitRefines == Init => StoredSettings!Init
<1> SUFFICES ASSUME Init PROVE StoredSettings!Init
  OBVIOUS
<1>1. Good(Loaded(file))
  BY InitInv, LoadedGood DEF StoreInv, Named, TypeOK
<1> QED BY <1>1, ObservedTyped, LoadedStorable DEF Init, StoredSettings!Init

(* Every step keeps what Settings sees, or is a step of it: loading is Load *)
(* and the loss of power Restart, a command is Change, mounting in a save   *)
(* is Mend, and a synchronised file is Save.                                *)
LEMMA StepRefines ==
  StoreInv /\ [Next]_vars
    => [StoredSettings!Next]_<<Observed(Storable(config)),
                               Observed(Loaded(file)), mounted>>
<1> SUFFICES ASSUME StoreInv, [Next]_vars
             PROVE  \/ StoredSettings!Next
                    \/ UNCHANGED <<Observed(Storable(config)),
                                   Observed(Loaded(file)), mounted>>
  OBVIOUS
<1> USE DEF StoredSettings!Next
<1>0. Loaded(NoFile) = DefaultConfig
  BY DEF Loaded, NoFile
<1>1. Good(config) /\ TypeOK /\ Named
  BY DEF StoreInv, Named, TypeOK, Good
<1>2. CASE Load
  <2>1. /\ mounted = FALSE /\ config = DefaultConfig /\ mounted' \in BOOLEAN
        /\ file' \in {file, NoFile}
        /\ config' \in {DefaultConfig, Loaded(file')}
        /\ mounted' = FALSE => config' = DefaultConfig
    BY <1>2 DEF Load, Prepare, StoreInv, Ordered
  <2>2. file' \in Records /\ file'.data.ssid < StoredSsidRoom
    BY <1>1, <1>2, PrepareKeeps DEF Load
  <2>3. Observed(Storable(config'))
          \in {Observed(DefaultConfig), Observed(Loaded(file'))}
    BY <2>1, <2>2, LoadedStorable
  <2>4. Observed(Loaded(file'))
          \in {Observed(Loaded(file)), Observed(DefaultConfig)}
    BY <1>0, <2>1
  <2>5. mounted' = FALSE => Observed(Storable(config')) = Observed(DefaultConfig)
    BY <2>1, LoadedStorable
  <2> QED BY <2>1, <2>3, <2>4, <2>5, LoadedStorable
          DEF StoredSettings!Load, StoredSettings!Examine
<1>3. CASE PowerCycle
  BY <1>3, LoadedStorable DEF PowerCycle, StoredSettings!Restart
<1>4. CASE Changing
  <2>1. Good(config') /\ UNCHANGED <<file, mounted>>
    BY <1>1, <1>4, HandledGood, ChangingHandled DEF Handled
  <2> QED BY <2>1, StorableTyped DEF StoredSettings!Change
<1>5. CASE Mount
  <2>1. config' = config /\ Prepare
    BY <1>5 DEF Mount
  <2>2. CASE mounted
    BY <2>1, <2>2 DEF Prepare
  <2>3. CASE ~mounted
    <3>1. mounted' \in BOOLEAN /\ file' \in {file, NoFile}
      BY <2>1, <2>3 DEF Prepare
    <3>2. Observed(Loaded(file'))
            \in {Observed(Loaded(file)), Observed(DefaultConfig)}
      BY <1>0, <3>1
    <3> QED BY <2>1, <2>3, <3>1, <3>2
            DEF StoredSettings!Mend, StoredSettings!Examine
  <2> QED BY <2>2, <2>3
<1>6. CASE Open
  <2>1. config' = config /\ mounted' = mounted
    BY <1>6 DEF Open, SaveFails
  <2>2. file' = file \/ (file.version = "absent"
                          /\ file' = [file EXCEPT !.version = "empty"])
    BY <1>6 DEF Open, SaveFails
  <2>3. Loaded(file') = Loaded(file)
    BY <1>1, <2>2 DEF Loaded, TypeOK, Records
  <2> QED BY <2>1, <2>3
<1>7. CASE Sync
  <2>1. CASE file' = StorePersisted(config) /\ config' = config
    <3>1. Observed(Loaded(file')) = Observed(Storable(config))
      BY <1>1, <2>1, RoundTrip
    <3>2. mounted /\ mounted' = mounted
      BY <1>7 DEF Sync, StoreInv, Ordered
    <3> QED BY <2>1, <3>1, <3>2 DEF StoredSettings!Save
  <2> QED BY <1>7, <2>1 DEF Sync
<1>8. CASE UNCHANGED <<config, file, mounted>>
  BY <1>8
<1> QED BY <1>2, <1>3, <1>4, <1>5, <1>6, <1>7, <1>8
        DEF Next, Command, Changing, Reject, Write, SaveFails, Close, vars

(* What a restart finds is replaced by a save, in one step and by the       *)
(* settings in use, and lost only to the formatting of a flash that was     *)
(* found corrupt before it was mounted: nothing else in config_load and     *)
(* config_save changes it, whichever of their steps fails or is cut short.  *)
THEOREM StoreImplementsSettings == Spec => ImplementsSettings
BY InitRefines, StepRefines, StoreInvariant, PTL
DEF Spec, ImplementsSettings, StoredSettings!Spec
=============================================================================
