----------------------------- MODULE WifiConnect -----------------------------
(***************************************************************************)
(* Wi-Fi association (src/network.c): wifi_connect over the configured      *)
(* network, or over the open networks that a scan finds, with the driver    *)
(* set up before and taken down on every path that fails.                   *)
(*                                                                          *)
(* The caller is runtime_reconnect_network, which calls again until it has  *)
(* succeeded once.  The driver runs beside it, as an interrupt: it reports  *)
(* scan results into a local variable of wifi_connect_via_scan, renews the  *)
(* DHCP lease, and may lose the association.  The captive portal check is   *)
(* seen as its contract, module Probe.  A restart is an initial state again *)
(* and no action: nothing here outlives it.                                 *)
(***************************************************************************)
EXTENDS FiniteSets, Integers, Sequences

CONSTANTS
  Networks,    \* the networks in the air, by name
  OpenOnes,    \* those without a password
  MaxSsids,    \* room of wifi_scan_state_t.ssids: 8
  ScanPolls,   \* WIFI_CONNECT_TIMEOUT_MS in polls of 50 ms
  None         \* no network

ASSUME WifiAssumption ==
  /\ OpenOnes \subseteq Networks /\ IsFiniteSet(Networks)
  /\ None \notin Networks
  /\ MaxSsids \in Nat \ {0} /\ ScanPolls \in Nat

VARIABLES
  pc,         \* position in wifi_connect; "idle" between two calls
  config,     \* the network asked for, and whether it has a password
  ready,      \* wifi_ready: the result of the last call
  driver,     \* whether the driver and its network interface are up
  scanning,   \* the driver has the scan call-back and its argument
  joined,     \* the network the radio is associated with
  complete, ssids,   \* wifi_scan_state_t
  index,      \* of the loop over ssids
  waited,     \* polls of the scan
  asking, verdict,   \* see Probe
  hostname,   \* what netif->hostname refers to
  announced,  \* what the last DHCP message gave as host name
  heard,      \* history: open networks reported to this call's scan
  tried       \* history: networks this call tried to join

scan    == <<complete, ssids>>
probe   == <<asking, verdict>>
naming  == <<hostname, announced>>
history == <<heard, tried>>
vars == <<pc, config, ready, driver, scanning, joined, scan, index, waited,
          probe, naming, history>>

Check == INSTANCE Probe

(* The call of wifi_connect is given a copy of the configuration that stays *)
(* the same from boot on (Runtime, ConfigFrozen).                           *)
Configs == [ssid : Networks \union {None}, password : BOOLEAN]

Configured == config.ssid # None

TypeOK ==
  /\ pc \in {"idle", "init", "join", "probe", "scan", "wait", "judge", "next",
             "probe_next"}
  /\ config \in Configs
  /\ {ready, driver, scanning, complete} \subseteq BOOLEAN
  /\ joined \in Networks \union {None}
  /\ ssids \in Seq(Networks) /\ Len(ssids) <= MaxSsids
  /\ index \in 1 .. MaxSsids + 1 /\ waited \in 0 .. ScanPolls
  /\ asking \in BOOLEAN /\ verdict \in {"none", "online", "portal"}
  /\ hostname \in {"default", "copy"}
  /\ announced \in {"nothing", "default", "set", "garbage"}
  /\ heard \subseteq Networks /\ tried \subseteq Networks

Init ==
  /\ pc = "idle" /\ config \in Configs /\ ready = FALSE
  /\ driver = FALSE /\ scanning = FALSE /\ joined = None
  /\ complete = FALSE /\ ssids = <<>> /\ index = 1 /\ waited = 0
  /\ Check!Init
  /\ hostname = "default" /\ announced = "nothing"
  /\ heard = {} /\ tried = {}
-----------------------------------------------------------------------------
(* cyw43_arch_deinit: no call-back comes any more, the interface is gone.   *)
Deinit ==
  /\ driver' = FALSE /\ scanning' = FALSE /\ joined' = None
  /\ hostname' = "default"

DriverStays == UNCHANGED <<driver, scanning, joined, hostname>>

(* wifi_connect returns, its variables cease to exist, and                  *)
(* runtime_set_network_flags records the result.                            *)
Return(result) ==
  /\ pc' = "idle" /\ ready' = result
  /\ complete' = FALSE /\ ssids' = <<>> /\ index' = 1 /\ waited' = 0
  /\ heard' = {} /\ tried' = {}

(* A path of wifi_connect that fails once the driver is up. *)
GiveUp == Deinit /\ Return(FALSE) /\ UNCHANGED announced

Succeed == DriverStays /\ Return(TRUE) /\ UNCHANGED announced

Locals == <<scan, index, waited, heard>>
-----------------------------------------------------------------------------
(* runtime_reconnect_network calls unless the last call succeeded; then it  *)
(* has nothing to do, whatever has become of the association.               *)
LeaveAlone == pc = "idle" /\ ready /\ UNCHANGED vars

Call ==
  /\ pc = "idle" /\ ~ready /\ pc' = "init"
  /\ UNCHANGED <<config, ready, driver, scanning, joined, Locals, probe,
                 naming, tried>>

(* wifi_initialise_network_stack: the driver does not come up, nor can one  *)
(* that is up be set up again; or it does.  network_apply_hostname hands    *)
(* lwIP a pointer into the configuration that runtime_reconnect_network has *)
(* copied, if there is an interface.                                        *)
InitialiseStack ==
  /\ pc = "init"
  /\ \/ DriverStays /\ Return(FALSE)
     \/ /\ ~driver /\ driver' = TRUE /\ hostname' \in {"default", "copy"}
        /\ pc' = IF Configured THEN "join" ELSE "scan"
        /\ UNCHANGED <<ready, scanning, joined, Locals, tried>>
  /\ UNCHANGED <<config, probe, announced>>

(* Variant: a network that does not answer leaves the driver set up. *)
JoinFails_KeepsDriver ==
  /\ pc = "join"
  /\ DriverStays /\ Return(FALSE)
  /\ UNCHANGED <<config, announced, probe>>

(* wifi_connect_with_credentials: joining fails, ... *)
JoinFails ==
  /\ pc = "join"
  /\ GiveUp
  /\ UNCHANGED <<config, probe>>

(* Variant: only networks found by a scan are probed. *)
JoinSucceeds_Unprobed ==
  /\ pc = "join" /\ joined' = config.ssid
  /\ Return(TRUE)
  /\ UNCHANGED <<config, driver, scanning, naming, probe>>

(* ... or succeeds, and is all if there is a password. *)
JoinSucceeds ==
  /\ pc = "join" /\ joined' = config.ssid
  /\ IF config.password
     THEN Return(TRUE) /\ UNCHANGED probe
     ELSE /\ pc' = "probe" /\ Check!Ask
          /\ tried' = tried \union {config.ssid}
          /\ UNCHANGED <<ready, Locals>>
  /\ UNCHANGED <<config, driver, scanning, naming>>

ProbeAnswers ==
  /\ pc = "probe"
  /\ \/ Check!Answer("online") /\ Succeed
     \/ Check!Answer("portal") /\ GiveUp
  /\ UNCHANGED config
-----------------------------------------------------------------------------
(***************************************************************************)
(* wifi_connect_via_scan.                                                   *)
(***************************************************************************)
(* Variant: a scan that cannot start leaves the driver set up. *)
StartScan_KeepsDriver ==
  /\ pc = "scan"
  /\ \/ DriverStays /\ Return(FALSE) /\ UNCHANGED announced
     \/ /\ pc' = "wait" /\ scanning' = TRUE
        /\ UNCHANGED <<ready, driver, joined, naming, Locals, tried>>
  /\ UNCHANGED <<config, probe>>

StartScan ==
  /\ pc = "scan"
  /\ \/ GiveUp
     \/ /\ pc' = "wait" /\ scanning' = TRUE
        /\ UNCHANGED <<ready, driver, joined, naming, Locals, tried>>
  /\ UNCHANGED <<config, probe>>

WaitForScan ==
  /\ pc = "wait"
  /\ IF complete \/ waited = ScanPolls
     THEN pc' = "judge" /\ UNCHANGED waited
     ELSE waited' = waited + 1 /\ UNCHANGED pc
  /\ UNCHANGED <<config, ready, driver, scanning, joined, scan, index, probe,
                 naming, history>>

(* The scan may complete between the time-out and this. *)
JudgeScan ==
  /\ pc = "judge"
  /\ IF complete
     THEN /\ pc' = "next"
          /\ UNCHANGED <<ready, driver, scanning, joined, Locals, naming, tried>>
     ELSE GiveUp
  /\ UNCHANGED <<config, probe>>

(* cyw43_arch_wifi_connect_timeout_ms fails for one network, ... *)
NextFails ==
  /\ pc = "next" /\ index <= Len(ssids)
  /\ index' = index + 1 /\ tried' = tried \union {ssids[index]}
  /\ UNCHANGED <<pc, config, ready, driver, scanning, joined, scan, waited,
                 probe, naming, heard>>

(* ... succeeds, ... *)
NextSucceeds ==
  /\ pc = "next" /\ index <= Len(ssids) /\ pc' = "probe_next"
  /\ joined' = ssids[index] /\ tried' = tried \union {ssids[index]}
  /\ Check!Ask
  /\ UNCHANGED <<config, ready, driver, scanning, Locals, naming>>

NextAnswers ==
  /\ pc = "probe_next"
  /\ \/ Check!Answer("online") /\ Succeed
     \/ /\ Check!Answer("portal")
        /\ pc' = "next" /\ index' = index + 1
        /\ UNCHANGED <<ready, driver, scanning, joined, scan, waited, naming,
                       history>>
  /\ UNCHANGED config

(* ... or there is none left. *)
NoneLeft ==
  /\ pc = "next" /\ index > Len(ssids)
  /\ GiveUp
  /\ UNCHANGED <<config, probe>>
-----------------------------------------------------------------------------
(***************************************************************************)
(* The driver, its call-back and lwIP.                                      *)
(***************************************************************************)

(* Variant: a network is listed each time it is heard. *)
Listed_Again(n) ==
  IF n \in OpenOnes /\ Len(ssids) < MaxSsids THEN Append(ssids, n) ELSE ssids

(* Variant: room is not looked at. *)
Listed_Unbounded(n) ==
  IF n \in OpenOnes /\ \A i \in DOMAIN ssids : ssids[i] # n
  THEN Append(ssids, n) ELSE ssids

(* wifi_scan_result_cb with a result: open, new, and room for it. *)
Listed(n) ==
  IF /\ n \in OpenOnes /\ Len(ssids) < MaxSsids
     /\ \A i \in DOMAIN ssids : ssids[i] # n
  THEN Append(ssids, n) ELSE ssids

ScanResult(n) ==
  /\ scanning
  /\ ssids' = Listed(n) /\ heard' = heard \union ({n} \intersect OpenOnes)
  /\ UNCHANGED <<pc, config, ready, driver, scanning, joined, complete, index,
                 waited, probe, naming, tried>>

(* ... and without one. *)
ScanComplete ==
  /\ scanning /\ scanning' = FALSE /\ complete' = TRUE
  /\ UNCHANGED <<pc, config, ready, driver, joined, ssids, index, waited,
                 probe, naming, history>>

(* A DHCP message names the device.  Outside the call the copy of the       *)
(* configuration is gone, and its memory in use for something else, or not. *)
SendDhcp ==
  /\ driver /\ joined # None
  /\ announced' \in (IF hostname = "default" THEN {"default"}
                     ELSE IF pc # "idle" THEN {"set"} ELSE {"set", "garbage"})
  /\ UNCHANGED <<pc, config, ready, driver, scanning, joined, scan, index,
                 waited, probe, hostname, history>>

LinkLost ==
  /\ joined # None /\ joined' = None
  /\ UNCHANGED <<pc, config, ready, driver, scanning, scan, index, waited,
                 probe, naming, history>>

-----------------------------------------------------------------------------
Connect ==
  \/ InitialiseStack \/ JoinFails \/ JoinSucceeds \/ ProbeAnswers
  \/ StartScan \/ WaitForScan \/ JudgeScan
  \/ NextFails \/ NextSucceeds \/ NextAnswers \/ NoneLeft

Driver ==
  \/ \E n \in Networks : ScanResult(n)
  \/ ScanComplete \/ SendDhcp \/ LinkLost

Next == LeaveAlone \/ Call \/ Connect \/ Driver

Spec == Init /\ [][Next]_vars

(***************************************************************************)
(* runtime_run calls again and again, and wifi_connect waits for nothing    *)
(* without a time-out: a join has one of its own, a check ends by its       *)
(* contract.  Scans need never complete.                                    *)
(***************************************************************************)
FairSpec == Spec /\ WF_vars(Call) /\ WF_vars(Connect)

(* The world as good as one can ask: what is tried again and again works in *)
(* the end, also the network interface at start-up and each network heard.  *)
GoodWorld ==
  /\ SF_vars(InitialiseStack /\ driver') /\ SF_vars(StartScan /\ scanning')
  /\ SF_vars(ScanComplete /\ heard # {}) /\ SF_vars(JoinSucceeds) /\ SF_vars(NextSucceeds)
  /\ SF_vars((ProbeAnswers \/ NextAnswers) /\ verdict' = "online")
  /\ \A n \in OpenOnes : SF_vars(ScanResult(n))

-----------------------------------------------------------------------------
(***************************************************************************)
(* Properties.                                                              *)
(***************************************************************************)

(* The driver is set up between two calls exactly if the last one           *)
(* succeeded, so that no call sets up a driver twice; and it holds the      *)
(* address of wifi_scan_state_t only while wifi_connect_via_scan waits for  *)
(* the scan: not after that has timed out and returned, and not while the   *)
(* list is being worked on (the calls of cyw43_arch_deinit).                *)
DriverOwned ==
  /\ pc \in {"idle", "init"} => (driver <=> ready)
  /\ scanning => pc \in {"wait", "judge"}

(* wifi_connect returns TRUE only for the network asked for, if there is    *)
(* one, and for an open network only if it was probed after it was joined.  *)
Honest ==
  [][pc # "idle" /\ pc' = "idle" /\ ready'
       => IF Configured
          THEN joined' \in {config.ssid, None}
               /\ (~config.password => verdict' = "online" /\ config.ssid \in tried)
          ELSE verdict' = "online" /\ joined' \in heard \union {None}]_vars

(* A scan that ends without a network has tried every open one it heard, as *)
(* long as there is room for them: none is missed because another was heard *)
(* twice, could not be joined or is behind a portal.                        *)
EveryNetworkTried ==
  [][pc = "next" /\ pc' = "idle" /\ ~ready' /\ driver
       => \/ tried = heard
          \/ Cardinality(heard) > MaxSsids /\ Cardinality(tried) = MaxSsids]_vars

(* wifi_connect returns, whatever driver, networks and servers do; and if   *)
(* power stays, and the network asked for, or some open network, can be     *)
(* joined and is online, it succeeds in the end: no failure makes a later   *)
(* call fail.  A scan is presumed to end by a call-back without a result,   *)
(* as wifi_scan_result_cb does.                                             *)
ConnectsInTheEnd ==
  /\ pc # "idle" ~> pc = "idle"
  /\ GoodWorld /\ (Configured \/ OpenOnes # {}) => <>ready

(* docs/configuration.md, Hostname: "Set the device hostname."  The network *)
(* is told this name, or the default, and nothing else.                     *)
HostnameAnnounced == announced # "garbage"
=============================================================================
