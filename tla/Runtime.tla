------------------------------ MODULE Runtime ------------------------------
(***************************************************************************)
(* The main loop of the firmware (src/runtime.c): start-up configuration    *)
(* window, serial console, rendering, Wi-Fi and time synchronisation.       *)
(*                                                                          *)
(* One process, the loop of runtime_run, whose position is pc.  A step      *)
(* stands for the code between two points at which time passes: d           *)
(* milliseconds go by, then the step reads the clock and acts.  Beside it   *)
(* the environment types on the console, answers or refuses Wi-Fi and NTP,  *)
(* drops the association and cuts the power.                                *)
(*                                                                          *)
(* Wi-Fi association (wifi_connect), the NTP exchange (ntp_sync) and the    *)
(* file system (config_save, config_load) are seen here only through their  *)
(* outcomes; every outcome they have is possible at every call.             *)
(***************************************************************************)
EXTENDS Clock

CONSTANTS
  Configs,          \* the configurations a command can lead to
  DefaultConfig,    \* what config_init writes
  SerialSize,       \* RUNTIME_SERIAL_BUFFER_SIZE
  StartupDelay,     \* STARTUP_CONFIG_DELAY_MS
  PollMs,           \* sleep of the loop before the network starts: 10
  RefreshMs,        \* CLOCK_REFRESH_INTERVAL_MS
  ServiceMs,        \* network_service_interval after a served call: 1000
  RetryMs,          \* network_service_interval after a failed connect: 5000
  StepMs,           \* most time a non-blocking step takes
  ConnectMs,        \* most time wifi_connect takes
  NtpMs,            \* most time ntp_sync takes
  Faults,           \* which of "link" and "power" the environment may fail
  Marks,            \* the events whose age a run records: see `age'
  AgeCap            \* bound of the history counters

ASSUME RuntimeAssumption ==
  /\ DefaultConfig \in Configs
  /\ SerialSize \in Nat \ {0}
  /\ {StartupDelay, PollMs, RefreshMs, ServiceMs, RetryMs, StepMs,
      ConnectMs, NtpMs, AgeCap} \subseteq Nat
  /\ Faults \subseteq {"link", "power"}
  /\ Marks \subseteq {"input", "sync", "render"}
  \* "Deadlines must be less than 2^31 ms in the future" (clock.h), and the
  \* loop looks at the deadline again before half a range has passed.
  /\ 0 < StartupDelay /\ StartupDelay < HalfRange
  /\ PollMs + 2 * StepMs < HalfRange
  /\ Modulus <= AgeCap /\ StartupDelay + PollMs + 2 * StepMs <= AgeCap

VARIABLES
  pc,               \* position in the loop
  now,              \* clock_now_ms()
  window_active,    \* startup_config_window_active
  deadline,         \* startup_config_deadline_ms
  serial_length,
  config,           \* runtime_state_t.config
  flash,            \* what the file system holds
  config_dirty,
  wifi_ready,
  link,             \* whether the radio really is associated
  network_started,
  last_service,     \* last_network_service
  service_interval, \* network_service_interval
  clock,
  age               \* history: true time since the last input, sync, render

window  == <<window_active, deadline>>
console == <<serial_length, config, flash>>
network == <<config_dirty, wifi_ready>>
service == <<network_started, last_service, service_interval>>
vars == <<pc, now, window, console, network, link, service, clock, age>>

Places == {"start", "serial", "window", "render", "service", "connect", "sync",
           "ntp", "sleep"}

TypeOK ==
  /\ pc \in Places
  /\ now \in Ms /\ deadline \in Ms /\ last_service \in Ms
  /\ {window_active, config_dirty, wifi_ready, link, network_started}
       \subseteq BOOLEAN
  /\ serial_length \in 0 .. SerialSize - 1
  /\ config \in Configs /\ flash \in Configs
  /\ service_interval \in {ServiceMs, RetryMs}
  /\ clock \in Clocks
  /\ age \in [Marks -> 0 .. AgeCap]
-----------------------------------------------------------------------------
(***************************************************************************)
(* Time.  age counts true milliseconds, without wrap-around, and saturates  *)
(* at AgeCap; no step of the program reads it.                              *)
(***************************************************************************)
Capped(a) == IF a > AgeCap THEN AgeCap ELSE a

Pass(d, fresh) ==
  /\ now' = Later(now, d)
  /\ age' = [m \in Marks |-> IF m \in fresh THEN 0 ELSE Capped(age[m] + d)]

(* Variant: the deadline is missed unless the loop hits it exactly. *)
WindowOpen_UntilExactly(t) == window_active /\ t # deadline

(* runtime_update_startup_config_window: what the window becomes at t. *)
WindowOpen(t) == window_active /\ ~DeadlineReached(t, deadline)
-----------------------------------------------------------------------------
(* runtime_state_init up to the call of config_load. *)
Init ==
  /\ pc = "start" /\ now = 0 /\ age = [m \in Marks |-> 0]
  /\ window_active = TRUE /\ deadline = Later(0, StartupDelay)
  /\ serial_length = 0 /\ config = DefaultConfig /\ flash \in Configs
  /\ config_dirty = FALSE /\ wifi_ready = FALSE /\ link = FALSE
  /\ network_started = FALSE /\ last_service = 0
  /\ service_interval = ServiceMs
  /\ clock = ClockInit

(* config_load and the prologue of runtime_run.  It may fail, and formats a *)
(* flash that is found corrupt: DefaultConfig stands for nothing stored.    *)
Start ==
  /\ pc = "start" /\ pc' = "serial"
  /\ \E d \in 0 .. StepMs : Pass(d, {})
  /\ flash' \in {flash, DefaultConfig}
  /\ config' \in {flash', DefaultConfig}
  /\ UNCHANGED <<window, serial_length, network, link, service, clock>>
-----------------------------------------------------------------------------
(***************************************************************************)
(* runtime_handle_serial_input, split by what getchar_timeout_us returns.   *)
(***************************************************************************)
PollSerial(fresh) ==
  /\ pc = "serial" /\ pc' = "window"
  /\ Pass(0, fresh)
  /\ window_active' = WindowOpen(now)
  /\ UNCHANGED <<link, service, clock>>

(* The window is closed, or nothing has been typed. *)
PollNothing ==
  /\ PollSerial({})
  /\ UNCHANGED <<deadline, console, network>>

(* runtime_extend_startup_config_window: a character was read. *)
Extend ==
  /\ WindowOpen(now)
  /\ PollSerial({"input"})
  /\ deadline' = Later(now, StartupDelay)

(* Variant: one more character than the buffer has room for with its NUL. *)
ReceiveText_FillsBuffer ==
  /\ Extend
  /\ serial_length' = IF serial_length < SerialSize
                      THEN serial_length + 1 ELSE serial_length
  /\ UNCHANGED <<config, flash, network>>

ReceiveText ==
  /\ Extend
  /\ serial_length' = IF serial_length < SerialSize - 1
                      THEN serial_length + 1 ELSE serial_length
  /\ UNCHANGED <<config, flash, network>>

ReceiveBlankLine ==
  /\ serial_length = 0
  /\ Extend
  /\ UNCHANGED <<console, network>>

(* runtime_apply_serial_command when config_handle_command accepts.  The    *)
(* call of config_save may fail, and it formats as config_load does.        *)
CommandHandled ==
  /\ config' \in Configs
  /\ flash' \in {flash, config', DefaultConfig}
  /\ config_dirty' = TRUE
  /\ wifi_ready' = FALSE

CommandRejected == UNCHANGED <<config, flash, network>>

(* Variant: without the early return on a closed window once a line has     *)
(* been started.                                                            *)
ReceiveLine_AfterWindow ==
  /\ serial_length > 0
  /\ \/ Extend
     \/ ~WindowOpen(now) /\ PollSerial({}) /\ UNCHANGED deadline
  /\ serial_length' = 0
  /\ CommandHandled \/ CommandRejected

ReceiveLine ==
  /\ serial_length > 0
  /\ Extend
  /\ serial_length' = 0
  /\ CommandHandled \/ CommandRejected

(* Variant: the network starts with the loop. *)
StartNetwork_AtOnce ==
  /\ pc = "window" /\ pc' = "render"
  /\ \E d \in 0 .. StepMs : Pass(d, {})
  /\ window_active' = WindowOpen(now')
  /\ network_started' = TRUE
  /\ UNCHANGED <<deadline, console, network, link, last_service,
                 service_interval, clock>>

(* The loop starts the network once the window has closed. *)
StartNetwork ==
  /\ pc = "window" /\ pc' = "render"
  /\ \E d \in 0 .. StepMs : Pass(d, {})
  /\ IF network_started
     THEN UNCHANGED <<window_active, network_started>>
     ELSE /\ window_active' = WindowOpen(now')
          /\ network_started' = ~window_active'
  /\ UNCHANGED <<deadline, console, network, link, last_service,
                 service_interval, clock>>

(* runtime_render_view, display_output_present and the buffer swap. *)
Render ==
  /\ pc = "render" /\ pc' = "service"
  /\ Pass(0, {"render"})
  /\ UNCHANGED <<window, console, network, link, service, clock>>
-----------------------------------------------------------------------------
(* The test in front of runtime_service_network. *)
ServiceDue(t) ==
  network_started /\ (Since(t, last_service) >= service_interval
                        \/ last_service = 0)

SkipService ==
  /\ pc = "service" /\ pc' = "sleep"
  /\ \E d \in 0 .. StepMs : Pass(d, {})
  /\ ~ServiceDue(now')
  /\ UNCHANGED <<window, console, network, link, service, clock>>

(* Variant: only a new configuration makes it connect. *)
BeginService_OnlyWhenDirty ==
  /\ pc = "service"
  /\ \E d \in 0 .. StepMs : Pass(d, {})
  /\ ServiceDue(now')
  /\ last_service' = now'
  /\ IF config_dirty
     THEN config_dirty' = FALSE /\ wifi_ready' = FALSE
     ELSE UNCHANGED network
  /\ pc' = IF wifi_ready \/ ~config_dirty THEN "sync" ELSE "connect"
  /\ UNCHANGED <<window, console, link, network_started, service_interval,
                 clock>>

(***************************************************************************)
(* Entry of runtime_service_network and runtime_reconnect_network up to     *)
(* the call of wifi_connect: the two flags are read once, a dirty           *)
(* configuration clears both, and the value read decides.                   *)
(***************************************************************************)
BeginService ==
  /\ pc = "service"
  /\ \E d \in 0 .. StepMs : Pass(d, {})
  /\ ServiceDue(now')
  /\ last_service' = now'
  /\ IF config_dirty
     THEN config_dirty' = FALSE /\ wifi_ready' = FALSE
     ELSE UNCHANGED network
  /\ pc' = IF wifi_ready THEN "sync" ELSE "connect"
  /\ UNCHANGED <<window, console, link, network_started, service_interval,
                 clock>>

(* wifi_connect returns, and runtime_set_network_flags records the result. *)
WifiConnect(ok) ==
  /\ pc = "connect"
  /\ \E d \in 0 .. ConnectMs : Pass(d, {})
  /\ config_dirty' = FALSE /\ wifi_ready' = ok /\ link' = ok
  /\ UNCHANGED <<window, console, network_started, last_service, clock>>

ConnectOk ==
  /\ WifiConnect(TRUE)
  /\ pc' = "sync" /\ UNCHANGED service_interval

ConnectFail ==
  /\ WifiConnect(FALSE)
  /\ pc' = "sleep" /\ service_interval' = RetryMs

(* runtime_sync_time_if_due up to the call of ntp_sync. *)
DecideSync ==
  /\ pc = "sync"
  /\ Pass(0, {})
  /\ window_active' = WindowOpen(now)
  /\ IF ~window_active' /\ SyncDue(clock, now)
     THEN pc' = "ntp" /\ UNCHANGED service_interval
     ELSE pc' = "sleep" /\ service_interval' = ServiceMs
  /\ UNCHANGED <<deadline, console, network, link, network_started,
                 last_service, clock>>

(* ntp_sync returns; its result does not reach runtime_service_network. *)
NtpReturns(fresh) ==
  /\ pc = "ntp" /\ pc' = "sleep"
  /\ \E d \in 0 .. NtpMs : Pass(d, fresh)
  /\ service_interval' = ServiceMs
  /\ UNCHANGED <<window, console, network, link, network_started,
                 last_service>>

NtpOk ==
  /\ link
  /\ NtpReturns({"sync"})
  /\ clock' = Synced(clock, now')

NtpFail == NtpReturns({}) /\ UNCHANGED clock

Sleep ==
  /\ pc = "sleep" /\ pc' = "serial"
  /\ Pass(IF network_started THEN RefreshMs ELSE PollMs, {})
  /\ UNCHANGED <<window, console, network, link, service, clock>>
-----------------------------------------------------------------------------
(***************************************************************************)
(* The environment.  The driver does not associate again by itself, and no  *)
(* code in src/ asks it whether the association still stands.               *)
(***************************************************************************)
LinkLost ==
  /\ "link" \in Faults
  /\ link /\ link' = FALSE
  /\ UNCHANGED <<pc, now, window, console, network, service, clock, age>>

PowerCycle ==
  /\ "power" \in Faults
  /\ pc' = "start" /\ now' = 0 /\ age' = [m \in Marks |-> 0]
  /\ window_active' = TRUE /\ deadline' = Later(0, StartupDelay)
  /\ serial_length' = 0 /\ config' = DefaultConfig /\ flash' = flash
  /\ config_dirty' = FALSE /\ wifi_ready' = FALSE /\ link' = FALSE
  /\ network_started' = FALSE /\ last_service' = 0
  /\ service_interval' = ServiceMs
  /\ clock' = ClockInit

Loop ==
  \/ Start \/ PollNothing \/ ReceiveText \/ ReceiveBlankLine \/ ReceiveLine
  \/ StartNetwork \/ Render
  \/ SkipService \/ BeginService \/ ConnectOk \/ ConnectFail
  \/ DecideSync \/ NtpOk \/ NtpFail \/ Sleep

Next == Loop \/ LinkLost \/ PowerCycle

Spec == Init /\ [][Next]_vars

(***************************************************************************)
(* The loop never stops: its process is the only one on its core.  The      *)
(* environment is only asked not to refuse for ever: a Wi-Fi or NTP request *)
(* made again and again is answered in the end.                             *)
(***************************************************************************)
Fairness == WF_vars(Loop) /\ SF_vars(ConnectOk) /\ SF_vars(NtpOk)

FairSpec == Spec /\ Fairness
-----------------------------------------------------------------------------
(***************************************************************************)
(* Properties.                                                              *)
(***************************************************************************)

(* No Wi-Fi and no NTP before the configuration window has closed, and the  *)
(* window never opens again (runtime_run, runtime_sync_time_if_due).        *)
NetworkWaitsForWindow ==
  network_started \/ wifi_ready \/ pc \in {"connect", "sync", "ntp"}
    => network_started /\ ~window_active

(* The configuration does not change under a running network: wifi_connect  *)
(* and ntp_sync work on copies of it for up to a minute, and the flags are  *)
(* written blindly when they return (runtime_set_network_flags).            *)
ConfigFrozen ==
  [][network_started /\ network_started' => UNCHANGED config]_vars

(* The window closes no sooner than StartupDelay of true time after boot    *)
(* and after the last character, whatever the millisecond counter does.     *)
WindowHonoured ==
  [][window_active /\ ~window_active' => age'["input"] >= StartupDelay]_vars

(* ... and no later than one round of the waiting loop after that: the     *)
(* counter may wrap, but the loop cannot poll past the deadline.            *)
WindowClosesInTime ==
  window_active => age["input"] < StartupDelay + StepMs + PollMs

(* While less than a full turn of the counter has passed since the last     *)
(* synchronisation, the clock has advanced by exactly the true time.        *)
ClockAccurate ==
  clock.has_time /\ age["sync"] < Modulus
    => ElapsedSeconds(clock, now) = age["sync"] \div SecondMs

(* Under the same bound a synchronisation that is overdue in true time is   *)
(* attempted by the very call that finds it overdue, and none is early.     *)
SyncOnTime ==
  [][pc = "sync" /\ pc' \in {"ntp", "sleep"} /\ clock.has_time /\ age["sync"] < Modulus
     => (pc' = "ntp" <=> age["sync"] >= clock.sync_interval_ms)]_vars

(* If typing stops, and no association is lost for good, the clock gets the *)
(* time, however often Wi-Fi and NTP fail and power is cut on the way.  (So *)
(* the window closes: before, there is no network and no association.)      *)
TimeAcquired ==
  <>[](age["input"] # 0 /\ (wifi_ready => link)) => <>(clock.has_time)

(* A lost association is established again. *)
LinkRecovers == network_started /\ wifi_ready /\ ~link ~> link

(* The clock advances by the true time, for any time since the last sync.   *)
ClockAlwaysAccurate ==
  clock.has_time /\ age["sync"] < AgeCap
    => ElapsedSeconds(clock, now) = age["sync"] \div SecondMs

(* The picture is never older than one refresh period and the steps of one  *)
(* iteration, also while the network is being worked on.                    *)
DisplayResponsive ==
  age["render"] <= RefreshMs + 2 * StepMs
=============================================================================
