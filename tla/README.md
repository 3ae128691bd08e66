# TLA+ verification of pico-clock

pico-clock is the firmware of a wall clock: a Raspberry Pi Pico W joins an open
Wi-Fi network (through its captive portal where there is one), asks NTP servers
for the time, and draws the time on a DVI or SPI display. It is about 2,300
lines of C in `src/src/`. This directory holds TLA+ specifications of that
code, the TLC configurations that check them on small instances, and theorems
about them checked by TLAPS for every value of the constants.

The repository also carries generated documentation pages whose search scripts
(`site/assets/javascripts/lunr/`) are JavaScript. They are third-party code that
never runs on the clock and are not modelled (section 6): everything modelled
here is the C code of the firmware.

Paths below are relative to the repository (`src/runtime.c` is the C file, in
`PROJECT.json` it is `src/src/runtime.c`).

## 1. Inventory

| component | code | state | operations |
|---|---|---|---|
| Main loop and start-up window | `src/runtime.c`, `src/main.c` | start-up deadline, window flag, serial buffer, `config_dirty`, `wifi_ready`, `network_started`, last service time and interval | one iteration of `runtime_run`: console, window, render, present, network service, sleep |
| Timekeeping | `src/clock.c` | `clock_state_t`: origin of elapsed time, last sync, sync interval, drift | elapsed seconds, deadlines, sync back-off, calendar conversion, date window, formats |
| DVI frame hand-over | `src/display_output.c` | `pending_frame`, two framebuffers, libdvi's TMDS queues | `display_output_present` on core 0, `display_video_worker` on core 1 |
| SPI display output | `src/display_output_spi.c` | none between calls | blocking register writes |
| Framebuffer drawing | `src/display.c` | the pixels of a framebuffer | clear, text, progress, screens |
| NTP client | `src/network.c` 69-78, 203-482, 582-636 | `ntp_request_state_t` on the caller's stack, a UDP control block, the sample | query one server, sample arithmetic, fall back over servers |
| Wi-Fi association and scan | `src/network.c` 80-114, 484-580 | `wifi_scan_state_t` on the caller's stack | set up the driver, join the configured network or scan for open ones, probe each, take the driver down |
| Captive portal probe | `src/cpr_compat.c`, `src/network.c` 116-164 | DNS state per endpoint (static), TCP state per request (stack) | resolve, connect, send, receive, time out; four endpoints in turn |
| Persistent configuration | `src/config.c` | the file `config.bin` in flash, whether it is mounted | mount or format, load, migrate, save |
| Serial command parser | `src/config.c` | `device_config_t` | set Wi-Fi, time zone, colour, date mode, servers, host name; reset |
| lwIP and SDK configuration | `src/lwipopts.h`, `src/arch` | none | build options |
| Documentation site, scripts | `site/`, `docs/`, `scripts/` | none | not part of the firmware |

### How they interact

- `main` calls `runtime_run`, which never returns. Core 0 runs this one loop;
  every other part of core 0 is called from it and blocks it.
- Core 1 runs `display_video_worker`, started by `display_output_start`. The
  cores share the two framebuffers and the word `pending_frame`, with no lock
  but two `__dmb()`.
- lwIP runs in the background (`pico_cyw43_arch_lwip_threadsafe_background`):
  its call-backs (DNS answers, TCP and UDP events, scan results) interrupt
  core 0 between any two instructions outside
  `cyw43_arch_lwip_begin/end`. Their arguments are structures of the function
  that polls for the outcome.
- The interrupt of libdvi's DMA returns TMDS buffers to the worker.
- Flash is read once at boot and written by each accepted console command.

### What is hard, and what makes each component correct

| component | hard behaviour | correct when |
|---|---|---|
| Main loop | every comparison of time is on a counter that wraps; three calls may close the window; flags are read, cleared and written blindly across a call that blocks for up to a minute | the network waits for the window; the window closes on time and no earlier; no configuration change is lost; after any failures the clock gets the time |
| Timekeeping | wrap of the counter between syncs, back-off at its limit, negative local times, leap years | elapsed time is true time; a due sync is found due |
| Frame hand-over | two cores, weakly ordered stores, blocking queues | a frame sent is one picture, in order, none lost; neither core waits for ever |
| NTP client | six error paths after the control block exists, late answers, retries over servers, latency quantised to seconds | the control block is always released; no call-back after return; a result comes from one complete exchange |
| Wi-Fi | scan call-back on a stack frame, time-outs, seven failing paths | no call-back after return; the driver is down after every failure; no network heard is missed; success means joined and probed |
| Captive portal probe | DNS answers later than the time-out, TCP call-backs between polls, closing under the lock | no call-back on a dead frame; an outstanding query is not forgotten; success only from a complete response |
| Configuration | power cut during a save, failing file system calls, a flash found corrupt, old file versions, texts at their limit | a restart finds the settings before or after a save, unless the flash had to be formatted; what was reported as saved is found; loading gives a usable configuration |
| Clock face | leap years, local times before 1970, the hours around midnight, two frame sizes | the face agrees with the calendar; the date is in sight when it changes; nothing is cut at the edge |

Every place where such a behaviour bites is listed in `PROJECT.json` under
`hazards`, with the properties that would catch it going wrong.

## 2. Modules

| module | what it is |
|---|---|
| `Clock` | operators on the wrapping millisecond counter and on `clock_state_t` |
| `Runtime` | the main loop, EXTENDS `Clock` |
| `FrameStream` | what the video output promises: an abstract specification |
| `DisplayHandoff` | the two cores; implements `FrameStream` |
| `Probe` | what `captive_portal_check` promises: an abstract specification |
| `CaptiveProbe` | the captive portal probe and lwIP's call-backs; implements `Probe` |
| `WifiConnect` | `wifi_connect` and the driver; built on `Probe` |
| `Settings` | what the configuration promises: an abstract specification |
| `ConfigStore` | formats, commands and saving; implements `Settings` |
| `NtpQuery` | the NTP client as a conversation: servers, resources, datagrams |
| `NtpTime` | the NTP client as arithmetic: samples, the clock, the displayed time; EXTENDS `Clock` |
| `Calendar` | the operators of `src/clock.c` on days and dates, and a reference without loops |
| `ClockFace` | what is drawn and when; EXTENDS `Calendar` |
| `MC...` | values for the constants of the module named, for TLC |
| `...Proofs` | theorems about the module named (`RuntimeProofs` also about `Clock`, `ClockFaceProofs` also about `Calendar`) |

The modules are composed through the abstract specifications. The probe's state
in `WifiConnect` moves by the actions of `Probe` only (`Check == INSTANCE
Probe`), and `CaptiveProbe` is shown to implement the same module with its
fairness, so that `WifiConnect` may rely on a check returning. `ConfigStore` is
shown to implement `Settings` step by step. `Runtime` sees the functions it
calls by their outcomes: `config_load` and `config_save` by what `Settings`
allows them to leave in use and in flash, `wifi_connect` by `ready` of
`WifiConnect`, `ntp_sync` by `result` of `NtpQuery`. `NtpTime` says what `Synced`
leaves in the clock, and `ClockFace` what is made of it.

### `Clock` and `Runtime`

A reading of `clock_now_ms` is a number below `Modulus` (2^32 on the device),
and `Later`, `Since`, `DeadlineReached`, `NextSyncInterval` and `SyncDue` are
the unsigned arithmetic of `src/clock.c` and `runtime_should_sync_time`.

`Runtime` has one process. `pc` is the position in the loop; each action is the
code between two points at which time passes, so it starts by letting `d`
milliseconds go by (`Pass`) and then reads the clock:

| action | code |
|---|---|
| `Start` | `config_load` and the prologue of `runtime_run` |
| `PollNothing`, `ReceiveText`, `ReceiveBlankLine`, `ReceiveLine` | `runtime_handle_serial_input`, by the character read; `ReceiveLine` includes `config_handle_command`, `config_save` and the flags |
| `StartNetwork` | the block of `runtime_run` that starts the network |
| `Render` | `runtime_render_view`, present, swap |
| `SkipService`, `BeginService` | the interval test; reading and clearing the flags |
| `ConnectOk`, `ConnectFail` | return of `wifi_connect`, `runtime_set_network_flags` |
| `DecideSync` | `runtime_sync_time_if_due` up to `ntp_sync` |
| `NtpOk`, `NtpFail` | return of `ntp_sync` |
| `Sleep` | the sleep at the end of the iteration |
| `LinkLost`, `PowerCycle` | environment: association lost, power cut |

`wifi_connect`, `ntp_sync`, `config_load` and `config_save` appear through
their outcomes; each outcome is possible at each call. A load finds what is in
flash or nothing, and may leave the flash formatted; a save stores the new
configuration, or nothing, or fails after having formatted the flash
(`ConfigStore` says when). A command that was
understood is saved in the same step, because `runtime_apply_serial_command`
holds the configuration lock over both. `link` is whether the
radio is associated; the program never reads it, because no code in `src/` asks
the driver, and the model lets the driver do nothing by itself about a lost
association.

`age` is history. It counts true milliseconds, without wrap-around, since the
last input, sync or rendering, and is what the properties compare the wrapped
counter with. `Marks` selects which of the three ages a run records, since an
age that no property of the run mentions only multiplies states. No action
reads `age`.

### `DisplayHandoff` and `FrameStream`

Core 0 draws a picture row by row, `Fence`s, stores `pending_frame`, spins and
swaps. Its stores go through a write buffer (`stores`, `publishing`) that
drains in any order; `__dmb()` is a step that is enabled only when the buffer
is empty. Core 1 follows `display_video_worker`: test `pending_frame`, load it
again, clear it, and for each row take a TMDS buffer, encode, hand it on. The
two queues are their lengths. A row's pixels are the number of the picture it
was drawn for, counted modulo `Pictures`: three numbers distinguish the picture
being sent, the one waiting and an outdated one.

`FrameStream` has a picture, a next row, and at most one picture waiting.
`Present` puts the following picture there, `TakeUp` replaces the picture
between two frames only, `SendRow` sends one row. `DisplayHandoff` maps to it
by reading the picture off the pixels: a torn frame, or a frame that reaches
core 1 before its pixels, has no image in `FrameStream`.

### `CaptiveProbe`

The caller is `captive_portal_check` with `cpr_get` inlined: `pc` goes from
`enter` (is a query still pending?) over `query` (`dns_gethostbyname`),
`resolve` (poll), `open`, `transfer` (poll), `close` to `evaluate`, for one
endpoint after the other. lwIP acts between any two steps outside the lock:
`DnsResult`, `Connected`, `Receive`, `Finish` (end of the answer), `Fail`
(`probe_http_error`) and `Free`. `dns` is `dns_states`; `http` is the local
`probe_http_t`, and `Return` is where it ceases to exist. `queries`, `tcp` and
`attached` are lwIP's side of the same facts: which names it is resolving, which
control blocks it has, and which of them have call-backs set. The properties say
that the two sides agree. Page contents are abstracted to the number of parts
received and the number of parts after which the text is the expected one.
lwIP passes `ERR_OK` to the connected and receive call-backs; the branches for
other values are not taken.

### `NtpQuery` and `NtpTime`

`NtpQuery` follows `ntp_sync` over the list of `collect_server_names` and
`ntp_query_server` line by line. `Collect` is one turn of the `strtok` loop that
makes the list: it sees one token and what has been taken so far, and `Taken` is
what there is after each turn. Each call that can fail is an action with a
failing disjunct, and `Abandon` is the release the code does there. `Receive` is
`ntp_udp_recv`, possible at any time while the block is bound and the request is
out, any number of times. `answered` is history.

`NtpTime` has the true time `t` beside the wrapping counter. A request goes out
(`Send`), arrives, is answered and seen, each after any delay up to its bound;
`Sample`, `Better` and `Set` are the arithmetic of `ntp_query_server` and
`ntp_sync`, including that the client's own time has a resolution of one second.
A query that brings no sample (`NoAnswer`) takes any time up to the time-out: it
may have failed at once, been answered by something that is rejected, or not at
all.

### `WifiConnect`

`pc` follows `wifi_connect`: `init` (set-up and host name), then either `join`
and `probe` for the configured network, or `scan`, `wait`, `judge`, and for each
network of the list `next` and `probe_next`. `GiveUp` is a failing return with
`cyw43_arch_deinit`, `Succeed` one that leaves the driver up. The driver acts at
any time: `ScanResult` and `ScanComplete` are the two uses of
`wifi_scan_result_cb`, and `scanning` is whether it holds the address of
`wifi_scan_state_t`. As the code does, the model takes the end of a scan to be a
call-back without a result. `LeaveAlone` is `runtime_reconnect_network` when the
last call succeeded. `hostname` is what `netif->hostname` refers to: `SendDhcp`
reads it at any later time, when the copy of the configuration it points into
may be gone.

### `ConfigStore` and `Settings`

A text is its length: of all texts with one beginning, `copy_string` keeps what
fits, so a length says which text is left. `Prepare` is
`config_prepare_filesystem`: nothing if the flash is mounted already; otherwise
`lfs_mount` succeeds or fails, and where it finds the flash corrupt or without a
root the code formats it, after which there is no file (`NoFile`), whether or not
the second attempt succeeds. It is part of `Load`, which is `config_load` with its failures, and of
`Mount`, the first step of `config_save`: the first save after a boot that could
not mount the flash may format it. The commands are those of
`config_handle_command`, and `Open`, `Write`, `Sync`, `Close` are the other calls
of `config_save`; a call may fail and power may be cut between any two of them.
littlefs is external: a file changes in one step, when it is synchronised, and a
call that fails has changed nothing.

`Settings` has three variables: the settings in use, the ones a restart finds,
and whether the storage has been found in order since power-on. Only before that
(`Examine`, in `Load` and `Mend`) may anything stored be lost, and only
altogether; from then on it changes by `Save`, as a whole. The refinement maps the
settings to `Observed`, what the firmware reads of a record, so that two records
that differ in an unused field are the same settings, and those in use to what
of them the record can hold: `Storable` takes the last character off an SSID of
32, and changes nothing else. That this one character is lost is a violation of
its own (`SsidStored`, finding 4).

### `Calendar` and `ClockFace`

`Calendar` translates the loops of `days_to_date` as recursive functions and
the division of C as `Quotient`/`Remainder`, which round towards zero.
`DayNumber` is the reference: it counts days of the Gregorian calendar without
loops, in years that begin in March. `ClockFace` draws (`Refresh`) and
synchronises (`Sync`); `Layout` is the arithmetic of
`display_prepare_layout`, `WeekdayLetters` and `Glyphs` are the texts and the
cases of `draw_glyph`.

## 3. Runs

Each configuration asks one question. `PROJECT.json` names, for every property
of a passing run, a mutation of the code with which TLC finds it violated.

| run | module | question | result |
|---|---|---|---|
| `runtime` | `MCRuntime` | Does the window close on time, no sooner, does the network wait for it and does the configuration then stand still, with power cuts, lost associations and failing saves? Does the clock advance by true time, is a due sync attempted, and does the clock get the time once typing stops? | holds |
| `display_handoff` | `MCDisplayHandoff` | Do the cores implement `FrameStream`, safely and with its fairness? | holds |
| `probe` | `MCCaptiveProbe` | Is every call-back, query and control block accounted for, is success only an answer received to its end, does the check implement `Probe` (and so return), and does a late endpoint come back? | holds |
| `ntp_query` | `MCNtpQuery` | Does every path release what it took, is one answering server enough, does `ntp_sync` return? | holds |
| `ntp_time` | `MCNtpTime` | How far can the displayed time be from the true time? | bounds hold, and are the least: with either bound smaller by one TLC finds a violation |
| `wifi` | `MCWifiConnect` | Who has the driver and the scan call-back on each path, is every network heard tried, is success honest, does the call return, and does it succeed in the end where the world lets it? | holds |
| `config_store` | `MCConfigStore` | What does a restart find, over old formats, failing calls, formatting and power cuts? Is what was reported as saved found? | holds |
| `clock_face` | `MCClockFace` | Does the face agree with the calendar, and is the date in sight when it changes? | holds |
| `link_recovery` | `MCRuntime` | Is a lost association made again? | violated, finding 1 |
| `ntp_default` | `MCNtpQuery` | Is the IPv4 server asked by default? | violated, finding 2 |
| `hostname_lost` | `MCWifiConnect` | Do DHCP messages name the device as configured? | violated, finding 3 |
| `ssid_stored` | `MCConfigStore` | Does a restart find the SSID that was reported as saved, at the greatest length the console takes? | violated, finding 4 |

Four more configurations show the known limits at the end of section 4; TLC
finds each of them violated: `MCRuntimeWrap.cfg`, `MCRuntimeDisplay.cfg` (with
`MCRuntime`), `MCNtpEra.cfg` (`MCNtpTime`), `MCClockLetters.cfg` (`MCClockFace`).

### Bounds, and why they are enough

- `Runtime`: `Modulus` is 8 instead of 2^32. The counter then wraps every few
  iterations, so every comparison is met before, across and after the wrap, and
  a delay is close to half the range, where signed and unsigned comparison
  differ. The theorems of section 5 cover every even `Modulus`.
  `StartupDelay` 3, `PollMs` 1, `RefreshMs` 2, `RetryMs` 3, `ServiceMs` 2 keep
  the order they have on the device (poll < refresh <= service < retry, delay <
  half range). `InitialInterval`/`MaxInterval` 2 and 6 give the back-off 2, 4,
  6: a doubling, a clamping step and the limit. `StepMs`, `ConnectMs`, `NtpMs`
  bound the time a step takes; each step takes any time up to its bound.
  `AgeCap` is at least `Modulus`, so that ages saturate only where no property
  looks any more (`RuntimeAssumption`). `Configs` has two members, so that a
  change is visible and a failed save leaves something else in flash.
  `SerialSize` 3 has an empty, a partly filled and a full buffer.
- `DisplayHandoff`: `Pictures` 3 is the least that tells sent, waiting and
  outdated pictures apart; `Height` 4 allows first, inner and last rows; three
  TMDS buffers are libdvi's number.
- `CaptiveProbe`: two endpoints, one judged by its text and one by its status,
  stand for four; one may be pending while the other is asked. Two control
  blocks, so that one lingers while the next call opens another and both may be
  in use. Two polls: an answer comes before, between and after them. Capacity
  3: an empty, a partial, a complete and an overlong answer. The third kind of
  endpoint, whose whole text is compared (`"exact"`), is not in this run, which
  it would make several times longer. It differs from `"title"` in one line, the
  comparison of `BodyIndicatesSuccess`, and the theorems of section 5 are about all
  three kinds.
- `NtpQuery`: settings without a server, with one, two and one too many, with
  names and blanks; `MaxServers` 3.
- `NtpTime`: two servers, a delay longer than a second and one shorter, a
  time-out longer than either, true time long enough for three
  synchronisations, and a counter that wraps in the middle or not. `Horizon` is
  below `Modulus`: the first known limit is about what lies beyond.
- `WifiConnect`: four networks, three of them open, and room for two: a network
  without room, one that is not open, one heard twice. One poll of the scan, so
  that it ends before, at and after its time-out.
- `ConfigStore`: SSIDs of 31 and 33 characters, of which 31 and 32 are kept in
  memory and 31 in the file: the last length that fits and the first that does
  not. A password of 64 and a host name of 40 are over their limits by one and by
  more; a list of servers has the length of the built-in one, since its limit is
  the same in memory and in the file and `TextsFit` covers every length. One date
  mode beside the default. First boots with no file, one of the first format and
  one of a format that is not read any more. Power cuts, failures and formatting
  are not bounded. `ssid_stored` types an SSID of exactly 32 characters.
- `ClockFace`: all first days of months in eight years (before the epoch, leap
  years and not, the year 2000, the last of the NTP era), and the leap day of
  2024, at the moments around midnight and around the ends of the hour before
  and after it; four time zones, one of them far enough west to bring the local
  time before 1970. TLC's integers have 32 bits, which leaves out the centuries
  1900 and 2100: `days_to_date` reaches neither with a time an NTP server can
  name in the common time zones, and `DateIsTheDay` (section 5) covers every year.

### Fairness

- The loop: `WF_vars(Loop)`. It is the only process of core 0, no step of it
  waits for anything without a time-out.
- The environment of the loop: `SF_vars(ConnectOk)`, `SF_vars(NtpOk)`. A request
  made again and again is answered in the end. Without it the clock cannot get
  the time, and nothing of the code can change that; with it the property says
  that the code does keep asking. `ConnectsInTheEnd` (of `wifi`) shows that
  no failure of `wifi_connect` by itself makes a later call fail.
- `WF` of each core, of the write buffer and of the DMA in `DisplayHandoff`:
  cores do not stop, stores reach memory, video is clocked out.
- `CaptiveProbe`: `WF_vars(Get)`, and `SF` of each `DnsResult`: lwIP gives every
  query an end after a number of retries, and what the lock has held back runs
  when it is released. No server is assumed to answer.
- `NtpQuery`: `WF_vars(Sync)` only.
- `WifiConnect`: `WF_vars(Call)`, because `runtime_run` calls again and again,
  and `WF_vars(Connect)`: joining has a time-out of the driver, the probe
  returns by `Probe`, the scan loop by its own time-out. Scans need never
  complete. `GoodWorld` is a premise of one property, not of the specification.

`CHECK_DEADLOCK` is left on in all runs: no part of the system may stop.

## 4. Findings

1. **A lost association is not noticed** (`LinkRecovers`, `src/runtime.c:218`).
   `wifi_ready` is set by a successful `wifi_connect` and cleared only by a
   console command, which is not accepted any more once the network has
   started. `docs/index.md` promises to stay online and to recover from flaky
   connectivity. This assumes, as said above, that the driver does not
   associate again by itself.
2. **By default no IPv4 server is asked** (`FallsBackToIPv4`,
   `src/network.c:205`). The defaults store two addresses in `ntp_server` but
   leave `ntp_server_set` false, so the list is the IPv6 address alone.
   `docs/index.md` and `README.md` describe an IPv4 fall-back.
3. **lwIP keeps a pointer to a host name that is gone** (`HostnameAnnounced`,
   `src/network.c:492`). `netif_set_hostname` stores the pointer, which leads
   into a copy of the configuration on the stack of `runtime_reconnect_network`;
   a DHCP renewal after it has returned reads whatever is there.
4. **An SSID of 32 characters is not stored** (`SsidStored`, `src/config.c:205`).
   The console accepts 32 characters, which is what the standard allows, and
   `pico_config_t` keeps them, but the record in the file has room for 31 and a
   NUL. The save is reported as done; after a restart the clock looks for a
   network whose name lacks the last character. `docs/configuration.md` promises
   that the SSID is stored persistently.

Known limits: properties of the same modules that the code does not have, where
no line of the repository promises them in so many words, or only loosely.

- `ClockAlwaysAccurate` (`src/clock.c:43`): elapsed time is a 32-bit difference
  of milliseconds; after 49.7 days without a sync the clock falls back.
  Within 2^32 ms of a sync it is right (`ClockAccurate`, proved).
- `DisplayResponsive` (`src/runtime.c:305`): `runtime_service_network` runs in
  the rendering loop and blocks it as long as `wifi_connect` and `ntp_sync` take.
- `RefusedOnlyBefore1970` (`src/network.c:457`): NTP seconds wrap in February
  2036, and from then on every answer is refused as too old.
- `DateDrawn` (`src/display.c:86`): E, W and H have no glyph, and `draw_glyph`
  draws nothing for them, so the names of Tuesday, Wednesday and Thursday are
  shown with gaps, as "TU ", "  D" and "T U".
- A time zone of `-0:30` becomes half an hour east, since a zero has no sign
  (`TimezoneOffset`); nothing in the repository says what it should be.

## 5. Proofs

TLAPS checks these for all constants that satisfy the named assumptions
(`ModulusAssumption`, `ClockAssumption`, `RuntimeAssumption`,
`HandoffAssumption`, `ProbeAssumption` and `NullAssumption`, `NtpAssumption`,
`NtpTimeAssumption`, `WifiAssumption`, `ConfigAssumption` and `FilesAssumption`, `FaceAssumption`);
TLC evaluates the assumptions in the runs. The strengthened invariants were
checked with TLC before they were proved. Every invariant that a passing run
checks is stated by a theorem.

| module | theorem | states | argument |
|---|---|---|---|
| `RuntimeProofs` | `DeadlineSemantics` | `DeadlineReached` is exact for a deadline less than half a turn ahead that is looked at within half a turn after it | uniqueness of the remainder |
| | `IntervalBounded` | the back-off grows, and stays between its limits | the three branches |
| | `TypeCorrect` | `[]TypeOK` | inductive, one step per action |
| | `NetworkAfterWindow` | `[]NetworkWaitsForWindow` | inductive together with typing |
| | `ConfigStable` | `ConfigFrozen` | a command needs an open window, which `NetworkWaitsForWindow` excludes |
| | `WindowNotTooSoon`, `WindowNotTooLate` | `WindowHonoured`, `WindowClosesInTime` | `OpenSince` |
| | `ClockIsAccurate`, `SyncIsOnTime` | `ClockAccurate`, `SyncOnTime` | `ClockOrigin` |
| `DisplayHandoffProofs` | `HandoffTyped` | `[]TypeOK`, with the conservation of TMDS buffers | inductive, one step per action |
| | `CoresApart`, `FramesWhole` | `[]NoOverlap`, `[]NoTear` | `IInv` |
| | `HandoffImplementsStream` | `ImplementsStream` | `IInv`, one step per action |
| `CaptiveProbeProofs` | `TypeCorrect` | `[]TypeOK` | inductive |
| | `NothingIsLost`, `AddressIsFresh` | `[]Accounted`, `[]AddressFresh` | `LookupInv`, `BlockInv` |
| | `OnlineMeansComplete` | `OnlineIsComplete` | `OutcomeInv` |
| | `CheckImplementsProbe` | `Probe`'s `Spec`, the safety of `ImplementsProbe` | one step per action |
| | `WorkIsBounded` | each step of `captive_portal_check` lowers `Rank`, no call-back of lwIP raises it | `Rank`: all the steps of the endpoints left, and those left of this one |
| `NtpQueryProofs` | `ServersAsConfigured` | the loop over the tokens ends with the names of the setting in their order: the k-th server asked is the k-th name; none is left out while there is room | least counterexample over the turns of the loop |
| | `TypeCorrect` | `[]TypeOK` | inductive with `InRange` |
| | `NothingIsLeftBehind`, `SampleIsChecked` | `[]NothingLeftBehind`, `[]SampleChecked` | `Held` |
| | `AnswerIsUsed` | `AnswerUsed` | `Accounted` |
| | `WorkIsBounded` | each step of `ntp_sync` lowers `Rank`, no datagram raises it | `Rank`: whole queries for the servers left, and the steps left of this one |
| `NtpTimeProofs` | `TypeCorrect` | `[]TypeOK` | `TimeInv` |
| | `DisplayedTimeIsClose` | `[]TimeIsClose` | `TimeInv` |
| `WifiConnectProofs` | `TypeCorrect` | `[]TypeOK` | inductive with `Aimed` |
| | `DriverIsOwned` | `[]DriverOwned` | `DriverInv` |
| | `NoNetworkMissed` | `EveryNetworkTried` | `ListInv` |
| | `ConnectIsHonest` | `Honest` | `AimInv` |
| | `WorkIsBounded` | the same of `wifi_connect`, the driver and its call-back | `Rank`: polls left, and two steps for each place of the list |
| `ConfigStoreProofs` | `TextsFit`, `AlwaysUsable` | `[]TypeOK`, `[]Usable` | `StoreInv` |
| | `SavedSettingsSurvive` | `[]SavedMeansStored` | `SavedInFile` |
| | `StoreImplementsSettings` | `ImplementsSettings` | `StoreInv`, one step per action |
| `ClockFaceProofs` | `NormalizedIsFloor`, `WeekdayIsFloor` | day, second and weekday are floor division and its remainder | cases of the sign |
| | `MidnightInSight` | `ShouldShowDate` at two refreshes within an hour on different days | arithmetic |
| | `LayoutFits`, `NothingIsCut` | `[]NothingCut` | the arithmetic of the scale |
| | `DateIsTheDay` | `Date` of a day is a date, and `DayNumber` of that date is the day, for every integer | least counterexample of each loop |
| | `TypeCorrect`, `FaceIsRight` | `[]TypeOK`, `[]FaceTellsTime` | `FaceInv`, `DateIsTheDay` |
| | `DateIsInSight` | `DateTurnsInSight` | `FaceInv`, `MidnightInSight`, `DateIsTheDay` |

Why stronger invariants are needed:

- `WindowHonoured` and `WindowClosesInTime` do not say how `deadline` came
  about. `OpenSince` says that while the window is open, `deadline` is
  `StartupDelay` after, and `now` is the recorded age after, one and the same
  moment, and how far the loop can be from it at each `pc`. That is the
  hypothesis of `DeadlineSemantics`. In the same way `ClockOrigin` ties
  `boot_ms` and `last_sync_ms` to the age of the last sync. Both need the age
  concerned to be recorded (`"input" \in Marks`, `"sync" \in Marks`), which the
  theorems assume.
- `IInv` of `DisplayHandoff` adds to typing: which frame is active at each pair
  of positions (`Active`, `Handover`), that frames change only at row 0
  (`Boundary`), that stores under way belong to the back buffer and its picture
  (`Drawing`), that a published frame is complete (`Complete`), and that the
  frames are apart (`Apart`).
- `Accounted` breaks at two steps unless one knows that the entry about to be
  looked up is not pending, and that the query just sent for is the one
  exception while the lock is held (`LookupInv`). That a block is given back
  once comes from `BlockInv`: a request that is done has no block any more.
  `OutcomeInv` says why `done` was set; without it a connection cut in the
  middle could count as complete.
- `NothingLeftBehind` needs to know at which positions there is a control
  block (`Held`), and so does `SampleChecked`: only because the block is gone at
  `accept` can no later datagram be written over the checked one.
- `TypeOK` of `NtpQuery` bounds `index` by the size of the array, but the step to
  the next server compares it with the length of the list. `InRange` says
  that it is within the list, and the lemma `ServersBounded` that the list is
  neither empty nor longer than the array. `AnswerUsed` relates the result to the history
  `answered`; `Accounted` says that in between the two differ by exactly the
  answer that has been received and is not a sample yet.
- `TimeIsClose` says nothing about how the clock came to be set. `TimeInv` ties
  each reading the client holds to the true time it was taken at: `boot_ms`
  (`ClockSetAt`), `send_ms` (`SentAt`) and `receive_ms` of the best sample
  (`ReceivedAt`, with the error the sample has at that moment). The moments are
  ordered, and the counter makes at most one turn (`Horizon < Modulus`),
  wherever it starts, so that the unsigned differences are the true ones. The
  one subtraction for which this fails, the round trip before the first
  synchronisation, makes the latency negative and is covered by the bounds.
- `FaceTellsTime` needs the face to be that of the moment `shown`, and the
  clock to have had the time then (`FaceInv`).
- The loops of `days_to_date` are recursive functions. That such a function
  exists and satisfies its equation is the lemma `LoopExists` (it follows the
  loop as far as it goes); that the loop ends with the right year or month is
  shown by taking the least number of days left for which it would not, and
  doing one iteration. Both use only that a set of naturals has a least element, no
  induction theorem with an operator parameter.
- `DriverOwned` speaks of the ends of a call; `DriverInv` carries the state of
  the driver through it. `EveryNetworkTried` needs the list to have no
  network twice (`ListInv`: as many members as places), for otherwise a full list
  says nothing about how many networks were tried.
- `SavedMeansStored` needs to hold from `lfs_file_sync` on, two steps before the
  report (`SavedInFile`), and `Usable` needs the same of every record a restart
  may load (`Named`). What keeps the formatting of the flash away from what has
  been saved is that a file is only written once the flash is mounted (`Ordered`).
- `ServersAsConfigured` says of every turn of the loop that what has been taken is
  the first names of the setting, in order, as far as there is room; the first
  turn after which this were not so would be one step from a turn after which it is.

Only model-checked:

- the liveness properties `TimeAcquired`, `PresentReturns`, `StreamFlows`,
  `EndpointRecovers`, `SyncReturns`, `ConnectsInTheEnd` and the fairness half of
  `ImplementsProbe`: liveness under fairness and `ENABLED` are out of the
  prover's reach. Of `SyncReturns`, of `ImplementsProbe` and of the first half of
  `ConnectsInTheEnd` the safety part is proved all the same, as `WorkIsBounded`: the
  three calls that block the main loop cannot take more than a given number of
  steps, whatever happens beside them. What the runs add is that a step is
  always possible. (`BoundedWork` was checked with TLC in the three models first.
  It is no property of a run: there the liveness property implies it.)
- the properties expected to be violated (section 4), which are counterexamples;
- that the bounds `Ahead` and `Behind` of `TimeIsClose` are the least ones.

What the theorems do not cover: `DisplayedTimeIsClose` is about one turn of the
counter from true time 0 (the first known limit of section 4 is what happens after
it). The integers of TLA+ have no width: the year of `DateIsTheDay` is that of the
code as long as it fits an `unsigned`, that is from the year 0 on; an epoch is
unsigned and a time zone has 32 bits, so the code starts no earlier than 1901.

## 6. Not modelled, and why

- `src/display_output_spi.c`: blocking register writes from one thread.
- The shapes of glyphs and the bits of a row in `src/display.c`: output only.
- Voltage, clock and pin set-up: runs once, before there is a second core.
- Whether lwIP's allocator is protected from its own interrupt, see the hazard at
  `src/network.c:383`: `src/arch/sys_arch.h` has a protection that does nothing,
  and whether it is used is decided outside the repository.
- Flash programming while core 1 executes from flash: below the abstraction, see
  the hazard at `src/runtime.c:123`. The sizes given to littlefs (a cache of 64
  bytes, a program unit of 256, no `block_cycles`) are judged by littlefs itself.
- How a console line is split into words: `ConfigStore` starts from the values
  that come out. An SSID that contains a blank cannot be typed.
- `last_network_service` is 0 for "never" and also one reading of the counter
  after a wrap; the service then runs one interval early, which no property
  forbids.
- `drift_ms`, which nothing but its own computation reads.
- `src/lwipopts.h`, `src/arch`, `scripts/`: no behaviour of the firmware.
- `site/`: generated documentation. Its scripts (`wordcut.js`, `tinyseg.js`: word
  segmentation of Thai and Japanese for the search box of the lunr library) are
  vendored third-party code that shares nothing with the clock.

## 7. Plan

Written so far, in this order: `Clock`, `Runtime`, `FrameStream`,
`DisplayHandoff`, `CaptiveProbe`, `NtpQuery`, `NtpTime`, `Probe`, `WifiConnect`,
`Settings`, `ConfigStore`, `Calendar`, `ClockFace`, and the theorems about all of
them. What is left, most valuable first:

1. An abstract specification of a time source, implemented by `NtpQuery` and used
   by `Runtime`, so that the outcome of `ntp_sync` is tied to its conversation as
   that of the check is to `Probe`.
2. The ranks behind `PresentReturns` and `EndpointRecovers`, as was done for the
   three blocking calls (`WorkIsBounded`).
3. The console's word splitting, if commands with quoted blanks are ever added.
