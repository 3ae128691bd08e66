------------------------------- MODULE Clock -------------------------------
(***************************************************************************)
(* The timekeeping operators of src/clock.c on which the runtime loop and   *)
(* the NTP client are built.                                                *)
(*                                                                          *)
(* clock_now_ms() is a 32-bit millisecond counter.  Everything the firmware *)
(* does with time is a subtraction of two readings of that counter in       *)
(* unsigned arithmetic, so the width of the counter is a parameter          *)
(* (Modulus, 2^32 on the device) and wrap-around is part of every operator. *)
(***************************************************************************)
EXTENDS Integers

CONSTANTS
  Modulus,          \* number of values of the millisecond counter: 2^32
  SecondMs,         \* milliseconds in a second: 1000
  InitialInterval,  \* NTP_SYNC_INTERVAL_INITIAL_MS
  MaxInterval       \* NTP_SYNC_INTERVAL_MAX_MS

ASSUME ModulusAssumption ==
  /\ Modulus \in Nat \ {0}
  /\ Modulus % 2 = 0

ASSUME ClockAssumption ==
  /\ SecondMs \in Nat \ {0}
  /\ InitialInterval \in Nat \ {0}
  /\ MaxInterval \in Nat
  /\ 2 * InitialInterval <= MaxInterval
  /\ MaxInterval < Modulus

(* The readings of the counter. *)
Ms == 0 .. Modulus - 1

(* t + d in uint32_t arithmetic. *)
Later(t, d) == (t + d) % Modulus

(* Unsigned difference of two readings, as (uint32_t)(now - then). *)
Since(now, then) == (now - then) % Modulus

(* UINT32_MAX / 2 + 1 *)
HalfRange == (Modulus - 1) \div 2 + 1

(* Variant: readings compared as if the counter never wrapped. *)
DeadlineReached_Plain(now, deadline) == now >= deadline

(* A deadline lies in the half range behind `now'. *)
DeadlineReached(now, deadline) == Since(now, deadline) < HalfRange

(* The back-off of the synchronisation interval: double, then stay. *)
NextSyncInterval(current) ==
  IF current = 0 THEN InitialInterval
  ELSE IF current >= MaxInterval \div 2 THEN MaxInterval
  ELSE 2 * current

(***************************************************************************)
(* clock_state_t.  boot_epoch_seconds and drift_ms hold what the server     *)
(* said and play no part in when things happen; they are left out here.     *)
(***************************************************************************)
Clocks == [has_time : BOOLEAN, boot_ms : Ms, last_sync_ms : Ms,
           sync_interval_ms : Ms]

ClockInit == [has_time |-> FALSE, boot_ms |-> 0, last_sync_ms |-> 0,
              sync_interval_ms |-> InitialInterval]

(* Variant: the origin of the elapsed time is set by the first sync only. *)
Synced_KeepsOrigin(clock, now) ==
  [has_time         |-> TRUE,
   boot_ms          |-> IF clock.has_time THEN clock.boot_ms ELSE now,
   last_sync_ms     |-> now,
   sync_interval_ms |-> IF clock.has_time
                        THEN NextSyncInterval(clock.sync_interval_ms)
                        ELSE InitialInterval]

(* What a successful ntp_sync leaves in the clock at time `now'. *)
Synced(clock, now) ==
  [has_time         |-> TRUE,
   boot_ms          |-> now,
   last_sync_ms     |-> now,
   sync_interval_ms |-> IF clock.has_time
                        THEN NextSyncInterval(clock.sync_interval_ms)
                        ELSE InitialInterval]

(* The seconds clock_current_epoch_seconds adds to boot_epoch_seconds. *)
ElapsedSeconds(clock, now) == Since(now, clock.boot_ms) \div SecondMs

(* Variant: the interval is added to the last sync instead of subtracting. *)
SyncDue_Plain(clock, now) ==
  ~clock.has_time \/ now >= Later(clock.last_sync_ms, clock.sync_interval_ms)

(* runtime_should_sync_time. *)
SyncDue(clock, now) ==
  ~clock.has_time \/ Since(now, clock.last_sync_ms) >= clock.sync_interval_ms
=============================================================================
