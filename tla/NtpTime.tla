------------------------------- MODULE NtpTime -------------------------------
(***************************************************************************)
(* What the NTP client makes of the numbers it gets: the sample of          *)
(* ntp_query_server, the choice between samples and the setting of the      *)
(* clock in ntp_sync (src/network.c), and the time that is displayed until  *)
(* the next synchronisation.                                                *)
(*                                                                          *)
(* t is the true time in milliseconds, which the servers know; `now' is the *)
(* device's wrapping counter, which runs at the same rate.  The client      *)
(* reads its own clock in whole seconds once it has the time, and in        *)
(* milliseconds of the counter before.  drift_ms is left out: it is only    *)
(* ever read to compute its own next value.                                 *)
(***************************************************************************)
EXTENDS Clock

CONSTANTS
  Servers,      \* how many servers are configured
  DelayMs,      \* most time a datagram is under way and waits to be seen
  ServerMs,     \* most time a server takes to answer
  TimeoutMs,    \* NTP_TIMEOUT_MS
  EpochOffset,  \* 2208988800: seconds from the NTP epoch to the Unix epoch
  Era,          \* NTP seconds are counted modulo this: 2^32
  Readings,     \* readings of the counter at true time 0
  Horizon       \* bound of true time

ASSUME NtpTimeAssumption ==
  /\ {DelayMs, ServerMs, TimeoutMs, EpochOffset, Horizon} \subseteq Nat
  /\ {Servers, Era} \subseteq Nat \ {0}
  /\ EpochOffset < Era
  /\ Readings \subseteq Ms
  /\ Horizon < Modulus

VARIABLES
  pc,        \* "idle", "next", or where a request is: "sent", "served", "answered"
  t,
  now,
  clock,     \* has_time, boot_ms, boot_epoch_seconds
  left,      \* servers still to be asked
  exchange,  \* send_ms, and the server's times of arrival and departure
  best,      \* best_sample
  refused    \* an answer was taken for one from before the Unix epoch

vars == <<pc, t, now, clock, left, exchange, best, refused>>

Times == 0 .. Horizon

(* Integer division of C: towards zero. *)
Quotient(a, b) == IF a >= 0 THEN a \div b ELSE -((-a) \div b)

Abs(a) == IF a >= 0 THEN a ELSE -a

(* Bounds of a sample's latency: at most half of what the round trip can be *)
(* taken for.  It is negative where the round trip is taken for less than   *)
(* the server's time, or where the counter wraps during the first query.    *)
Latencies ==
  -(Modulus + ServerMs) \div 2 .. (2 * DelayMs + SecondMs) \div 2

Samples == [valid : BOOLEAN, latency_ms : Latencies, server_epoch_ms : Times,
            receive_ms : Ms]

NoSample == [valid |-> FALSE, latency_ms |-> 0, server_epoch_ms |-> 0,
             receive_ms |-> 0]

TypeOK ==
  /\ pc \in {"idle", "next", "sent", "served", "answered"}
  /\ t \in Times /\ now \in Ms
  /\ clock \in [has_time : BOOLEAN, boot_ms : Ms, boot_epoch_seconds : Nat]
  /\ left \in 0 .. Servers
  /\ exchange \in [send_ms : Ms, rx : Times, tx : Times]
  /\ best \in Samples /\ refused \in BOOLEAN

Init ==
  /\ pc = "idle" /\ t = 0 /\ now \in Readings
  /\ clock = [has_time |-> FALSE, boot_ms |-> 0, boot_epoch_seconds |-> 0]
  /\ left = 0 /\ exchange = [send_ms |-> 0, rx |-> 0, tx |-> 0]
  /\ best = NoSample /\ refused = FALSE
-----------------------------------------------------------------------------
Pass(d) == t + d <= Horizon /\ t' = t + d /\ now' = Later(now, d)

(* clock_current_epoch_seconds. *)
EpochSeconds(c, reading) ==
  c.boot_epoch_seconds + Since(reading, c.boot_ms) \div SecondMs

(* ntp_client_epoch_ms. *)
ClientEpoch(reading) ==
  IF clock.has_time THEN EpochSeconds(clock, reading) * SecondMs ELSE reading

(* A server's time as the seconds of an NTP timestamp. *)
NtpSeconds(ms) == (ms \div SecondMs + EpochOffset) % Era

BeforeUnixEpoch(ms) == NtpSeconds(ms) < EpochOffset

(* Variant: the round trip is taken for the latency. *)
Sample_RoundTrip(x, reading) ==
  [valid           |-> TRUE,
   latency_ms      |-> ClientEpoch(reading) - ClientEpoch(x.send_ms)
                         - (x.tx - x.rx),
   server_epoch_ms |-> x.tx,
   receive_ms      |-> reading]

(* The end of ntp_query_server.  Before the first synchronisation the       *)
(* counter itself is the client's clock, and the difference is taken in 64  *)
(* bits: it is negative if the counter has wrapped in between.              *)
Sample(x, reading) ==
  LET round_trip == ClientEpoch(reading) - ClientEpoch(x.send_ms)
  IN [valid           |-> TRUE,
      latency_ms      |-> Quotient(round_trip - (x.tx - x.rx), 2),
      server_epoch_ms |-> x.tx,
      receive_ms      |-> reading]

Better(sample) == ~best.valid \/ Abs(sample.latency_ms) < Abs(best.latency_ms)

(* Variant: the time since the best sample was received is forgotten. *)
Set_ForgetsWaiting(sample, reading) ==
  [has_time |-> TRUE, boot_ms |-> reading,
   boot_epoch_seconds |->
     (sample.server_epoch_ms
       + (IF sample.latency_ms > 0 THEN sample.latency_ms ELSE 0)) \div SecondMs]

(* ntp_sync sets the clock. *)
Set(sample, reading) ==
  [has_time |-> TRUE, boot_ms |-> reading,
   boot_epoch_seconds |->
     (sample.server_epoch_ms + Since(reading, sample.receive_ms)
       + (IF sample.latency_ms > 0 THEN sample.latency_ms ELSE 0)) \div SecondMs]
-----------------------------------------------------------------------------
(* Time passes between synchronisations. *)
Idle ==
  /\ pc = "idle" /\ Pass(1)
  /\ UNCHANGED <<pc, clock, left, exchange, best, refused>>

Begin ==
  /\ pc = "idle" /\ pc' = "next"
  /\ left' = Servers /\ best' = NoSample
  /\ UNCHANGED <<t, now, clock, exchange, refused>>

Send ==
  /\ pc = "next" /\ left > 0 /\ pc' = "sent" /\ left' = left - 1
  /\ exchange' = [send_ms |-> now, rx |-> 0, tx |-> 0]
  /\ UNCHANGED <<t, now, clock, best, refused>>

Arrive ==
  /\ pc = "sent" /\ pc' = "served"
  /\ \E d \in 0 .. DelayMs : Pass(d)
  /\ exchange' = [exchange EXCEPT !.rx = t']
  /\ UNCHANGED <<clock, left, best, refused>>

Answer ==
  /\ pc = "served" /\ pc' = "answered"
  /\ \E d \in 0 .. ServerMs : Pass(d)
  /\ exchange' = [exchange EXCEPT !.tx = t']
  /\ UNCHANGED <<clock, left, best, refused>>

(* The answer is seen; a timestamp from before the Unix epoch is refused.   *)
Receive ==
  /\ pc = "answered" /\ pc' = "next"
  /\ \E d \in 0 .. DelayMs : Pass(d)
  /\ IF BeforeUnixEpoch(exchange.rx) \/ BeforeUnixEpoch(exchange.tx)
     THEN refused' = TRUE /\ UNCHANGED best
     ELSE LET sample == Sample(exchange, now')
          IN /\ best' = IF Better(sample) THEN sample ELSE best
             /\ UNCHANGED refused
  /\ UNCHANGED <<clock, left, exchange>>

(* The query fails, at once or on an answer that is rejected, or no answer  *)
(* comes at all.                                                            *)
NoAnswer ==
  /\ pc = "sent" /\ pc' = "next"
  /\ \E d \in 0 .. TimeoutMs : Pass(d)
  /\ UNCHANGED <<clock, left, exchange, best, refused>>

Finish ==
  /\ pc = "next" /\ left = 0 /\ pc' = "idle"
  /\ clock' = IF best.valid THEN Set(best, now) ELSE clock
  /\ best' = NoSample
  /\ exchange' = [send_ms |-> 0, rx |-> 0, tx |-> 0]
  /\ UNCHANGED <<t, now, left, refused>>

Next ==
  \/ Idle \/ Begin \/ Send \/ Arrive \/ Answer \/ Receive \/ NoAnswer \/ Finish

Spec == Init /\ [][Next]_vars
-----------------------------------------------------------------------------
(* The displayed time, with the counter wrapping and servers asked in turn, *)
(* is ahead of the true time by no more than half the longest delay and     *)
(* half a second, because the client reads its own clock in whole seconds.  *)
(* It is behind by no more than that, or one delay if the latency is not    *)
(* known, and the two fractions of a second that are cut off.               *)
Ahead == (DelayMs + SecondMs) \div 2

Behind == 2 * (SecondMs - 1) + (IF DelayMs > Ahead THEN DelayMs ELSE Ahead)

TimeIsClose ==
  clock.has_time =>
    LET displayed == EpochSeconds(clock, now) * SecondMs
    IN displayed <= t + Ahead /\ t <= displayed + Behind

(* "returned a timestamp before the Unix epoch" (network.c): an answer is   *)
(* refused with that message only if the server's time is before 1970.      *)
RefusedOnlyBefore1970 == ~refused
=============================================================================
