--------------------------- MODULE NtpTimeProofs ---------------------------
(***************************************************************************)
(* How far the displayed time may be from the true one, for any delays, any *)
(* number of servers, any width of the counter and wherever in its range it *)
(* starts, during one turn of it after true time 0.                         *)
(*                                                                          *)
(* TimeInv ties every reading the client holds to the true time at which it *)
(* was taken: the last synchronisation, the request that is under way and   *)
(* the sample that is kept.  The order of these moments is what makes the   *)
(* unsigned differences right; that the client's clock may be read in whole *)
(* seconds, or not at all before the first synchronisation and then wrap,   *)
(* is what makes the bounds as wide as they are.                            *)
(***************************************************************************)
EXTENDS NtpTime, TLAPS

LEMMA DivMod ==
  ASSUME NEW n \in Int, NEW m \in Nat \ {0}
  PROVE  /\ n \div m \in Int /\ n % m \in Int
         /\ 0 <= n % m /\ n % m < m
         /\ n = m * (n \div m) + (n % m)
BY Z3

LEMMA ModOnce ==
  ASSUME NEW n \in Int, NEW m \in Nat \ {0}
  PROVE  /\ 0 <= n /\ n < m => n % m = n
         /\ m <= n /\ n < 2 * m => n % m = n - m
         /\ -m <= n /\ n < 0 => n % m = n + m
BY Z3

(* Multiples of m keep the order of what they are taken of. *)
LEMMA FloorGrows ==
  ASSUME NEW a \in Int, NEW b \in Int, a <= b, NEW m \in Nat \ {0}
  PROVE  m * (a \div m) <= m * (b \div m)
<1> DEFINE p == a \div m
           q == b \div m
<1>1. p \in Int /\ q \in Int /\ m * p <= a /\ b < m * q + m
  BY DivMod, Z3
<1>2. m * p < m * q + m
  <2> HIDE DEF p, q
  <2> QED BY <1>1, Z3
<1>3. p <= q
  <2> HIDE DEF p, q
  <2> QED BY <1>1, <1>2, Z3
<1> HIDE DEF p, q
<1>4. m * p <= m * q
  BY <1>1, <1>3, Z3
<1> QED BY <1>4 DEF p, q

LEMMA Halves ==
  ASSUME NEW n \in Int
  PROVE  /\ Quotient(n, 2) \in Int
         /\ n >= 0 => 2 * Quotient(n, 2) <= n /\ n <= 2 * Quotient(n, 2) + 1
         /\ n < 0 => Quotient(n, 2) <= 0 /\ n <= 2 * Quotient(n, 2)
BY DEF Quotient
-----------------------------------------------------------------------------
(***************************************************************************)
(* Readings of the counter.  Later(r, s) is the one at true time s.         *)
(***************************************************************************)
LEMMA Constants ==
  /\ Modulus \in Nat \ {0} /\ SecondMs \in Nat \ {0}
  /\ DelayMs \in Nat /\ ServerMs \in Nat /\ TimeoutMs \in Nat /\ Horizon \in Nat
  /\ Horizon < Modulus /\ Servers \in Nat \ {0} /\ Readings \subseteq Ms
BY ModulusAssumption, ClockAssumption, NtpTimeAssumption

LEMMA ReadingAt ==
  ASSUME NEW r \in Ms, NEW s \in Times
  PROVE  /\ Later(r, s) \in Ms
         /\ Later(r, s) = IF r + s < Modulus THEN r + s ELSE r + s - Modulus
<1>1. /\ r + s \in Int /\ 0 <= r + s /\ r + s < 2 * Modulus
      /\ Modulus \in Nat \ {0}
  BY Constants DEF Ms, Times
<1>2. (r + s) % Modulus = IF r + s < Modulus THEN r + s ELSE r + s - Modulus
  <2> DEFINE n == r + s
  <2> HIDE DEF n
  <2>1. CASE n < Modulus
    BY <1>1, <2>1, ModOnce DEF n
  <2>2. CASE ~ (n < Modulus)
    <3>1. Modulus <= n /\ n \in Int /\ n < 2 * Modulus
      BY <1>1, <2>2 DEF n
    <3>2. n % Modulus = n - Modulus
      BY <3>1, <1>1, ModOnce
    <3>3. n - Modulus = r + s - Modulus
      BY Constants DEF n, Ms, Times
    <3> QED BY <3>2, <3>3, <2>2, Zenon DEF n
  <2> QED BY <2>1, <2>2 DEF n
<1> QED BY <1>1, <1>2, Constants DEF Later, Ms

LEMMA ReadingPasses ==
  ASSUME NEW r \in Ms, NEW s \in Times, NEW d \in Nat, s + d \in Times
  PROVE  Later(Later(r, s), d) = Later(r, s + d)
<1> DEFINE x == Later(r, s)
<1>1. /\ x \in Ms /\ x = IF r + s < Modulus THEN r + s ELSE r + s - Modulus
      /\ Later(r, s + d)
           = IF r + (s + d) < Modulus THEN r + (s + d) ELSE r + (s + d) - Modulus
  BY ReadingAt
<1> HIDE DEF x
<1>2. d \in Times
  BY Constants DEF Times
<1>3. Later(x, d) = IF x + d < Modulus THEN x + d ELSE x + d - Modulus
  BY <1>1, <1>2, ReadingAt
<1>4. s \in Nat /\ d \in Nat /\ s + d < Modulus /\ r \in Nat /\ r < Modulus
  BY Constants DEF Ms, Times
<1> QED BY <1>1, <1>3, <1>4, Constants DEF x

(* An unsigned difference of two readings is the time between them; the     *)
(* difference of the same numbers in 64 bits may be a turn short of it.     *)
LEMMA Elapsed ==
  ASSUME NEW r \in Ms, NEW s \in Times, NEW u \in Times, s <= u
  PROVE  /\ Since(Later(r, u), Later(r, s)) = u - s
         /\ Later(r, u) - Later(r, s) \in {u - s, u - s - Modulus}
<1> DEFINE x == Later(r, s)
           y == Later(r, u)
<1>1. /\ x \in Ms /\ x = IF r + s < Modulus THEN r + s ELSE r + s - Modulus
      /\ y \in Ms /\ y = IF r + u < Modulus THEN r + u ELSE r + u - Modulus
  BY ReadingAt
<1> HIDE DEF x, y
<1>2. s \in Nat /\ u \in Nat /\ u < Modulus /\ r \in Int /\ Modulus \in Nat \ {0}
  BY Constants DEF Ms, Times
<1>3. y - x \in {u - s, u - s - Modulus}
  BY <1>1, <1>2
<1>4. (y - x) % Modulus = u - s
  <2>1. y - x \in Int /\ 0 <= u - s /\ u - s < Modulus
    BY <1>1, <1>2, <1>3
  <2>2. CASE y - x = u - s
    BY <2>1, <2>2, <1>2, ModOnce
  <2>3. CASE y - x = u - s - Modulus
    <3>1. -Modulus <= y - x /\ y - x < 0
      BY <2>1, <2>3, <1>2
    <3>2. (y - x) % Modulus = (y - x) + Modulus
      BY <3>1, <2>1, <1>2, ModOnce
    <3> QED BY <3>2, <2>1, <2>3, <1>2
  <2> QED BY <1>3, <2>2, <2>3
<1> QED BY <1>3, <1>4 DEF x, y, Since
-----------------------------------------------------------------------------
(***************************************************************************)
(* The bounds of a sample and of the time that is set from it.              *)
(***************************************************************************)
Worst == IF DelayMs > Ahead THEN DelayMs ELSE Ahead

(* The clock was set at true time s. *)
ClockSetAt(r, s) ==
  clock.has_time =>
    LET set == clock.boot_epoch_seconds * SecondMs
    IN /\ clock.boot_ms = Later(r, s)
       /\ set <= s + Ahead /\ s <= set + Worst + (SecondMs - 1)

(* What a sample says the time was when it was received. *)
Offer(sample) ==
  sample.server_epoch_ms
    + (IF sample.latency_ms > 0 THEN sample.latency_ms ELSE 0)

ReceivedAt(r, sample, v) ==
  sample.valid =>
    /\ sample.receive_ms = Later(r, v)
    /\ Offer(sample) <= v + Ahead /\ v <= Offer(sample) + Worst

LEMMA BoundsType ==
  /\ Ahead \in Nat /\ Worst \in Nat /\ Ahead <= Worst /\ DelayMs <= Worst
  /\ 2 * Ahead <= DelayMs + SecondMs /\ DelayMs + SecondMs <= 2 * Ahead + 1
  /\ Behind = 2 * (SecondMs - 1) + Worst
BY Constants DEF Ahead, Worst, Behind

(* The client's own idea of how long a query took: off by less than a       *)
(* second if it has the time, and by one turn of the counter if it has not  *)
(* and the counter wraps.                                                   *)
LEMMA RoundTrip ==
  ASSUME NEW r \in Ms, NEW s \in Times, NEW a \in Times, NEW u \in Times,
         s <= a, a <= u, clock.boot_epoch_seconds \in Int,
         clock.has_time => clock.boot_ms = Later(r, s)
  PROVE  LET trip == ClientEpoch(Later(r, u)) - ClientEpoch(Later(r, a))
         IN \/ trip = u - a - Modulus
            \/ /\ trip \in Nat
               /\ trip <= (u - a) + (SecondMs - 1) /\ (u - a) - (SecondMs - 1) <= trip
<1>0. /\ s \in Int /\ a \in Int /\ u \in Int
      /\ SecondMs \in Nat \ {0} /\ Modulus \in Nat
  BY Constants DEF Times
<1>1. CASE ~clock.has_time
  <2>1. Later(r, u) - Later(r, a) \in {u - a, u - a - Modulus}
    BY Elapsed
  <2>2. ClientEpoch(Later(r, u)) - ClientEpoch(Later(r, a))
          = Later(r, u) - Later(r, a)
    BY <1>1, Zenon DEF ClientEpoch
  <2> QED BY <2>1, <2>2, <1>0
<1>2. CASE clock.has_time
  <2> DEFINE E == clock.boot_epoch_seconds
             p == (a - s) \div SecondMs
             q == (u - s) \div SecondMs
  <2>1. Since(Later(r, u), clock.boot_ms) = u - s
    BY <1>0, <1>2, Elapsed
  <2>2. Since(Later(r, a), clock.boot_ms) = a - s
    BY <1>0, <1>2, Elapsed
  <2>3. /\ ClientEpoch(Later(r, u)) = (E + q) * SecondMs
        /\ ClientEpoch(Later(r, a)) = (E + p) * SecondMs
    BY <1>2, <2>1, <2>2, Zenon DEF ClientEpoch, EpochSeconds
  <2>4. /\ p \in Int /\ SecondMs * p <= a - s /\ a - s < SecondMs * p + SecondMs
        /\ q \in Int /\ SecondMs * q <= u - s /\ u - s < SecondMs * q + SecondMs
    <3>1. a - s \in Int /\ u - s \in Int
      BY <1>0
    <3> QED BY <3>1, <1>0, DivMod
  <2>5. SecondMs * p <= SecondMs * q
    BY <1>0, FloorGrows
  <2> HIDE DEF E, p, q
  <2>6. E \in Int
    BY DEF E
  <2>7. (E + q) * SecondMs - (E + p) * SecondMs = SecondMs * q - SecondMs * p
    BY <1>0, <2>4, <2>6, Z3
  <2>8. SecondMs * q \in Int /\ SecondMs * p \in Int
    BY <1>0, <2>4
  <2> DEFINE P == SecondMs * p
             Q == SecondMs * q
  <2>9. /\ Q - P \in Nat /\ Q - P <= (u - a) + (SecondMs - 1)
        /\ (u - a) - (SecondMs - 1) <= Q - P
    <3>1. /\ P \in Int /\ P <= a - s /\ a - s < P + SecondMs
          /\ Q \in Int /\ Q <= u - s /\ u - s < Q + SecondMs /\ P <= Q
      BY <2>4, <2>5, <2>8
    <3> HIDE DEF P, Q
    <3> QED BY <3>1, <1>0
  <2> QED BY <2>3, <2>7, <2>9
<1> QED BY <1>1, <1>2

(* A sample: asked for at a, received at u, and the server had the request  *)
(* from x.rx to x.tx.                                                       *)
LEMMA SampleIsClose ==
  ASSUME NEW r \in Ms, NEW s \in Times, NEW a \in Times, NEW u \in Times,
         s <= a, clock.boot_epoch_seconds \in Int,
         clock.has_time => clock.boot_ms = Later(r, s),
         NEW x, x.rx \in Times, x.tx \in Times, x.send_ms = Later(r, a),
         x.rx - a \in 0 .. DelayMs, x.tx - x.rx \in 0 .. ServerMs,
         u - x.tx \in 0 .. DelayMs
  PROVE  LET sample == Sample(x, Later(r, u))
         IN sample \in Samples /\ ReceivedAt(r, sample, u)
<1> DEFINE sample == Sample(x, Later(r, u))
           trip == ClientEpoch(Later(r, u)) - ClientEpoch(Later(r, a))
           served == x.tx - x.rx
           latency == Quotient(trip - served, 2)
<1>1. sample = [valid |-> TRUE, latency_ms |-> latency,
                server_epoch_ms |-> x.tx, receive_ms |-> Later(r, u)]
  BY Zenon DEF Sample
<1>2. /\ a \in Nat /\ u \in Nat /\ x.rx \in Nat /\ x.tx \in Nat /\ u < Modulus
      /\ Modulus \in Nat /\ SecondMs \in Nat \ {0} /\ DelayMs \in Nat /\ ServerMs \in Nat
  BY Constants DEF Times
<1>3. /\ a <= x.rx /\ x.rx <= x.tx /\ x.tx <= u
      /\ x.rx - a <= DelayMs /\ u - x.tx <= DelayMs
      /\ served \in Nat /\ served <= ServerMs
  BY <1>2
<1>4. a <= u
  BY <1>2, <1>3
<1>5. \/ trip = u - a - Modulus
      \/ /\ trip \in Nat
         /\ trip <= (u - a) + (SecondMs - 1) /\ (u - a) - (SecondMs - 1) <= trip
  BY <1>4, RoundTrip
<1> HIDE DEF trip
<1>6. trip \in Int
  BY <1>2, <1>5
<1>7. /\ latency \in Int
      /\ trip - served >= 0 =>
           2 * latency <= trip - served /\ trip - served <= 2 * latency + 1
      /\ trip - served < 0 => latency <= 0 /\ trip - served <= 2 * latency
  <2> DEFINE n == trip - served
  <2>1. n \in Int
    BY <1>3, <1>6
  <2> HIDE DEF n
  <2>2. /\ Quotient(n, 2) \in Int
        /\ n >= 0 => 2 * Quotient(n, 2) <= n /\ n <= 2 * Quotient(n, 2) + 1
        /\ n < 0 => Quotient(n, 2) <= 0 /\ n <= 2 * Quotient(n, 2)
    BY <2>1, Halves
  <2> QED BY <2>2 DEF n
<1> HIDE DEF latency, served
<1> DEFINE up == x.rx - a
           down == u - x.tx
<1>8. /\ up \in Nat /\ down \in Nat /\ up <= DelayMs /\ down <= DelayMs
      /\ u - a = up + served + down
  BY <1>2, <1>3 DEF served
<1> HIDE DEF up, down
<1>9. latency \in Latencies
  <2>1. /\ -(Modulus + ServerMs) <= 2 * latency
        /\ 2 * latency <= 2 * DelayMs + SecondMs
    BY <1>2, <1>3, <1>5, <1>6, <1>7, <1>8
  <2> QED BY <2>1, <1>2, <1>7 DEF Latencies
<1>10. sample \in Samples
  BY <1>1, <1>9, ReadingAt DEF Samples
<1> DEFINE offer == x.tx + (IF latency > 0 THEN latency ELSE 0)
<1>11. offer <= u + Ahead /\ u <= offer + Worst
  <2>1. u = x.tx + down
    BY <1>2 DEF down
  <2>2. /\ latency <= down + Ahead
        /\ down <= (IF latency > 0 THEN latency ELSE 0) + Worst
    BY <1>2, <1>3, <1>5, <1>6, <1>7, <1>8, BoundsType
  <2> QED BY <2>1, <2>2, <1>2, <1>7, <1>8, BoundsType
<1>12. sample.receive_ms = Later(r, u) /\ Offer(sample) = offer
  BY <1>1 DEF Offer
<1> HIDE DEF sample, offer
<1> QED BY <1>10, <1>11, <1>12, Zenon DEF ReceivedAt, sample

(* Finish at true time u, with a sample received at v. *)
LEMMA SetIsClose ==
  ASSUME NEW r \in Ms, NEW v \in Times, NEW u \in Times, v <= u,
         NEW sample \in Samples, sample.valid, ReceivedAt(r, sample, v)
  PROVE  LET c   == Set(sample, Later(r, u))
             set == c.boot_epoch_seconds * SecondMs
         IN /\ c \in [has_time : BOOLEAN, boot_ms : Ms, boot_epoch_seconds : Nat]
            /\ c.has_time /\ c.boot_ms = Later(r, u)
            /\ set <= u + Ahead /\ u <= set + Worst + (SecondMs - 1)
<1> DEFINE latency == IF sample.latency_ms > 0 THEN sample.latency_ms ELSE 0
           ms == sample.server_epoch_ms + (u - v) + latency
           q == ms \div SecondMs
           c == Set(sample, Later(r, u))
<1>1. Since(Later(r, u), sample.receive_ms) = u - v
  BY Elapsed DEF ReceivedAt
<1>2. c = [has_time |-> TRUE, boot_ms |-> Later(r, u), boot_epoch_seconds |-> q]
  BY <1>1, Zenon DEF Set
<1>3. /\ u \in Nat /\ v \in Nat /\ SecondMs \in Nat \ {0}
      /\ sample.server_epoch_ms \in Nat /\ sample.latency_ms \in Int
  BY Constants DEF Times, Samples, Latencies
<1>4. Offer(sample) <= v + Ahead /\ v <= Offer(sample) + Worst
  BY DEF ReceivedAt
<1>5. Offer(sample) = sample.server_epoch_ms + latency /\ latency \in Nat
  BY <1>3 DEF Offer
<1> HIDE DEF latency
<1>6. ms \in Nat /\ ms <= u + Ahead /\ u <= ms + Worst
  BY <1>3, <1>4, <1>5, BoundsType
<1> HIDE DEF ms
<1>7. q \in Nat /\ SecondMs * q <= ms /\ ms <= SecondMs * q + (SecondMs - 1)
  <2>1. q \in Int /\ SecondMs * q <= ms /\ ms <= SecondMs * q + (SecondMs - 1)
    BY <1>3, <1>6, DivMod
  <2> HIDE DEF q
  <2>2. q >= 0
    BY <2>1, <1>3, <1>6, Z3
  <2> QED BY <2>1, <2>2
<1> HIDE DEF q
<1>8. q * SecondMs = SecondMs * q /\ q * SecondMs \in Int
  BY <1>3, <1>7
<1>9. q * SecondMs <= u + Ahead /\ u <= q * SecondMs + Worst + (SecondMs - 1)
  <2> DEFINE set == q * SecondMs
  <2>1. set \in Int /\ set <= ms /\ ms <= set + (SecondMs - 1)
    BY <1>7, <1>8
  <2> HIDE DEF set
  <2>2. set <= u + Ahead /\ u <= set + Worst + (SecondMs - 1)
    BY <2>1, <1>3, <1>6, BoundsType
  <2> QED BY <2>2 DEF set
<1>10. Later(r, u) \in Ms
  BY ReadingAt
<1>11. c.has_time /\ c.boot_ms = Later(r, u) /\ c.boot_epoch_seconds = q
  BY <1>2
<1>12. c \in [has_time : BOOLEAN, boot_ms : Ms, boot_epoch_seconds : Nat]
  BY <1>2, <1>7, <1>10
<1> HIDE DEF c
<1> QED BY <1>9, <1>11, <1>12 DEF c

(* What is displayed at true time u, with a clock that was set at s. *)
LEMMA DisplayIsClose ==
  ASSUME NEW r \in Ms, NEW s \in Times, NEW u \in Times, s <= u,
         clock.has_time, clock.boot_epoch_seconds \in Nat, ClockSetAt(r, s)
  PROVE  LET displayed == EpochSeconds(clock, Later(r, u)) * SecondMs
         IN displayed <= u + Ahead /\ u <= displayed + Behind
<1> DEFINE E == clock.boot_epoch_seconds
           q == (u - s) \div SecondMs
<1>1. Since(Later(r, u), clock.boot_ms) = u - s
  BY Elapsed DEF ClockSetAt
<1>2. EpochSeconds(clock, Later(r, u)) = E + q
  BY <1>1, Zenon DEF EpochSeconds
<1>3. u \in Nat /\ s \in Nat /\ SecondMs \in Nat \ {0}
  BY Constants DEF Times
<1>4. q \in Int /\ SecondMs * q <= u - s /\ u - s <= SecondMs * q + (SecondMs - 1)
  BY <1>3, DivMod
<1>5. E * SecondMs <= s + Ahead /\ s <= E * SecondMs + Worst + (SecondMs - 1)
  BY Zenon DEF ClockSetAt
<1>6. E \in Int
  BY DEF E
<1> HIDE DEF E, q
<1> DEFINE set == E * SecondMs
           run == SecondMs * q
<1>7. (E + q) * SecondMs = set + run /\ set \in Int /\ run \in Int
  BY <1>3, <1>4, <1>6, Z3
<1> HIDE DEF set, run
<1>8. set + run <= u + Ahead /\ u <= set + run + Behind
  <2>1. /\ run <= u - s /\ u - s <= run + (SecondMs - 1)
        /\ set <= s + Ahead /\ s <= set + Worst + (SecondMs - 1)
    BY <1>4, <1>5 DEF set, run
  <2> QED BY <2>1, <1>3, <1>7, BoundsType
<1> QED BY <1>2, <1>7, <1>8
-----------------------------------------------------------------------------
(***************************************************************************)
(* The specification.                                                       *)
(***************************************************************************)

(* The request under way was sent at true time a. *)
SentAt(r, a) ==
  LET x == exchange
  IN /\ pc \in {"sent", "served", "answered"} => x.send_ms = Later(r, a)
     /\ pc = "sent" => a = t
     /\ pc = "served" => x.rx = t /\ t - a \in 0 .. DelayMs
     /\ pc = "answered" => /\ x.rx - a \in 0 .. DelayMs
                           /\ x.tx - x.rx \in 0 .. ServerMs /\ x.tx = t

(* r is the reading at true time 0, s the time of the last synchronisation, *)
(* a of the last request and v of the arrival of the best answer.           *)
Moments(r, s, a, v) ==
  /\ now = Later(r, t)
  /\ s <= a /\ a <= t /\ v <= t
  /\ ClockSetAt(r, s) /\ SentAt(r, a) /\ ReceivedAt(r, best, v)

TimeInv ==
  /\ TypeOK
  /\ \E r \in Ms, s, a, v \in Times : Moments(r, s, a, v)

LEMMA NoSampleType == NoSample \in Samples /\ ~NoSample.valid
<1>1. 0 \in Latencies /\ 0 \in Times /\ 0 \in Ms
  BY Constants DEF Latencies, Times, Ms
<1> QED BY <1>1 DEF NoSample, Samples

LEMMA InitTime == Init => TimeInv
<1> SUFFICES ASSUME Init PROVE TimeInv
  OBVIOUS
<1>1. now \in Ms /\ t = 0 /\ 0 \in Times /\ 0 \in Ms /\ Servers \in Nat
  BY Constants DEF Init, Times, Ms
<1>2. NoSample \in Samples
  BY NoSampleType
<1>3. TypeOK
  <2>1. clock \in [has_time : BOOLEAN, boot_ms : Ms, boot_epoch_seconds : Nat]
    BY <1>1 DEF Init
  <2>2. exchange \in [send_ms : Ms, rx : Times, tx : Times]
    BY <1>1 DEF Init
  <2>3. pc = "idle" /\ left = 0 /\ best = NoSample /\ refused = FALSE
    BY DEF Init
  <2>4. left \in 0 .. Servers
    BY <1>1, <2>3
  <2>5. refused \in BOOLEAN
    BY <2>3
  <2> QED BY <1>1, <1>2, <2>1, <2>2, <2>3, <2>4, <2>5 DEF TypeOK
<1>4. Moments(now, 0, 0, 0)
  <2>1. now = Later(now, t)
    BY <1>1, ReadingAt, Constants DEF Ms
  <2>2. ~clock.has_time /\ pc = "idle" /\ ~best.valid
    BY DEF Init, NoSample
  <2> QED BY <1>1, <2>1, <2>2 DEF Moments, ClockSetAt, SentAt, ReceivedAt
<1> QED BY <1>1, <1>3, <1>4 DEF TimeInv

(* While d milliseconds pass, the counter keeps step. *)
LEMMA PassKeepsStep ==
  ASSUME NEW r \in Ms, now = Later(r, t), t \in Times, NEW d \in Nat, Pass(d)
  PROVE  /\ t' \in Times /\ t' = t + d /\ t <= t'
         /\ now' = Later(r, t') /\ now' \in Ms
<1>1. t' = t + d /\ t' <= Horizon /\ t \in Nat
  BY DEF Pass, Times
<1>2. t' \in Times /\ t <= t' /\ t + d \in Times
  BY <1>1, Constants DEF Times
<1>3. now' = Later(r, t + d)
  BY <1>2, ReadingPasses DEF Pass
<1> QED BY <1>1, <1>2, <1>3, ReadingAt

LEMMA StepTime == TimeInv /\ [Next]_vars => TimeInv'
<1> SUFFICES ASSUME TimeInv, [Next]_vars PROVE TimeInv'
  OBVIOUS
<1> USE DEF TimeInv
<1>1. PICK r \in Ms, s \in Times, a \in Times, v \in Times : Moments(r, s, a, v)
  OBVIOUS
<1>2. /\ TypeOK /\ t \in Times /\ now = Later(r, t)
      /\ s <= a /\ a <= t /\ v <= t
      /\ ClockSetAt(r, s) /\ SentAt(r, a) /\ ReceivedAt(r, best, v)
  BY <1>1 DEF Moments, TypeOK
<1>3. SUFFICES /\ TypeOK'
               /\ \E s1, a1, v1 \in Times : Moments(r, s1, a1, v1)'
  OBVIOUS
<1>4. s \in Nat /\ a \in Nat /\ v \in Nat /\ t \in Nat
  BY <1>2 DEF Times
<1>5. clock' = clock => ClockSetAt(r, s)'
  BY <1>2 DEF ClockSetAt
<1>6. best' = best => ReceivedAt(r, best, v)'
  BY <1>2 DEF ReceivedAt, Offer
<1> HIDE DEF TimeInv
<1>7. CASE Idle
  <2>1. Pass(1) /\ pc = "idle" /\ UNCHANGED <<pc, clock, left, exchange, best, refused>>
    BY <1>7 DEF Idle
  <2>2. t' \in Times /\ t <= t'
        /\ now' = Later(r, t') /\ now' \in Ms
    BY <1>2, <2>1, PassKeepsStep
  <2>3. TypeOK'
    BY <1>2, <2>1, <2>2 DEF TypeOK
  <2>4. SentAt(r, a)'
    BY <2>1 DEF SentAt
  <2>5. Moments(r, s, a, v)'
    BY <1>2, <1>4, <1>5, <1>6, <2>1, <2>2, <2>4 DEF Moments, Times
  <2> QED BY <2>3, <2>5
<1>8. CASE Begin
  <2>1. TypeOK'
    BY <1>2, <1>8, NoSampleType, Constants DEF Begin, TypeOK
  <2>2. SentAt(r, a)' /\ ReceivedAt(r, best, v)'
    BY <1>8 DEF Begin, SentAt, ReceivedAt, NoSample
  <2>3. Moments(r, s, a, v)'
    BY <1>2, <1>5, <1>8, <2>2 DEF Moments, Begin
  <2> QED BY <2>1, <2>3
<1>9. CASE Send
  <2>1. TypeOK'
    BY <1>2, <1>9, Constants DEF Send, TypeOK, Times
  <2>2. PICK b \in Times : b = t
    BY <1>2
  <2>3. SentAt(r, b)'
    BY <1>2, <1>9, <2>2 DEF Send, SentAt
  <2>4. Moments(r, s, b, v)'
    BY <1>2, <1>4, <1>5, <1>6, <1>9, <2>2, <2>3 DEF Moments, Send
  <2> QED BY <2>1, <2>4
<1>10. CASE Arrive
  <2>1. PICK d \in 0 .. DelayMs : Pass(d)
    BY <1>10 DEF Arrive
  <2>2. /\ pc = "sent" /\ pc' = "served" /\ UNCHANGED <<clock, left, best, refused>>
        /\ exchange' = [exchange EXCEPT !.rx = t']
    BY <1>10 DEF Arrive
  <2>3. /\ d \in Nat /\ t' \in Times /\ t' = t + d /\ t <= t'
        /\ now' = Later(r, t') /\ now' \in Ms
    BY <1>2, <2>1, PassKeepsStep
  <2>4. TypeOK'
    BY <1>2, <2>2, <2>3 DEF TypeOK
  <2>5. SentAt(r, a)'
    BY <1>2, <1>4, <2>1, <2>2, <2>3 DEF SentAt, TypeOK
  <2>6. Moments(r, s, a, v)'
    BY <1>2, <1>4, <1>5, <1>6, <2>2, <2>3, <2>5 DEF Moments
  <2> QED BY <2>4, <2>6
<1>11. CASE Answer
  <2>1. PICK d \in 0 .. ServerMs : Pass(d)
    BY <1>11 DEF Answer
  <2>2. /\ pc = "served" /\ pc' = "answered" /\ UNCHANGED <<clock, left, best, refused>>
        /\ exchange' = [exchange EXCEPT !.tx = t']
    BY <1>11 DEF Answer
  <2>3. /\ d \in Nat /\ t' \in Times /\ t' = t + d /\ t <= t'
        /\ now' = Later(r, t') /\ now' \in Ms
    BY <1>2, <2>1, PassKeepsStep
  <2>4. TypeOK'
    BY <1>2, <2>2, <2>3 DEF TypeOK
  <2>5. SentAt(r, a)'
    BY <1>2, <1>4, <2>1, <2>2, <2>3 DEF SentAt, TypeOK
  <2>6. Moments(r, s, a, v)'
    BY <1>2, <1>4, <1>5, <1>6, <2>2, <2>3, <2>5 DEF Moments
  <2> QED BY <2>4, <2>6
<1>12. CASE Receive
  <2>1. PICK d \in 0 .. DelayMs : Pass(d)
    BY <1>12 DEF Receive
  <2>2. /\ pc = "answered" /\ pc' = "next" /\ UNCHANGED <<clock, left, exchange>>
        /\ \/ refused' = TRUE /\ best' = best
           \/ refused' = refused /\ best' = best
           \/ refused' = refused /\ best' = Sample(exchange, now')
    BY <1>12 DEF Receive
  <2>3. /\ d \in Nat /\ t' \in Times /\ t' = t + d /\ t <= t'
        /\ now' = Later(r, t') /\ now' \in Ms
    BY <1>2, <2>1, PassKeepsStep
  <2>4. PICK u \in Times : u = t'
    BY <2>3
  <2>5. /\ Sample(exchange, Later(r, u)) \in Samples
        /\ ReceivedAt(r, Sample(exchange, Later(r, u)), u)
    <3>1. /\ exchange.rx \in Times /\ exchange.tx \in Times
          /\ clock.boot_epoch_seconds \in Int
      BY <1>2 DEF TypeOK
    <3>2. /\ exchange.send_ms = Later(r, a) /\ exchange.rx - a \in 0 .. DelayMs
          /\ exchange.tx - exchange.rx \in 0 .. ServerMs /\ exchange.tx = t
      BY <1>2, <2>2 DEF SentAt
    <3>3. u - exchange.tx \in 0 .. DelayMs
      BY <1>4, <2>1, <2>3, <2>4, <3>2, Constants
    <3>4. clock.has_time => clock.boot_ms = Later(r, s)
      BY <1>2 DEF ClockSetAt
    <3> QED BY <1>2, <3>1, <3>2, <3>3, <3>4, SampleIsClose, Zenon
  <2>6. best' \in Samples /\ (ReceivedAt(r, best, v)' \/ ReceivedAt(r, best, u)')
    <3>1. CASE best' = best
      BY <1>2, <1>6, <3>1 DEF TypeOK
    <3>2. CASE best' = Sample(exchange, now')
      <4>1. best' = Sample(exchange, Later(r, u))
        BY <2>3, <2>4, <3>2
      <4>2. ReceivedAt(r, best', u)
        BY <2>5, <4>1
      <4> QED BY <2>5, <4>1, <4>2 DEF ReceivedAt, Offer
    <3> QED BY <2>2, <3>1, <3>2
  <2>7. refused' \in BOOLEAN
    BY <1>2, <2>2 DEF TypeOK
  <2>8. TypeOK'
    BY <1>2, <2>2, <2>3, <2>6, <2>7 DEF TypeOK
  <2>9. SentAt(r, a)'
    BY <2>2 DEF SentAt
  <2>10. Moments(r, s, a, v)' \/ Moments(r, s, a, u)'
    BY <1>2, <1>4, <1>5, <2>2, <2>3, <2>4, <2>6, <2>9 DEF Moments
  <2> QED BY <2>8, <2>10
<1>13. CASE NoAnswer
  <2>1. PICK d \in 0 .. TimeoutMs : Pass(d)
    BY <1>13 DEF NoAnswer
  <2>2. pc = "sent" /\ pc' = "next" /\ UNCHANGED <<clock, left, exchange, best, refused>>
    BY <1>13 DEF NoAnswer
  <2>3. /\ d \in Nat /\ t' \in Times /\ t <= t'
        /\ now' = Later(r, t') /\ now' \in Ms
    BY <1>2, <2>1, PassKeepsStep, Constants
  <2>4. TypeOK'
    BY <1>2, <2>2, <2>3 DEF TypeOK
  <2>5. SentAt(r, a)'
    BY <2>2 DEF SentAt
  <2>6. Moments(r, s, a, v)'
    BY <1>2, <1>4, <1>5, <1>6, <2>2, <2>3, <2>5 DEF Moments, Times
  <2> QED BY <2>4, <2>6
<1>14. CASE Finish
  <2>1. /\ pc' = "idle" /\ UNCHANGED <<t, now, left, refused>>
        /\ clock' = (IF best.valid THEN Set(best, now) ELSE clock)
        /\ best' = NoSample /\ exchange' = [send_ms |-> 0, rx |-> 0, tx |-> 0]
    BY <1>14 DEF Finish
  <2>2. exchange' \in [send_ms : Ms, rx : Times, tx : Times]
    <3>1. 0 \in Ms /\ 0 \in Times
      BY Constants DEF Ms, Times
    <3> QED BY <2>1, <3>1
  <2>3. SentAt(r, a)' /\ ReceivedAt(r, best, v)'
    BY <2>1, NoSampleType DEF SentAt, ReceivedAt
  <2>4. CASE ~best.valid
    <3>1. TypeOK'
      BY <1>2, <2>1, <2>2, <2>4, NoSampleType DEF TypeOK
    <3>2. Moments(r, s, a, v)'
      BY <1>2, <1>5, <2>1, <2>3, <2>4 DEF Moments
    <3> QED BY <3>1, <3>2
  <2>5. CASE best.valid
    <3>1. PICK u \in Times : u = t
      BY <1>2
    <3>2. clock' = Set(best, Later(r, u))
      BY <1>2, <2>1, <2>5, <3>1
    <3>3. v <= u /\ best \in Samples
      BY <1>2, <3>1 DEF TypeOK
    <3>4. LET set == clock'.boot_epoch_seconds * SecondMs
          IN /\ clock' \in [has_time : BOOLEAN, boot_ms : Ms, boot_epoch_seconds : Nat]
             /\ clock'.has_time /\ clock'.boot_ms = Later(r, u)
             /\ set <= u + Ahead /\ u <= set + Worst + (SecondMs - 1)
      BY <1>2, <2>5, <3>2, <3>3, SetIsClose, Zenon
    <3>5. ClockSetAt(r, u)'
      BY <3>4, Zenon DEF ClockSetAt
    <3>6. TypeOK'
      BY <1>2, <2>1, <2>2, <3>4, NoSampleType DEF TypeOK
    <3>7. SentAt(r, u)' /\ u <= u
      BY <1>4, <2>1, <3>1 DEF SentAt
    <3>8. Moments(r, u, u, v)'
      BY <1>2, <2>1, <2>3, <3>1, <3>5, <3>7 DEF Moments
    <3> QED BY <3>6, <3>8
  <2> QED BY <2>4, <2>5
<1>15. CASE UNCHANGED vars
  <2>1. TypeOK'
    BY <1>2, <1>15 DEF vars, TypeOK
  <2>2. SentAt(r, a)'
    BY <1>2, <1>15 DEF vars, SentAt
  <2>3. Moments(r, s, a, v)'
    BY <1>2, <1>5, <1>6, <1>15, <2>2 DEF vars, Moments
  <2> QED BY <2>1, <2>3
<1> QED BY <1>7, <1>8, <1>9, <1>10, <1>11, <1>12, <1>13, <1>14, <1>15 DEF Next

LEMMA TimeInvariant == Spec => []TimeInv
BY InitTime, StepTime, PTL DEF Spec

(* The latency of a sample stays in its bounds though the counter may wrap  *)
(* during the first query, and every reading is one of the counter's.       *)
THEOREM TypeCorrect == Spec => []TypeOK
<1>1. TimeInv => TypeOK
  BY DEF TimeInv
<1> QED BY <1>1, TimeInvariant, PTL

(* The displayed time is never further from the true one than the delays    *)
(* and the seconds that are cut off account for.                            *)
THEOREM DisplayedTimeIsClose == Spec => []TimeIsClose
<1>1. TimeInv => TimeIsClose
  <2> SUFFICES ASSUME TimeInv, clock.has_time
               PROVE  LET displayed == EpochSeconds(clock, now) * SecondMs
                      IN displayed <= t + Ahead /\ t <= displayed + Behind
    BY Zenon DEF TimeIsClose
  <2>1. PICK r \in Ms, s \in Times, a \in Times, v \in Times : Moments(r, s, a, v)
    BY DEF TimeInv
  <2>2. /\ t \in Times /\ clock.boot_epoch_seconds \in Nat
        /\ now = Later(r, t) /\ ClockSetAt(r, s) /\ s <= a /\ a <= t
    BY <2>1 DEF TimeInv, TypeOK, Moments
  <2>3. s <= t
    BY <2>2, Constants DEF Times
  <2> QED BY <2>2, <2>3, DisplayIsClose, Zenon
<1> QED BY <1>1, TimeInvariant, PTL
=============================================================================
