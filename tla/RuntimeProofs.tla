--------------------------- MODULE RuntimeProofs ---------------------------
(***************************************************************************)
(* Theorems about the main loop, for every value of the constants.          *)
(*                                                                          *)
(* The first invariant is typing; the second, NetworkWaitsForWindow, is     *)
(* inductive on its own.  What is said of time needs two more:              *)
(*   OpenSince    while the window is open, `now' and the deadline are      *)
(*                readings taken from one moment, the last input, and the   *)
(*                loop cannot be further from it than one round;            *)
(*   ClockOrigin  the clock counts from the moment of the last sync.        *)
(* Both say that the history (age) and the wrapped counter agree, which is  *)
(* what lets the lemmas about the clock translate one into the other.       *)
(*                                                                          *)
(* The module begins with those: arithmetic modulo m, then what it says of  *)
(* the operators of Clock, for every counter width.                         *)
(***************************************************************************)
EXTENDS Runtime, TLAPS

(* Quotient and remainder of an integer. *)
LEMMA DivMod ==
  ASSUME NEW n \in Int, NEW m \in Nat \ {0}
  PROVE  /\ n \div m \in Int
         /\ n % m \in 0 .. m - 1
         /\ n = m * (n \div m) + (n % m)
BY Z3

(* The remainder is unique. *)
LEMMA ModUnique ==
  ASSUME NEW m \in Nat \ {0}, NEW q \in Int, NEW r \in 0 .. m - 1
  PROVE  (m * q + r) % m = r
BY Z3

(* A value inside the range is its own remainder. *)
LEMMA ModSmall ==
  ASSUME NEW m \in Nat \ {0}, NEW r \in 0 .. m - 1
  PROVE  r % m = r
BY Z3

(* Multiples of m do not change a remainder. *)
LEMMA ModAddMultiple ==
  ASSUME NEW m \in Nat \ {0}, NEW q \in Int, NEW n \in Int
  PROVE  (m * q + n) % m = n % m
<1> DEFINE p == n \div m
           r == n % m
<1>1. p \in Int /\ r \in 0 .. m - 1 /\ n = m * p + r
  BY DivMod
<1>2. q + p \in Int
  BY <1>1
<1>3. m * q + n = m * (q + p) + r
  BY <1>1, Z3
<1>4. (m * (q + p) + r) % m = r
  BY <1>1, <1>2, ModUnique
<1> QED BY <1>3, <1>4

(* Nor does one turn. *)
LEMMA ModTurn ==
  ASSUME NEW m \in Nat \ {0}, NEW n \in Int
  PROVE  (m + n) % m = n % m
<1>1. PICK q \in Int : q = 1
  OBVIOUS
<1>2. (m * q + n) % m = n % m
  BY ModAddMultiple
<1>3. m * q + n = m + n
  BY <1>1
<1> QED BY <1>2, <1>3

(* An intermediate wrap is invisible in the end. *)
LEMMA ModShift ==
  ASSUME NEW n \in Int, NEW k \in Int, NEW m \in Nat \ {0}
  PROVE  ((n % m) + k) % m = (n + k) % m
<1> DEFINE p == n \div m
           r == n % m
<1>1. p \in Int /\ r \in 0 .. m - 1 /\ n = m * p + r
  BY DivMod
<1>2. r + k \in Int
  BY <1>1
<1>3. n + k = m * p + (r + k)
  BY <1>1, Z3
<1>4. (m * p + (r + k)) % m = (r + k) % m
  BY <1>1, <1>2, ModAddMultiple
<1> QED BY <1>3, <1>4
-----------------------------------------------------------------------------
LEMMA LaterType ==
  ASSUME NEW t \in Int, NEW d \in Int
  PROVE  Later(t, d) \in Ms
BY DivMod, ModulusAssumption DEF Later, Ms

LEMMA SinceType ==
  ASSUME NEW t \in Int, NEW u \in Int
  PROVE  Since(t, u) \in Ms
BY DivMod, ModulusAssumption DEF Since, Ms

(* Two waits in a row are one wait. *)
LEMMA LaterLater ==
  ASSUME NEW t \in Int, NEW d \in Int, NEW e \in Int
  PROVE  Later(Later(t, d), e) = Later(t, d + e)
<1>1. (((t + d) % Modulus) + e) % Modulus = ((t + d) + e) % Modulus
  BY ModShift, ModulusAssumption, t + d \in Int
<1> QED BY <1>1 DEF Later

(* A difference of readings is the time between them, below a full turn. *)
LEMMA SinceLater ==
  ASSUME NEW t \in Int, NEW d \in Ms
  PROVE  Since(Later(t, d), t) = d
<1>1. d \in Int /\ -t \in Int /\ t + d \in Int
  BY ModulusAssumption DEF Ms
<1>2. (((t + d) % Modulus) + (-t)) % Modulus = ((t + d) + (-t)) % Modulus
  BY <1>1, ModShift, ModulusAssumption
<1>3. d % Modulus = d
  BY ModSmall, ModulusAssumption DEF Ms
<1>4. (t + d) % Modulus \in Int
  BY <1>1, DivMod, ModulusAssumption
<1> QED BY <1>1, <1>2, <1>3, <1>4 DEF Since, Later

LEMMA HalfRangeIsHalf == HalfRange \in Nat /\ 2 * HalfRange = Modulus
BY ModulusAssumption, Z3 DEF HalfRange

(***************************************************************************)
(* "Deadlines must be less than 2^31 ms in the future" (clock.h): for such  *)
(* a deadline clock_deadline_reached is true from the moment it names and   *)
(* for half a turn of the counter, wherever in its range the counter is.    *)
(***************************************************************************)
THEOREM DeadlineSemantics ==
  ASSUME NEW t \in Int,
         NEW delay \in Nat, delay < HalfRange,
         NEW a \in Nat, a < delay + HalfRange
  PROVE  DeadlineReached(Later(t, a), Later(t, delay)) <=> a >= delay
<1> DEFINE x == Later(t, delay)
<1>1. x \in Ms
  BY LaterType
<1>2. x \in Int
  BY <1>1, ModulusAssumption DEF Ms
<1>3. Later(x, a - delay) = Later(t, a)
  BY LaterLater, a - delay \in Int, delay + (a - delay) = a
<1>4. CASE a >= delay
  <2>1. a - delay \in Ms /\ a - delay < HalfRange
    BY <1>4, HalfRangeIsHalf, ModulusAssumption DEF Ms
  <2>2. Since(Later(x, a - delay), x) = a - delay
    BY <1>2, <2>1, SinceLater
  <2> QED BY <1>3, <1>4, <2>1, <2>2 DEF DeadlineReached
<1>5. CASE a < delay
  <2>1. /\ delay - a \in 1 .. Modulus
        /\ Modulus - (delay - a) \in Ms
        /\ Modulus - (delay - a) >= HalfRange
    BY <1>5, HalfRangeIsHalf, ModulusAssumption DEF Ms
  <2> DEFINE b == Modulus - (delay - a)
  <2>2. Later(x, a - delay) = Later(x, b)
    <3> HIDE DEF x
    <3>1. x + (a - delay) \in Int /\ Modulus + (x + (a - delay)) = x + b
      BY <1>2, ModulusAssumption
    <3>2. (Modulus + (x + (a - delay))) % Modulus
            = (x + (a - delay)) % Modulus
      BY <3>1, ModTurn, ModulusAssumption
    <3> QED BY <3>1, <3>2 DEF Later
  <2>3. Since(Later(x, b), x) = b
    BY <1>2, <2>1, SinceLater
  <2> QED BY <1>3, <1>5, <2>1, <2>2, <2>3, HalfRangeIsHalf DEF DeadlineReached
<1> QED BY <1>4, <1>5

(***************************************************************************)
(* The back-off never leaves its bounds and never shrinks.                  *)
(***************************************************************************)
THEOREM IntervalBounded ==
  ASSUME NEW current \in InitialInterval .. MaxInterval
  PROVE  /\ NextSyncInterval(current) \in InitialInterval .. MaxInterval
         /\ NextSyncInterval(current) >= current
<1>1. /\ InitialInterval \in Nat /\ MaxInterval \in Nat
      /\ current \in Nat /\ current # 0
  BY ClockAssumption
<1>2. CASE current >= MaxInterval \div 2
  BY <1>1, <1>2 DEF NextSyncInterval
<1>3. CASE ~(current >= MaxInterval \div 2)
  <2>1. 2 * current <= MaxInterval
    BY <1>1, <1>3, Z3
  <2> QED BY <1>1, <1>3, <2>1 DEF NextSyncInterval
<1> QED BY <1>2, <1>3
-----------------------------------------------------------------------------
DurationsTyped ==
  /\ StartupDelay \in Nat /\ PollMs \in Nat /\ RefreshMs \in Nat
  /\ StepMs \in Nat /\ ConnectMs \in Nat /\ NtpMs \in Nat /\ AgeCap \in Nat

LEMMA Durations == DurationsTyped
BY RuntimeAssumption DEF DurationsTyped

(* A clock keeps its type when a synchronisation succeeds. *)
LEMMA SyncedTyped ==
  ASSUME NEW c \in Clocks, NEW t \in Ms
  PROVE  Synced(c, t) \in Clocks
<1>1. \A i \in Ms : NextSyncInterval(i) \in Ms /\ InitialInterval \in Ms
  <2> SUFFICES ASSUME NEW i \in Ms
               PROVE  NextSyncInterval(i) \in Ms /\ InitialInterval \in Ms
    OBVIOUS
  <2>1. InitialInterval \in Ms /\ MaxInterval \in Ms
    BY ClockAssumption, ModulusAssumption DEF Ms
  <2>2. i < MaxInterval \div 2 => 2 * i <= MaxInterval
    BY ClockAssumption, ModulusAssumption, Z3 DEF Ms
  <2> QED BY <2>1, <2>2, ClockAssumption, ModulusAssumption
          DEF NextSyncInterval, Ms
<1>2. c.sync_interval_ms \in Ms
  BY DEF Clocks
<1> QED BY <1>1, <1>2 DEF Synced, Clocks

(* The passage of time keeps the types of the counter and the history. *)
LEMMA PassTyped ==
  ASSUME TypeOK, NEW d \in Nat, NEW fresh, Pass(d, fresh)
  PROVE  now' \in Ms /\ age' \in [Marks -> 0 .. AgeCap]
<1>1. now \in Int
  BY ModulusAssumption DEF TypeOK, Ms
<1>2. now' \in Ms
  BY <1>1, LaterType DEF Pass
<1>3. \A m \in Marks : age[m] \in 0 .. AgeCap
  BY DEF TypeOK
<1>4. \A m \in Marks : Capped(age[m] + d) \in 0 .. AgeCap
  BY <1>3, Durations DEF Capped, DurationsTyped
<1>5. age' \in [Marks -> 0 .. AgeCap]
  BY <1>4, Durations DEF Pass, DurationsTyped
<1> QED BY <1>2, <1>5

LEMMA PassUpTo ==
  ASSUME TypeOK, NEW b \in {StepMs, ConnectMs, NtpMs}, NEW fresh,
         \E d \in 0 .. b : Pass(d, fresh)
  PROVE  now' \in Ms /\ age' \in [Marks -> 0 .. AgeCap]
<1>1. PICK d \in 0 .. b : Pass(d, fresh)
  OBVIOUS
<1>2. d \in Nat
  BY Durations DEF DurationsTyped
<1> QED BY <1>1, <1>2, PassTyped

LEMMA LaterNow ==
  ASSUME TypeOK PROVE Later(now, StartupDelay) \in Ms
<1>1. now \in Int
  BY ModulusAssumption DEF TypeOK, Ms
<1> QED BY <1>1, LaterType, Durations DEF DurationsTyped
-----------------------------------------------------------------------------
LEMMA InitTyped == Init => TypeOK
<1> SUFFICES ASSUME Init PROVE TypeOK
  OBVIOUS
<1>1. 0 \in Ms /\ deadline \in Ms
  BY ModulusAssumption, Durations, LaterType DEF Init, Ms, DurationsTyped
<1>2. clock \in Clocks
  BY <1>1, ClockAssumption, ModulusAssumption DEF Init, ClockInit, Clocks, Ms
<1>3. age \in [Marks -> 0 .. AgeCap]
  BY Durations DEF Init, DurationsTyped
<1>4. 0 \in 0 .. SerialSize - 1
  BY RuntimeAssumption
<1> QED BY <1>1, <1>2, <1>3, <1>4, RuntimeAssumption DEF Init, TypeOK, Places

(* Every step keeps the types: one step of the proof per action. *)
LEMMA StepTyped == TypeOK /\ [Next]_vars => TypeOK'
<1> SUFFICES ASSUME TypeOK, [Next]_vars PROVE TypeOK'
  OBVIOUS
<1> USE DEF TypeOK, Places, window, console, network, service
<1>1. CASE Start
  <2>1. now' \in Ms /\ age' \in [Marks -> 0 .. AgeCap]
    BY <1>1, PassUpTo DEF Start
  <2> QED BY <1>1, <2>1, RuntimeAssumption DEF Start
<1>2. ASSUME NEW fresh, PollSerial(fresh)
      PROVE  now' \in Ms /\ age' \in [Marks -> 0 .. AgeCap]
             /\ window_active' \in BOOLEAN
  BY <1>2, PassTyped DEF PollSerial, WindowOpen
<1>3. CASE PollNothing
  BY <1>2, <1>3 DEF PollNothing, PollSerial
<1>4. CASE ReceiveText
  BY <1>2, <1>4, LaterNow, RuntimeAssumption
  DEF ReceiveText, Extend, PollSerial
<1>5. CASE ReceiveBlankLine
  BY <1>2, <1>5, LaterNow DEF ReceiveBlankLine, Extend, PollSerial
<1>6. CASE ReceiveLine
  <2>1. config' \in Configs /\ flash' \in Configs
        /\ config_dirty' \in BOOLEAN /\ wifi_ready' \in BOOLEAN
    BY <1>6, RuntimeAssumption
    DEF ReceiveLine, CommandHandled, CommandRejected
  <2>2. 0 \in 0 .. SerialSize - 1
    BY RuntimeAssumption
  <2>3. PollSerial({"input"}) /\ deadline' = Later(now, StartupDelay)
    BY <1>6 DEF ReceiveLine, Extend
  <2> QED BY <1>2, <1>6, <2>1, <2>2, <2>3, LaterNow DEF ReceiveLine, PollSerial
<1>7. CASE StartNetwork
  <2>1. now' \in Ms /\ age' \in [Marks -> 0 .. AgeCap]
    BY <1>7, PassUpTo DEF StartNetwork
  <2> QED BY <1>7, <2>1 DEF StartNetwork, WindowOpen
<1>8. CASE Render
  BY <1>8, PassTyped DEF Render
<1>9. CASE SkipService
  <2>1. now' \in Ms /\ age' \in [Marks -> 0 .. AgeCap]
    BY <1>9, PassUpTo DEF SkipService
  <2> QED BY <1>9, <2>1 DEF SkipService
<1>10. CASE BeginService
  <2>1. now' \in Ms /\ age' \in [Marks -> 0 .. AgeCap]
    BY <1>10, PassUpTo DEF BeginService
  <2> QED BY <1>10, <2>1 DEF BeginService
<1>11. ASSUME NEW ok \in BOOLEAN, WifiConnect(ok)
       PROVE  /\ now' \in Ms /\ age' \in [Marks -> 0 .. AgeCap]
              /\ {config_dirty', wifi_ready', link'} \subseteq BOOLEAN
  BY <1>11, PassUpTo DEF WifiConnect
<1>12. CASE ConnectOk
  BY <1>11, <1>12 DEF ConnectOk, WifiConnect
<1>13. CASE ConnectFail
  BY <1>11, <1>13 DEF ConnectFail, WifiConnect
<1>14. CASE DecideSync
  BY <1>14, PassTyped DEF DecideSync, WindowOpen
<1>15. ASSUME NEW fresh, NtpReturns(fresh)
       PROVE  now' \in Ms /\ age' \in [Marks -> 0 .. AgeCap]
  BY <1>15, PassUpTo DEF NtpReturns
<1>16. CASE NtpOk
  BY <1>15, <1>16, SyncedTyped DEF NtpOk, NtpReturns
<1>17. CASE NtpFail
  BY <1>15, <1>17 DEF NtpFail, NtpReturns
<1>18. CASE Sleep
  BY <1>18, PassTyped, Durations DEF Sleep, DurationsTyped
<1>19. CASE LinkLost
  BY <1>19 DEF LinkLost
<1>20. CASE PowerCycle
  <2>1. 0 \in Ms /\ Later(0, StartupDelay) \in Ms
    BY ModulusAssumption, Durations, LaterType DEF Ms, DurationsTyped
  <2>2. ClockInit \in Clocks
    BY <2>1, ClockAssumption, ModulusAssumption DEF ClockInit, Clocks, Ms
  <2>3. age' \in [Marks -> 0 .. AgeCap]
    BY <1>20, Durations DEF PowerCycle, DurationsTyped
  <2>4. 0 \in 0 .. SerialSize - 1
    BY RuntimeAssumption
  <2> QED BY <1>20, <2>1, <2>2, <2>3, <2>4, RuntimeAssumption DEF PowerCycle
<1>21. CASE UNCHANGED vars
  BY <1>21 DEF vars
<1> QED BY <1>1, <1>3, <1>4, <1>5, <1>6, <1>7, <1>8, <1>9, <1>10, <1>12,
           <1>13, <1>14, <1>16, <1>17, <1>18, <1>19, <1>20, <1>21
        DEF Next, Loop

(* Type correctness: in particular the serial line always leaves room for   *)
(* its NUL, and every time stays in the range of the counter.               *)
THEOREM TypeCorrect == Spec => []TypeOK
BY InitTyped, StepTyped, PTL DEF Spec
-----------------------------------------------------------------------------
NetworkInv ==
  /\ NetworkWaitsForWindow
  /\ pc = "start" => ~network_started

(* The window never opens again under a running network. *)
LEMMA NetworkStep == TypeOK /\ NetworkInv /\ [Next]_vars => NetworkInv'
<1> SUFFICES ASSUME TypeOK, NetworkInv, [Next]_vars
             PROVE  NetworkInv'
  OBVIOUS
<1> USE DEF NetworkInv, NetworkWaitsForWindow, window, console, network,
            service
<1>1. CASE Start
  BY <1>1 DEF Start
<1>2. ASSUME NEW fresh, PollSerial(fresh), wifi_ready' => wifi_ready
      PROVE  NetworkInv'
  <2>1. pc = "serial" /\ pc' = "window" /\ network_started' = network_started
    BY <1>2 DEF PollSerial
  <2>2. ~window_active => ~window_active'
    BY <1>2 DEF PollSerial, WindowOpen
  <2> QED BY <1>2, <2>1, <2>2
<1>3. CASE PollNothing \/ ReceiveText \/ ReceiveBlankLine \/ ReceiveLine
  BY <1>2, <1>3 DEF PollNothing, ReceiveText, ReceiveBlankLine, ReceiveLine,
                    Extend, CommandHandled, CommandRejected
<1>4. CASE StartNetwork
  <2>1. pc' = "render" /\ wifi_ready' = wifi_ready /\ pc = "window"
    BY <1>4 DEF StartNetwork
  <2>2. CASE network_started
    BY <1>4, <2>1, <2>2 DEF StartNetwork
  <2>3. CASE ~network_started
    <3>1. network_started' = ~window_active' /\ ~wifi_ready
      BY <1>4, <2>3 DEF StartNetwork
    <3> QED BY <2>1, <3>1
  <2> QED BY <2>2, <2>3
<1>5. CASE Render \/ SkipService \/ Sleep
  BY <1>5 DEF Render, SkipService, Sleep
<1>6. CASE BeginService
  BY <1>6 DEF BeginService, ServiceDue
<1>7. CASE ConnectOk \/ ConnectFail
  BY <1>7 DEF ConnectOk, ConnectFail, WifiConnect
<1>8. CASE DecideSync
  BY <1>8 DEF DecideSync, WindowOpen
<1>9. CASE NtpOk \/ NtpFail
  BY <1>9 DEF NtpOk, NtpFail, NtpReturns
<1>10. CASE LinkLost
  BY <1>10 DEF LinkLost
<1>11. CASE PowerCycle
  BY <1>11 DEF PowerCycle
<1>12. CASE UNCHANGED vars
  BY <1>12 DEF vars
<1> QED BY <1>1, <1>2, <1>3, <1>4, <1>5, <1>6, <1>7, <1>8, <1>9, <1>10,
           <1>11, <1>12 DEF Next, Loop

LEMMA NetworkInvariant == Spec => []NetworkInv
<1>1. Init => NetworkInv
  BY DEF Init, NetworkInv, NetworkWaitsForWindow
<1> QED BY <1>1, NetworkStep, TypeCorrect, PTL DEF Spec

(* Wi-Fi and NTP run only after the configuration window has closed.        *)
THEOREM NetworkAfterWindow == Spec => []NetworkWaitsForWindow
<1>1. NetworkInv => NetworkWaitsForWindow
  BY DEF NetworkInv
<1> QED BY <1>1, NetworkInvariant, PTL

(* The configuration is constant while wifi_connect and ntp_sync may be     *)
(* working on a copy of it.                                                 *)
THEOREM ConfigStable == Spec => ConfigFrozen
<1> DEFINE A == network_started /\ network_started' => UNCHANGED config
<1>1. NetworkInv /\ [Next]_vars => [A]_vars
  <2> SUFFICES ASSUME NetworkInv, Next, network_started, network_started'
               PROVE  UNCHANGED config
    OBVIOUS
  <2>1. ~WindowOpen(now)
    BY DEF NetworkInv, NetworkWaitsForWindow, WindowOpen
  <2> USE DEF console
  <2>2. CASE Start \/ PowerCycle
    BY <2>2 DEF Start, PowerCycle, NetworkInv, service
  <2>3. CASE PollNothing \/ StartNetwork \/ Render \/ SkipService \/ BeginService
    BY <2>3 DEF PollNothing, StartNetwork, Render, SkipService, BeginService
  <2>4. CASE ReceiveText \/ ReceiveBlankLine \/ ReceiveLine
    BY <2>1, <2>4 DEF ReceiveText, ReceiveBlankLine, ReceiveLine, Extend
  <2>5. CASE ConnectOk \/ ConnectFail \/ DecideSync
    BY <2>5 DEF ConnectOk, ConnectFail, WifiConnect, DecideSync
  <2>6. CASE NtpOk \/ NtpFail \/ Sleep \/ LinkLost
    BY <2>6 DEF NtpOk, NtpFail, NtpReturns, Sleep, LinkLost
  <2> QED BY <2>2, <2>3, <2>4, <2>5, <2>6 DEF Next, Loop
<1> QED BY <1>1, NetworkInvariant, PTL DEF ConfigFrozen, Spec
-----------------------------------------------------------------------------
(***************************************************************************)
(* The configuration window in true time.                                   *)
(***************************************************************************)

(* How far past StartupDelay the last input can be when the loop gets here. *)
Slack(p) ==
  CASE p = "serial" -> StepMs + PollMs
    [] p = "sleep"  -> StepMs
    [] OTHER        -> 0

(* now and the deadline are counted from one moment t, a milliseconds ago. *)
CountedFrom(t, a) ==
  now = Later(t, a) /\ deadline = Later(t, StartupDelay)

OpenSince ==
  window_active =>
    /\ \E t \in Ms : CountedFrom(t, age["input"])
    /\ age["input"] < StartupDelay + Slack(pc)

LEMMA LaterZero == \A t \in Ms : Later(t, 0) = t
<1> SUFFICES ASSUME NEW t \in Ms PROVE Later(t, 0) = t
  OBVIOUS
<1>1. t + 0 = t
  BY ModulusAssumption DEF Ms
<1>2. t % Modulus = t
  BY ModSmall, ModulusAssumption DEF Ms
<1> QED BY <1>1, <1>2 DEF Later

LEMMA PassAge ==
  ASSUME TypeOK, NEW m \in Marks, NEW d \in Nat, NEW fresh, Pass(d, fresh)
  PROVE  /\ age[m] \in 0 .. AgeCap /\ age'[m] \in 0 .. AgeCap
         /\ m \in fresh => age'[m] = 0
         /\ m \notin fresh /\ age[m] + d <= AgeCap => age'[m] = age[m] + d
         /\ m \notin fresh /\ age'[m] < AgeCap => age'[m] = age[m] + d
         /\ m \notin fresh => age'[m] >= age[m]
<1>1. age[m] \in 0 .. AgeCap /\ age'[m] \in 0 .. AgeCap
  BY PassTyped DEF TypeOK
<1>2. age'[m] = IF m \in fresh THEN 0 ELSE Capped(age[m] + d)
  BY DEF Pass
<1> QED BY <1>1, <1>2, Durations DEF Capped, DurationsTyped

(* Waiting keeps the origin. *)
LEMMA WaitKeepsOrigin ==
  ASSUME TypeOK, "input" \in Marks,
         NEW d \in Nat, Pass(d, {}), deadline' = deadline,
         \E t \in Ms : CountedFrom(t, age["input"]),
         age["input"] + d <= AgeCap
  PROVE  /\ age'["input"] = age["input"] + d
         /\ \E t \in Ms : CountedFrom(t, age["input"])'
<1>1. PICK t \in Ms : CountedFrom(t, age["input"])
  OBVIOUS
<1>2. age["input"] \in 0 .. AgeCap /\ age'["input"] = age["input"] + d
  BY PassAge
<1>3. t \in Int /\ age["input"] \in Int /\ d \in Int
  BY <1>2, ModulusAssumption, Durations DEF Ms, DurationsTyped
<1>4. now' = Later(t, age["input"] + d)
  BY <1>1, <1>3, LaterLater DEF CountedFrom, Pass
<1>5. CountedFrom(t, age["input"])'
  BY <1>1, <1>2, <1>4 DEF CountedFrom
<1> QED BY <1>2, <1>5

(* What the comparison of readings says of the true time. *)
LEMMA WindowJudged ==
  ASSUME NEW t \in Ms, NEW a \in Nat, a < StartupDelay + HalfRange,
         NEW u, u = Later(t, a), NEW e, e = Later(t, StartupDelay)
  PROVE  DeadlineReached(u, e) <=> a >= StartupDelay
<1>1. t \in Int
  BY ModulusAssumption DEF Ms
<1>2. StartupDelay \in Nat /\ StartupDelay < HalfRange
  BY RuntimeAssumption
<1> QED BY <1>1, <1>2, DeadlineSemantics

(* The bounds the proofs below use, in one place. *)
LEMMA SlackBounds ==
  /\ Slack("serial") = StepMs + PollMs /\ Slack("sleep") = StepMs
  /\ \A p \in Places \ {"serial", "sleep"} : Slack(p) = 0
  /\ \A p \in Places : /\ Slack(p) \in 0 .. StepMs + PollMs
                       /\ Slack(p) + StepMs < HalfRange
  /\ StartupDelay + StepMs + PollMs + StepMs <= AgeCap
  /\ StartupDelay > 0
<1>1. /\ StepMs \in Nat /\ PollMs \in Nat /\ StartupDelay \in Nat
      /\ PollMs + 2 * StepMs < HalfRange
      /\ StartupDelay + PollMs + 2 * StepMs <= AgeCap
      /\ StartupDelay > 0
  BY RuntimeAssumption
<1>2. HalfRange \in Nat /\ AgeCap \in Nat
  BY HalfRangeIsHalf, Durations DEF DurationsTyped
<1> QED BY <1>1, <1>2 DEF Slack, Places

(* A step that lets d milliseconds pass and leaves the open window alone. *)
LEMMA WaitStep ==
  ASSUME TypeOK, "input" \in Marks, OpenSince, window_active,
         NEW d \in Nat, Pass(d, {}), deadline' = deadline, pc' \in Places,
         Slack(pc) + d <= StepMs + PollMs + StepMs
  PROVE  /\ \E t \in Ms : CountedFrom(t, age["input"])'
         /\ age'["input"] = age["input"] + d
         /\ Slack(pc) + d <= Slack(pc') => OpenSince'
<1>1. /\ age["input"] \in 0 .. AgeCap /\ age["input"] \in Nat
      /\ age["input"] < StartupDelay + Slack(pc)
  BY PassAge, Durations DEF OpenSince, DurationsTyped
<1>2. Slack(pc) \in Nat /\ Slack(pc') \in Nat /\ StartupDelay \in Nat
  BY SlackBounds, Durations DEF TypeOK, DurationsTyped
<1>3. age["input"] + d <= AgeCap
  BY <1>1, <1>2, SlackBounds, Durations DEF DurationsTyped
<1>4. /\ \E t \in Ms : CountedFrom(t, age["input"])'
      /\ age'["input"] = age["input"] + d
  BY <1>3, WaitKeepsOrigin DEF OpenSince
<1>5. ASSUME Slack(pc) + d <= Slack(pc')
      PROVE  OpenSince'
  <2>1. age'["input"] < StartupDelay + Slack(pc')
    BY <1>1, <1>2, <1>4, <1>5
  <2> QED BY <1>4, <2>1 DEF OpenSince
<1> QED BY <1>4, <1>5

(* runtime_update_startup_config_window in the two places where the loop    *)
(* calls it while the window may be open.                                   *)
LEMMA PollStep ==
  ASSUME TypeOK, "input" \in Marks, OpenSince, window_active,
         NEW fresh, PollSerial(fresh)
  PROVE  /\ WindowOpen(now) <=> age["input"] < StartupDelay
         /\ pc' = "window" /\ age["input"] \in Nat
<1>1. age["input"] \in 0 .. AgeCap /\ age["input"] \in Nat
  BY Durations, "input" \in Marks DEF TypeOK, DurationsTyped
<1>2. pc = "serial" /\ pc' = "window"
  BY DEF PollSerial
<1>3. age["input"] < StartupDelay + HalfRange
  BY <1>1, <1>2, SlackBounds, RuntimeAssumption, HalfRangeIsHalf
  DEF OpenSince, Places
<1>4. PICK t \in Ms : CountedFrom(t, age["input"])
  BY DEF OpenSince
<1>5. DeadlineReached(now, deadline) <=> age["input"] >= StartupDelay
  BY <1>1, <1>3, <1>4, WindowJudged DEF CountedFrom
<1> QED BY <1>1, <1>2, <1>5, Durations DEF WindowOpen, DurationsTyped

LEMMA StartStep ==
  ASSUME TypeOK, "input" \in Marks, OpenSince, window_active,
         StartNetwork, ~network_started
  PROVE  /\ window_active' <=> age'["input"] < StartupDelay
         /\ \E t \in Ms : CountedFrom(t, age["input"])'
         /\ pc' = "render" /\ age'["input"] \in Nat
<1>1. PICK d \in 0 .. StepMs : Pass(d, {})
  BY DEF StartNetwork
<1>2. d \in Nat /\ d <= StepMs
  BY <1>1, Durations DEF DurationsTyped
<1>3. pc = "window" /\ pc' = "render" /\ deadline' = deadline
  BY DEF StartNetwork
<1>4. /\ \E t \in Ms : CountedFrom(t, age["input"])'
      /\ age'["input"] = age["input"] + d
  BY <1>1, <1>2, <1>3, WaitStep, SlackBounds, Durations
  DEF Places, DurationsTyped
<1>5. age["input"] \in Nat /\ age["input"] < StartupDelay
  BY <1>3, SlackBounds, Durations DEF TypeOK, OpenSince, Places, DurationsTyped
<1>6. age'["input"] \in Nat /\ age'["input"] < StartupDelay + HalfRange
  BY <1>2, <1>4, <1>5, RuntimeAssumption, HalfRangeIsHalf, Durations
  DEF DurationsTyped
<1>7. DeadlineReached(now', deadline) <=> age'["input"] >= StartupDelay
  BY <1>3, <1>4, <1>6, WindowJudged DEF CountedFrom
<1>8. window_active' <=> ~DeadlineReached(now', deadline)
  BY DEF StartNetwork, WindowOpen
<1>9. ~(age'["input"] >= StartupDelay) <=> age'["input"] < StartupDelay
  BY <1>6, Durations DEF DurationsTyped
<1> QED BY <1>3, <1>4, <1>6, <1>7, <1>8, <1>9

LEMMA OpenSinceStep ==
  ASSUME "input" \in Marks
  PROVE  TypeOK /\ TypeOK' /\ NetworkInv /\ OpenSince /\ [Next]_vars
           => OpenSince'
<1> SUFFICES ASSUME TypeOK, TypeOK', NetworkInv, OpenSince, [Next]_vars,
                    window_active'
             PROVE  OpenSince'
  BY DEF OpenSince
<1> USE DEF window, console, network, service
<1>0. /\ pc' \in Places /\ StepMs \in Nat /\ PollMs \in Nat
      /\ StartupDelay \in Nat /\ 0 < StartupDelay
  BY Durations, RuntimeAssumption DEF TypeOK, DurationsTyped
<1>1. CASE Start
  <2>1. PICK d \in 0 .. StepMs : Pass(d, {})
    BY <1>1 DEF Start
  <2>2. pc = "start" /\ pc' = "serial" /\ deadline' = deadline /\ window_active
    BY <1>1 DEF Start
  <2>3. d \in Nat /\ Slack(pc) = 0 /\ Slack(pc') = StepMs + PollMs
    BY <1>0, <2>1, <2>2, SlackBounds DEF Places
  <2> QED BY <1>0, <2>1, <2>2, <2>3, WaitStep
<1>2. CASE PollNothing
  <2>1. PollSerial({}) /\ deadline' = deadline
    BY <1>2 DEF PollNothing
  <2>2. window_active /\ WindowOpen(now) /\ Pass(0, {}) /\ pc' = "window"
    BY <2>1 DEF PollSerial, WindowOpen
  <2>3. age["input"] \in Nat /\ age["input"] < StartupDelay
    BY <2>1, <2>2, PollStep
  <2>4. Slack(pc) + 0 <= StepMs + PollMs + StepMs /\ Slack(pc') = 0
    BY <1>0, <2>2, SlackBounds DEF TypeOK, Places
  <2>5. /\ \E t \in Ms : CountedFrom(t, age["input"])'
        /\ age'["input"] = age["input"] + 0
    BY <1>0, <2>1, <2>2, <2>4, WaitStep
  <2> QED BY <1>0, <2>3, <2>4, <2>5 DEF OpenSince
<1>3. CASE ReceiveText \/ ReceiveBlankLine \/ ReceiveLine
  <2>1. PollSerial({"input"}) /\ deadline' = Later(now, StartupDelay)
    BY <1>3 DEF ReceiveText, ReceiveBlankLine, ReceiveLine, Extend
  <2>2. Pass(0, {"input"}) /\ pc' = "window" /\ now \in Ms
    BY <2>1 DEF PollSerial, TypeOK
  <2>3. age'["input"] = 0
    BY <2>2, PassAge
  <2>4. \E t \in Ms : CountedFrom(t, age["input"])'
    <3>1. now' = Later(now, age'["input"]) /\ now' = now
      BY <2>2, <2>3, LaterZero DEF Pass
    <3> QED BY <2>1, <2>2, <3>1 DEF CountedFrom
  <2>5. Slack(pc') = 0
    BY <2>2, SlackBounds DEF Places
  <2> QED BY <1>0, <2>3, <2>4, <2>5 DEF OpenSince
<1>4. CASE StartNetwork
  <2>1. ~network_started /\ window_active
    BY <1>4 DEF StartNetwork, NetworkInv, NetworkWaitsForWindow, WindowOpen
  <2>2. /\ age'["input"] < StartupDelay /\ age'["input"] \in Nat
        /\ \E t \in Ms : CountedFrom(t, age["input"])'
        /\ pc' = "render"
    BY <1>4, <2>1, StartStep
  <2>3. Slack(pc') = 0
    BY <2>2, SlackBounds DEF Places
  <2> QED BY <1>0, <2>2, <2>3 DEF OpenSince
<1>5. CASE Render
  <2>1. /\ Pass(0, {"render"})
        /\ window_active /\ deadline' = deadline
        /\ pc = "render" /\ pc' = "service"
    BY <1>5 DEF Render
  <2>2. Slack(pc) = 0 /\ Slack(pc') = 0
    BY <2>1, SlackBounds DEF Places
  <2>3. now' = now /\ age'["input"] = age["input"]
    <3>1. now' = Later(now, 0)
      BY <2>1 DEF Pass
    <3>2. age["input"] \in 0 .. AgeCap /\ age["input"] + 0 = age["input"]
      BY Durations DEF TypeOK, DurationsTyped
    <3>3. age'["input"] = age["input"] + 0
      BY <2>1, <3>2, PassAge, "input" \notin {"render"}
    <3> QED BY <3>1, <3>2, <3>3, LaterZero DEF TypeOK
  <2> QED BY <2>1, <2>2, <2>3 DEF OpenSince, CountedFrom
<1>6. CASE SkipService
  <2>1. PICK d \in 0 .. StepMs : Pass(d, {})
    BY <1>6 DEF SkipService
  <2>2. pc = "service" /\ pc' = "sleep" /\ deadline' = deadline /\ window_active
    BY <1>6 DEF SkipService
  <2>3. d \in Nat /\ Slack(pc) = 0 /\ Slack(pc') = StepMs
    BY <1>0, <2>1, <2>2, SlackBounds DEF Places
  <2> QED BY <1>0, <2>1, <2>2, <2>3, WaitStep
<1>7. CASE Sleep
  <2>1. /\ pc = "sleep" /\ pc' = "serial" /\ deadline' = deadline
        /\ window_active
    BY <1>7 DEF Sleep
  <2>2. Pass(PollMs, {})
    BY <1>7, <2>1 DEF Sleep, NetworkInv, NetworkWaitsForWindow
  <2>3. Slack(pc) = StepMs /\ Slack(pc') = StepMs + PollMs
    BY <2>1, SlackBounds
  <2> QED BY <1>0, <2>1, <2>2, <2>3, WaitStep
(* Everything else happens under a closed window, or not to the window. *)
<1>8. CASE BeginService
  BY <1>8 DEF BeginService, ServiceDue, NetworkInv, NetworkWaitsForWindow
<1>9. CASE ConnectOk \/ ConnectFail
  BY <1>9 DEF ConnectOk, ConnectFail, WifiConnect, NetworkInv,
              NetworkWaitsForWindow
<1>10. CASE DecideSync
  BY <1>10 DEF DecideSync, WindowOpen, NetworkInv, NetworkWaitsForWindow
<1>11. CASE NtpOk \/ NtpFail
  BY <1>11 DEF NtpOk, NtpFail, NtpReturns, NetworkInv, NetworkWaitsForWindow
<1>12. CASE LinkLost \/ UNCHANGED vars
  <2>1. UNCHANGED <<pc, now, window_active, deadline, age>>
    BY <1>12 DEF LinkLost, vars
  <2> QED BY <2>1 DEF OpenSince, CountedFrom
<1>13. CASE PowerCycle
  <2>1. /\ pc' = "start" /\ now' = 0 /\ age'["input"] = 0
        /\ deadline' = Later(0, StartupDelay)
    BY <1>13 DEF PowerCycle
  <2>2. 0 \in Ms /\ Later(0, 0) = 0
    BY LaterZero, ModulusAssumption DEF Ms
  <2>3. Slack(pc') = 0
    BY <2>1, SlackBounds DEF Places
  <2> QED BY <1>0, <2>1, <2>2, <2>3 DEF OpenSince, CountedFrom
<1> QED BY <1>1, <1>2, <1>3, <1>4, <1>5, <1>6, <1>7, <1>8, <1>9, <1>10,
           <1>11, <1>12, <1>13 DEF Next, Loop

LEMMA OpenSinceInvariant ==
  ASSUME "input" \in Marks PROVE Spec => []OpenSince
<1>1. Init => OpenSince
  <2> SUFFICES ASSUME Init PROVE OpenSince
    OBVIOUS
  <2>1. 0 \in Ms /\ Later(0, 0) = 0
    BY LaterZero, ModulusAssumption DEF Ms
  <2>2. Slack(pc) = 0 /\ StartupDelay \in Nat /\ 0 < StartupDelay
    BY SlackBounds, Durations DEF Init, Places, DurationsTyped
  <2> QED BY <2>1, <2>2 DEF Init, OpenSince, CountedFrom
<1>2. TypeOK /\ TypeOK' /\ NetworkInv /\ OpenSince /\ [Next]_vars => OpenSince'
  BY OpenSinceStep
<1> QED BY <1>1, <1>2, TypeCorrect, NetworkInvariant, PTL DEF Spec

(***************************************************************************)
(* The window closes one StartupDelay after the last input, no sooner and   *)
(* at most one round of the waiting loop later, for every width of the      *)
(* counter and wherever in its range the counter is.                        *)
(***************************************************************************)
THEOREM WindowNotTooLate ==
  ASSUME "input" \in Marks PROVE Spec => []WindowClosesInTime
<1>1. TypeOK /\ OpenSince => WindowClosesInTime
  <2> SUFFICES ASSUME TypeOK, OpenSince, window_active
               PROVE  age["input"] < StartupDelay + StepMs + PollMs
    BY DEF WindowClosesInTime
  <2>1. age["input"] \in 0 .. AgeCap
    BY DEF TypeOK
  <2>2. Slack(pc) \in 0 .. StepMs + PollMs
    BY SlackBounds DEF TypeOK
  <2>3. age["input"] < StartupDelay + Slack(pc)
    BY DEF OpenSince
  <2> QED BY <2>1, <2>2, <2>3, Durations DEF DurationsTyped
<1> QED BY <1>1, TypeCorrect, OpenSinceInvariant, PTL

THEOREM WindowNotTooSoon ==
  ASSUME "input" \in Marks PROVE Spec => WindowHonoured
<1> DEFINE A == window_active /\ ~window_active'
                  => age'["input"] >= StartupDelay
<1>1. TypeOK /\ NetworkInv /\ OpenSince /\ [Next]_vars => [A]_vars
  <2> SUFFICES ASSUME TypeOK, NetworkInv, OpenSince, Next,
                      window_active, ~window_active'
               PROVE  age'["input"] >= StartupDelay
    OBVIOUS
  <2> USE DEF window
  <2>1. CASE PollNothing
    <3>1. PollSerial({}) /\ Pass(0, {}) /\ ~WindowOpen(now)
      BY <2>1 DEF PollNothing, PollSerial
    <3>2. age["input"] \in Nat /\ ~(age["input"] < StartupDelay)
      BY <3>1, PollStep
    <3>3. age'["input"] >= age["input"] /\ age'["input"] \in 0 .. AgeCap
      BY <3>1, PassAge
    <3> QED BY <3>2, <3>3, Durations DEF DurationsTyped
  <2>2. CASE ReceiveText \/ ReceiveBlankLine \/ ReceiveLine
    BY <2>2 DEF ReceiveText, ReceiveBlankLine, ReceiveLine, Extend, PollSerial
  <2>3. CASE StartNetwork
    <3>1. ~network_started
      BY <2>3 DEF StartNetwork
    <3>2. age'["input"] \in Nat /\ ~(age'["input"] < StartupDelay)
      BY <2>3, <3>1, StartStep
    <3> QED BY <3>2, Durations DEF DurationsTyped
  <2>4. CASE DecideSync
    BY <2>4 DEF DecideSync, NetworkInv, NetworkWaitsForWindow
  <2>5. CASE Start \/ Render \/ SkipService \/ BeginService
    BY <2>5 DEF Start, Render, SkipService, BeginService
  <2>6. CASE ConnectOk \/ ConnectFail \/ NtpOk \/ NtpFail
    BY <2>6 DEF ConnectOk, ConnectFail, WifiConnect, NtpOk, NtpFail, NtpReturns
  <2>7. CASE Sleep \/ LinkLost \/ PowerCycle
    BY <2>7 DEF Sleep, LinkLost, PowerCycle
  <2> QED BY <2>1, <2>2, <2>3, <2>4, <2>5, <2>6, <2>7 DEF Next, Loop
<1> QED BY <1>1, TypeCorrect, NetworkInvariant, OpenSinceInvariant, PTL
        DEF WindowHonoured, Spec
-----------------------------------------------------------------------------
(***************************************************************************)
(* The clock in true time.                                                  *)
(***************************************************************************)

ClockOrigin ==
  clock.has_time /\ age["sync"] < Modulus =>
    now = Later(clock.boot_ms, age["sync"]) /\ clock.last_sync_ms = clock.boot_ms

LEMMA PassKeepsClock ==
  ASSUME TypeOK, "sync" \in Marks, ClockOrigin,
         NEW d \in Nat, NEW fresh, "sync" \notin fresh, Pass(d, fresh),
         clock' = clock
  PROVE  ClockOrigin'
<1> SUFFICES ASSUME clock.has_time, age'["sync"] < Modulus
             PROVE  /\ now' = Later(clock.boot_ms, age'["sync"])
                    /\ clock.last_sync_ms = clock.boot_ms
  BY DEF ClockOrigin
<1>1. age["sync"] \in 0 .. AgeCap /\ age'["sync"] \in 0 .. AgeCap
      /\ age'["sync"] >= age["sync"]
  BY PassAge
<1>2. /\ AgeCap \in Nat /\ Modulus \in Nat /\ Modulus <= AgeCap
      /\ clock.boot_ms \in Int
  BY Durations, RuntimeAssumption, ModulusAssumption
  DEF TypeOK, Clocks, Ms, DurationsTyped
<1>3. age["sync"] < Modulus /\ age'["sync"] < AgeCap
  BY <1>1, <1>2
<1>4. age'["sync"] = age["sync"] + d
  BY <1>3, PassAge
<1>5. now = Later(clock.boot_ms, age["sync"])
      /\ clock.last_sync_ms = clock.boot_ms
  BY <1>3 DEF ClockOrigin
<1>6. now' = Later(clock.boot_ms, age["sync"] + d)
  <2>1. age["sync"] \in Int /\ d \in Int
    BY <1>1, <1>2
  <2>2. Later(Later(clock.boot_ms, age["sync"]), d)
          = Later(clock.boot_ms, age["sync"] + d)
    BY <1>2, <2>1, LaterLater
  <2> QED BY <1>5, <2>2 DEF Pass
<1> QED BY <1>4, <1>5, <1>6

LEMMA ClockOriginStep ==
  ASSUME "sync" \in Marks
  PROVE  TypeOK /\ TypeOK' /\ ClockOrigin /\ [Next]_vars => ClockOrigin'
<1> SUFFICES ASSUME TypeOK, TypeOK', ClockOrigin, [Next]_vars
             PROVE  ClockOrigin'
  OBVIOUS
<1>1. \A d \in 0 .. StepMs : d \in Nat
  BY Durations DEF DurationsTyped
<1>2. \A d \in 0 .. ConnectMs : d \in Nat
  BY Durations DEF DurationsTyped
<1>3. \A d \in 0 .. NtpMs : d \in Nat
  BY Durations DEF DurationsTyped
<1>4. CASE Start \/ StartNetwork \/ SkipService \/ BeginService
  <2>1. clock' = clock /\ \E d \in 0 .. StepMs : Pass(d, {})
    BY <1>4 DEF Start, StartNetwork, SkipService, BeginService
  <2> QED BY <1>1, <2>1, PassKeepsClock
<1>5. CASE PollNothing \/ ReceiveText \/ ReceiveBlankLine \/ ReceiveLine
  <2>1. PICK fresh \in {{}, {"input"}} : PollSerial(fresh)
    BY <1>5 DEF PollNothing, ReceiveText, ReceiveBlankLine, ReceiveLine, Extend
  <2>2. clock' = clock /\ Pass(0, fresh) /\ "sync" \notin fresh
    BY <2>1 DEF PollSerial
  <2> QED BY <2>2, PassKeepsClock
<1>6. CASE Render \/ DecideSync
  <2>1. PICK fresh \in {{}, {"render"}} : Pass(0, fresh)
    BY <1>6 DEF Render, DecideSync
  <2>2. clock' = clock /\ "sync" \notin fresh
    BY <1>6, <2>1 DEF Render, DecideSync
  <2> QED BY <2>1, <2>2, PassKeepsClock
<1>7. CASE ConnectOk \/ ConnectFail
  <2>1. clock' = clock /\ \E d \in 0 .. ConnectMs : Pass(d, {})
    BY <1>7 DEF ConnectOk, ConnectFail, WifiConnect
  <2> QED BY <1>2, <2>1, PassKeepsClock
<1>8. CASE NtpFail
  <2>1. clock' = clock /\ \E d \in 0 .. NtpMs : Pass(d, {})
    BY <1>8 DEF NtpFail, NtpReturns
  <2> QED BY <1>3, <2>1, PassKeepsClock
<1>9. CASE NtpOk
  <2>1. /\ clock' = Synced(clock, now')
        /\ \E d \in 0 .. NtpMs : Pass(d, {"sync"})
    BY <1>9 DEF NtpOk, NtpReturns
  <2>2. age'["sync"] = 0 /\ now' \in Ms
    BY <1>3, <2>1, PassAge DEF TypeOK
  <2>3. clock'.boot_ms = now' /\ clock'.last_sync_ms = now'
    BY <2>1 DEF Synced
  <2> QED BY <2>2, <2>3, LaterZero DEF ClockOrigin
<1>10. CASE Sleep
  <2>1. PICK d \in {RefreshMs, PollMs} : clock' = clock /\ Pass(d, {})
    BY <1>10 DEF Sleep
  <2>2. d \in Nat
    BY Durations DEF DurationsTyped
  <2> QED BY <2>1, <2>2, PassKeepsClock
<1>11. CASE LinkLost \/ UNCHANGED vars
  BY <1>11 DEF LinkLost, vars, ClockOrigin
<1>12. CASE PowerCycle
  BY <1>12 DEF PowerCycle, ClockInit, ClockOrigin
<1> QED BY <1>4, <1>5, <1>6, <1>7, <1>8, <1>9, <1>10, <1>11, <1>12
        DEF Next, Loop

LEMMA ClockOriginInvariant ==
  ASSUME "sync" \in Marks PROVE Spec => []ClockOrigin
<1>1. Init => ClockOrigin
  BY DEF Init, ClockInit, ClockOrigin
<1>2. TypeOK /\ TypeOK' /\ ClockOrigin /\ [Next]_vars => ClockOrigin'
  BY ClockOriginStep
<1> QED BY <1>1, <1>2, TypeCorrect, PTL DEF Spec

(* A reading of the clock is its age, until the counter has gone once round. *)
LEMMA ReadingIsAge ==
  ASSUME TypeOK, "sync" \in Marks, ClockOrigin,
         clock.has_time, age["sync"] < Modulus
  PROVE  /\ Since(now, clock.boot_ms) = age["sync"]
         /\ Since(now, clock.last_sync_ms) = age["sync"]
<1>1. age["sync"] \in Ms /\ clock.boot_ms \in Int
  BY ModulusAssumption, Durations DEF TypeOK, Clocks, Ms, DurationsTyped
<1> QED BY <1>1, SinceLater DEF ClockOrigin

(***************************************************************************)
(* For one full turn of the counter after a synchronisation the clock       *)
(* advances by the true time ...                                            *)
(***************************************************************************)
THEOREM ClockIsAccurate ==
  ASSUME "sync" \in Marks PROVE Spec => []ClockAccurate
<1>1. TypeOK /\ ClockOrigin => ClockAccurate
  BY ReadingIsAge DEF ClockAccurate, ElapsedSeconds
<1> QED BY <1>1, TypeCorrect, ClockOriginInvariant, PTL

(* ... and the next synchronisation is attempted exactly when it is due.    *)
THEOREM SyncIsOnTime ==
  ASSUME "sync" \in Marks PROVE Spec => SyncOnTime
<1> DEFINE A == pc = "sync" /\ pc' \in {"ntp", "sleep"} /\ clock.has_time
                  /\ age["sync"] < Modulus
                => (pc' = "ntp" <=> age["sync"] >= clock.sync_interval_ms)
<1>1. TypeOK /\ NetworkInv /\ ClockOrigin /\ [Next]_vars => [A]_vars
  <2> SUFFICES ASSUME TypeOK, NetworkInv, ClockOrigin, Next,
                      pc = "sync", pc' \in {"ntp", "sleep"},
                      clock.has_time, age["sync"] < Modulus
               PROVE  pc' = "ntp" <=> age["sync"] >= clock.sync_interval_ms
    OBVIOUS
  <2>1. DecideSync
    BY DEF Next, Loop, Start, PollNothing, ReceiveText, ReceiveBlankLine,
           ReceiveLine, Extend, PollSerial, StartNetwork, Render, SkipService,
           BeginService, ConnectOk, ConnectFail, WifiConnect, NtpOk, NtpFail,
           NtpReturns, Sleep, LinkLost, PowerCycle
  <2>2. ~window_active'
    BY <2>1 DEF DecideSync, WindowOpen, NetworkInv, NetworkWaitsForWindow
  <2>3. pc' = "ntp" <=> SyncDue(clock, now)
    BY <2>1, <2>2 DEF DecideSync
  <2>4. SyncDue(clock, now) <=> age["sync"] >= clock.sync_interval_ms
    BY ReadingIsAge DEF SyncDue
  <2> QED BY <2>3, <2>4
<1> QED BY <1>1, TypeCorrect, NetworkInvariant, ClockOriginInvariant, PTL
        DEF SyncOnTime, Spec
=============================================================================
