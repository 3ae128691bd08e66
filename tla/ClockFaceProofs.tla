-------------------------- MODULE ClockFaceProofs --------------------------
(***************************************************************************)
(* Theorems about what the clock shows, for every size of the frame, every  *)
(* time zone and every reading, including the times before 1970 and after   *)
(* 2038 that TLC's integers do not reach.                                   *)
(*                                                                          *)
(* days_to_date consists of three while loops, here recursive functions.    *)
(* LoopExists says that such a function satisfies its equation; what the    *)
(* loop ends with is then proved by taking the least number of days left    *)
(* for which it would be wrong, and doing one more step of the loop.        *)
(***************************************************************************)
EXTENDS ClockFace, TLAPS, WellFoundedInduction

(* / and % of C round towards zero; clock_normalize_day_seconds makes them  *)
(* the day and the second of the local time, before 1970 as well.           *)
THEOREM NormalizedIsFloor ==
  ASSUME NEW n \in Int
  PROVE  /\ Normalized(n).day = n \div DaySeconds
         /\ Normalized(n).second = n % DaySeconds
<1> DEFINE q == Quotient(n, DaySeconds)
           r == Remainder(n, DaySeconds)
<1>1. CASE n >= 0
  <2>1. q = n \div DaySeconds /\ r = n % DaySeconds /\ r >= 0
    BY <1>1 DEF Quotient, Remainder, DaySeconds
  <2> QED BY <2>1 DEF Normalized, DaySeconds
<1>2. CASE n < 0
  <2>1. /\ r < 0  => q - 1 = n \div DaySeconds /\ r + DaySeconds = n % DaySeconds
        /\ r >= 0 => q = n \div DaySeconds /\ r = n % DaySeconds
        /\ r \in Int
    BY <1>2 DEF Quotient, Remainder, DaySeconds
  <2> QED BY <2>1 DEF Normalized
<1> QED BY <1>1, <1>2

(* 1970-01-01 was a Thursday, and the weekdays of the days before it are    *)
(* counted backwards (clock_weekday_index).                                 *)
THEOREM WeekdayIsFloor ==
  ASSUME NEW d \in Int PROVE Weekday(d) = (d + 4) % 7 /\ Weekday(d) \in 0 .. 6
BY DEF Weekday, Remainder, Quotient

LEMMA TimeOfDayAdds ==
  ASSUME NEW s \in 0 .. DaySeconds - 1
  PROVE  /\ TimeOfDay(s) \in (0 .. 23) \X (0 .. 59) \X (0 .. 59)
         /\ TimeOfDay(s)[1] * 3600 + TimeOfDay(s)[2] * 60 + TimeOfDay(s)[3] = s
<1> DEFINE h == s \div 3600
           r == s % 3600
           m == r \div 60
<1>1. h \in 0 .. 23 /\ r \in 0 .. 3599 /\ s = 3600 * h + r
  BY DEF DaySeconds
<1> HIDE DEF h, r
<1>2. m \in 0 .. 59 /\ r % 60 \in 0 .. 59 /\ r = 60 * m + (r % 60)
  BY <1>1
<1>3. s % 60 = r % 60
  <2>1. s = 60 * (60 * h + m) + (r % 60) /\ 60 * h + m \in Int
    BY <1>1, <1>2
  <2> HIDE DEF m
  <2> QED BY <1>2, <2>1
<1> HIDE DEF m
<1>4. TimeOfDay(s) = <<h, m, s % 60>>
  BY DEF TimeOfDay, HourSeconds, h, r, m
<1> QED BY <1>1, <1>2, <1>3, <1>4

LEMMA SecondOfDay ==
  ASSUME NEW n \in Int PROVE n % DaySeconds \in 0 .. DaySeconds - 1
<1>1. \A m \in Nat \ {0} : n % m \in 0 .. m - 1
  BY Z3
<1>2. DaySeconds \in Nat \ {0}
  BY DEF DaySeconds
<1> QED BY <1>1, <1>2, Zenon

LEMMA LocalTimeAdds ==
  ASSUME NEW n \in Int, NEW t, t = TimeOfDay(Normalized(n).second)
  PROVE  t[1] * 3600 + t[2] * 60 + t[3] = n % DaySeconds
<1> DEFINE s == n % DaySeconds
<1>1. Normalized(n).second = s
  BY NormalizedIsFloor, Zenon
<1>2. s \in 0 .. DaySeconds - 1
  BY SecondOfDay, Zenon
<1> HIDE DEF s
<1>3. t[1] * 3600 + t[2] * 60 + t[3] = s
  BY <1>1, <1>2, TimeOfDayAdds
<1> QED BY <1>3 DEF s

(* Two refreshes within an hour that fall into different local days: the    *)
(* date is shown at both (clock_should_show_date).                          *)
THEOREM MidnightInSight ==
  ASSUME NEW before \in Int, NEW after \in Int, NEW zone \in Int,
         NEW m \in {"on", "auto"},
         after - before \in 1 .. HourSeconds,
         (after + zone) \div DaySeconds # (before + zone) \div DaySeconds
  PROVE  ShouldShowDate(before, zone, m) /\ ShouldShowDate(after, zone, m)
<1> DEFINE b == (before + zone) % DaySeconds
           a == (after + zone) % DaySeconds
<1>1. b >= 23 * HourSeconds /\ a <= HourSeconds
  BY DEF DaySeconds, HourSeconds
<1>2. before + zone \in Int /\ after + zone \in Int
  OBVIOUS
<1>3. /\ Normalized(before + zone).second = b
      /\ Normalized(after + zone).second = a
  BY <1>2, NormalizedIsFloor, Zenon
<1> QED BY <1>1, <1>3 DEF ShouldShowDate
-----------------------------------------------------------------------------
(***************************************************************************)
(* Loops.                                                                   *)
(***************************************************************************)
(* Every set of natural numbers has a least one. *)
LEMMA LeastElement ==
  ASSUME NEW T \in SUBSET Nat, T # {} PROVE \E n \in T : \A m \in T : n <= m
<1>1. \E n \in T : \A m \in T : <<m, n>> \notin OpToRel(<, Nat)
  BY WFMin, NatLessThanWellFounded
<1>2. ASSUME NEW n \in Nat, NEW m \in Nat, m < n
      PROVE  <<m, n>> \in OpToRel(<, Nat)
  <2>1. <<m, n>> \in {p \in Nat \X Nat : p[1] < p[2]}
    BY <1>2
  <2> QED BY <2>1, Zenon DEF OpToRel
<1>3. \A n, m \in Nat : ~(m < n) => n <= m
  OBVIOUS
<1> QED BY <1>1, <1>2, <1>3

(* A while loop: as long as the state is in G, step rewrites it.  The       *)
(* recursive function that says so exists, whether or not the loop ends.    *)
IsLoop(f, S, G, step) == f = [x \in S |-> IF x \in G THEN f[step[x]] ELSE x]

LEMMA LoopExists ==
  ASSUME NEW S, NEW G \in SUBSET S, NEW step \in [G -> S]
  PROVE  \E f : IsLoop(f, S, G, step)
<1> DEFINE Closed == {C \in SUBSET S : \A x \in C : x \in G => step[x] \in C}
           Reach(x) == {y \in S : \A C \in Closed : x \in C => y \in C}
           Ends(x) == Reach(x) \ G
           f == [x \in S |-> IF x \in G THEN CHOOSE y : y \in Ends(x) ELSE x]
<1>1. ASSUME NEW x \in G PROVE Ends(x) = Ends(step[x])
  <2>0. x \in S /\ step[x] \in S
    OBVIOUS
  <2>1. Reach(step[x]) \subseteq Reach(x)
    BY <2>0
  <2>2. Reach(x) \subseteq Reach(step[x]) \union {x}
    <3> DEFINE C == Reach(step[x]) \union {x}
    <3>1. C \in Closed
      <4>1. C \in SUBSET S
        BY <2>0
      <4>2. ASSUME NEW y \in C, y \in G PROVE step[y] \in C
        <5>1. CASE y = x
          BY <5>1, <2>0
        <5>2. CASE y \in Reach(step[x])
          <6>1. step[y] \in S BY <4>2
          <6>2. ASSUME NEW D \in Closed, step[x] \in D PROVE step[y] \in D
            BY <6>2, <5>2, <4>2
          <6> QED BY <6>1, <6>2
        <5> QED BY <5>1, <5>2
      <4> QED BY <4>1, <4>2
    <3>2. x \in C OBVIOUS
    <3> HIDE DEF C
    <3>3. Reach(x) \subseteq C BY <3>1, <3>2
    <3> QED BY <3>3 DEF C
  <2> HIDE DEF Reach
  <2> QED BY <2>1, <2>2
<1>2. ASSUME NEW x \in S, x \notin G PROVE x = CHOOSE y : y \in Ends(x)
  <2>1. {x} \in Closed BY <1>2
  <2>2. Reach(x) = {x} BY <2>1
  <2> HIDE DEF Reach
  <2>3. Ends(x) = {x} BY <1>2, <2>2
  <2> QED BY <2>3
<1> HIDE DEF Ends
<1>3. \A x \in S : f[x] = CHOOSE y : y \in Ends(x)
  BY <1>2
<1>4. IsLoop(f, S, G, step)
  BY <1>1, <1>3 DEF IsLoop
<1> QED BY <1>4
-----------------------------------------------------------------------------
(* The calendar *)
LEMMA YearLength ==
  /\ \A y \in Int : DaysInYear(y) \in {365, 366}
  /\ \A y, m \in Int : DaysInMonth(y, m) \in 28 .. 31
BY DEF DaysInYear, DaysInMonth, IsLeapYear

LEMMA YearUpStep ==
  ASSUME NEW y \in Int, NEW d \in Int
  PROVE  YearUp[<<y, d>>] = IF d < DaysInYear(y) THEN <<y, d>>
                            ELSE YearUp[<<y + 1, d - DaysInYear(y)>>]
<1> DEFINE S == Int \X Int
           G == {s \in S : s[2] >= DaysInYear(s[1])}
           step == [s \in G |-> <<s[1] + 1, s[2] - DaysInYear(s[1])>>]
           Loop(f) == [yd \in S |-> IF yd[2] < DaysInYear(yd[1]) THEN yd
                        ELSE f[<<yd[1] + 1, yd[2] - DaysInYear(yd[1])>>]]
<1>0. G \in SUBSET S
  OBVIOUS
<1>1. step \in [G -> S]
  BY YearLength
<1>2. PICK f : IsLoop(f, S, G, step)
  <2> HIDE DEF S, G, step, Loop
  <2> QED BY <1>0, <1>1, LoopExists
<1>3. f = Loop(f)
  <2>1. \A s \in S : (IF s \in G THEN f[step[s]] ELSE s)
          = IF s[2] < DaysInYear(s[1]) THEN s
            ELSE f[<<s[1] + 1, s[2] - DaysInYear(s[1])>>]
     BY YearLength
  <2> HIDE DEF G, step
  <2> QED BY <2>1, <1>2 DEF IsLoop
<1>4. YearUp = Loop(YearUp)
  BY <1>3, Zenon DEF YearUp
<1> HIDE DEF G, step
<1> QED BY <1>4

LEMMA YearDownStep ==
  ASSUME NEW y \in Int, NEW d \in Int
  PROVE  YearDown[<<y, d>>] = IF d >= 0 THEN <<y, d>>
                              ELSE YearDown[<<y - 1, d + DaysInYear(y - 1)>>]
<1> DEFINE S == Int \X Int
           G == {s \in S : s[2] < 0}
           step == [s \in G |-> <<s[1] - 1, s[2] + DaysInYear(s[1] - 1)>>]
           Loop(f) == [yd \in S |-> IF yd[2] >= 0 THEN yd
                        ELSE f[<<yd[1] - 1, yd[2] + DaysInYear(yd[1] - 1)>>]]
<1>0. G \in SUBSET S
  OBVIOUS
<1>1. step \in [G -> S]
  BY YearLength
<1>2. PICK f : IsLoop(f, S, G, step)
  <2> HIDE DEF S, G, step, Loop
  <2> QED BY <1>0, <1>1, LoopExists
<1>3. f = Loop(f)
  <2>1. \A s \in S : (IF s \in G THEN f[step[s]] ELSE s)
          = IF s[2] >= 0 THEN s
            ELSE f[<<s[1] - 1, s[2] + DaysInYear(s[1] - 1)>>]
     BY YearLength
  <2> HIDE DEF G, step
  <2> QED BY <2>1, <1>2 DEF IsLoop
<1>4. YearDown = Loop(YearDown)
  BY <1>3, Zenon DEF YearDown
<1> HIDE DEF G, step
<1> QED BY <1>4

LEMMA MonthUpStep ==
  ASSUME NEW y \in Int, NEW m \in Int, NEW d \in Int
  PROVE  MonthUp[<<y, m, d>>] =
           IF d < DaysInMonth(y, m) THEN <<y, m, d>>
           ELSE MonthUp[<<y, m + 1, d - DaysInMonth(y, m)>>]
<1> DEFINE S == Int \X Int \X Int
           G == {s \in S : s[3] >= DaysInMonth(s[1], s[2])}
           step == [s \in G |-> <<s[1], s[2] + 1, s[3] - DaysInMonth(s[1], s[2])>>]
           Loop(f) == [ymd \in S |-> IF ymd[3] < DaysInMonth(ymd[1], ymd[2]) THEN ymd
                 ELSE f[<<ymd[1], ymd[2] + 1, ymd[3] - DaysInMonth(ymd[1], ymd[2])>>]]
<1>0. G \in SUBSET S
  OBVIOUS
<1>1. step \in [G -> S]
  BY YearLength
<1>2. PICK f : IsLoop(f, S, G, step)
  <2> HIDE DEF S, G, step, Loop
  <2> QED BY <1>0, <1>1, LoopExists
<1>3. f = Loop(f)
  <2>1. \A s \in S : (IF s \in G THEN f[step[s]] ELSE s)
          = IF s[3] < DaysInMonth(s[1], s[2]) THEN s
            ELSE f[<<s[1], s[2] + 1, s[3] - DaysInMonth(s[1], s[2])>>]
     BY YearLength
  <2> HIDE DEF G, step
  <2> QED BY <2>1, <1>2 DEF IsLoop
<1>4. MonthUp = Loop(MonthUp)
  BY <1>3, Zenon DEF MonthUp
<1> HIDE DEF G, step
<1> QED BY <1>4
-----------------------------------------------------------------------------
(* DayNumber goes on from month to month and from year to year. *)
LeapDays(y) == (y \div 4) - (y \div 100) + (y \div 400)

LEMMA Multiples ==
  ASSUME NEW n \in Int, NEW k \in Nat \ {0}
  PROVE  /\ n \div k \in Int
         /\ (n \div k) - ((n - 1) \div k) = IF n % k = 0 THEN 1 ELSE 0
BY Z3

LEMMA LeapDayAdds ==
  ASSUME NEW y \in Int
  PROVE  /\ LeapDays(y) \in Int
         /\ LeapDays(y) - LeapDays(y - 1) = IF IsLeapYear(y) THEN 1 ELSE 0
<1>1. /\ y % 400 = 0 => y % 100 = 0
      /\ y % 100 = 0 => y % 4 = 0
  BY Z3
<1>2. /\ (y \div 4) - ((y - 1) \div 4) = IF y % 4 = 0 THEN 1 ELSE 0
      /\ (y \div 100) - ((y - 1) \div 100) = IF y % 100 = 0 THEN 1 ELSE 0
      /\ (y \div 400) - ((y - 1) \div 400) = IF y % 400 = 0 THEN 1 ELSE 0
  BY Multiples
<1>3. y - 1 \in Int
  OBVIOUS
<1>4. /\ y \div 4 \in Int /\ y \div 100 \in Int /\ y \div 400 \in Int
      /\ (y - 1) \div 4 \in Int /\ (y - 1) \div 100 \in Int
      /\ (y - 1) \div 400 \in Int
  BY <1>3, Multiples
<1> DEFINE a == y \div 4    b == y \div 100    c == y \div 400
           p == (y - 1) \div 4    q == (y - 1) \div 100    r == (y - 1) \div 400
           i == y % 4    j == y % 100    l == y % 400
<1>5. /\ LeapDays(y) = a - b + c /\ LeapDays(y - 1) = p - q + r
      /\ IsLeapYear(y) <=> l = 0 \/ (i = 0 /\ j # 0)
  BY DEF LeapDays, IsLeapYear
<1> HIDE DEF a, b, c, p, q, r, i, j, l
<1> QED BY <1>1, <1>2, <1>4, <1>5 DEF a, b, c, p, q, r, i, j, l

LEMMA MonthLength ==
  ASSUME NEW y, NEW m
  PROVE  /\ m = 2 => DaysInMonth(y, m) = IF IsLeapYear(y) THEN 29 ELSE 28
         /\ m \in {4, 6, 9, 11} => DaysInMonth(y, m) = 30
         /\ m \notin {2, 4, 6, 9, 11} => DaysInMonth(y, m) = 31
BY DEF DaysInMonth

(* The number of the first day of a month. *)
MonthStart(y, m) == DayNumber(<<y, m, 1>>)

LEMMA MonthAdds ==
  ASSUME NEW y \in Int, NEW m \in 1 .. 12
  PROVE  /\ MonthStart(y, m) \in Int
         /\ m < 12 => MonthStart(y, m + 1) = MonthStart(y, m) + DaysInMonth(y, m)
         /\ m = 12 => MonthStart(y + 1, 1) = MonthStart(y, m) + DaysInMonth(y, m)
<1> DEFINE C == LeapDays(y)
           B == LeapDays(y - 1)
           first(n) == MonthStart(y, n)
<1>1. C \in Int /\ B \in Int /\ C - B = IF IsLeapYear(y) THEN 1 ELSE 0
  <2>1. y - 1 \in Int
    OBVIOUS
  <2> QED BY <2>1, LeapDayAdds
<1>2. /\ first(1) = 365 * (y - 1) + B + 307 - 719469
      /\ first(2) = 365 * (y - 1) + B + 338 - 719469
      /\ first(3) = 365 * y + C + 1 - 719469
      /\ first(4) = 365 * y + C + 32 - 719469
      /\ first(5) = 365 * y + C + 62 - 719469
      /\ first(6) = 365 * y + C + 93 - 719469
  BY SMT DEF MonthStart, DayNumber, LeapDays
<1>3. /\ first(7) = 365 * y + C + 123 - 719469
      /\ first(8) = 365 * y + C + 154 - 719469
      /\ first(9) = 365 * y + C + 185 - 719469
      /\ first(10) = 365 * y + C + 215 - 719469
      /\ first(11) = 365 * y + C + 246 - 719469
      /\ first(12) = 365 * y + C + 276 - 719469
  BY SMT DEF MonthStart, DayNumber, LeapDays
<1>4. MonthStart(y + 1, 1) = 365 * y + C + 307 - 719469
  <2>1. y + 1 \in Int /\ (y + 1) - 1 = y
    OBVIOUS
  <2> QED BY <2>1, SMT DEF MonthStart, DayNumber, LeapDays
<1> HIDE DEF C, B
<1> QED BY <1>1, <1>2, <1>3, <1>4, MonthLength, SMT

LEMMA YearAdds ==
  ASSUME NEW y \in Int
  PROVE  /\ MonthStart(y, 1) \in Int
         /\ MonthStart(y + 1, 1) = MonthStart(y, 1) + DaysInYear(y)
<1> DEFINE first(n) == MonthStart(y, n)
<1>1. /\ first(2) = first(1) + 31
      /\ first(3) = first(2) + IF IsLeapYear(y) THEN 29 ELSE 28
      /\ first(4) = first(3) + 31 /\ first(5) = first(4) + 30
      /\ first(6) = first(5) + 31 /\ first(7) = first(6) + 30
      /\ first(8) = first(7) + 31 /\ first(9) = first(8) + 31
      /\ first(10) = first(9) + 30 /\ first(11) = first(10) + 31
      /\ first(12) = first(11) + 30
  <2>1. \A m \in 1 .. 11 : MonthStart(y, m + 1) = MonthStart(y, m) + DaysInMonth(y, m)
    <3> SUFFICES ASSUME NEW m \in 1 .. 11
                 PROVE  MonthStart(y, m + 1) = MonthStart(y, m) + DaysInMonth(y, m)
      OBVIOUS
    <3>1. m \in 1 .. 12 /\ m < 12
      OBVIOUS
    <3> QED BY <3>1, MonthAdds, Zenon
  <2> QED BY <2>1, MonthLength, SMT
<1>2. first(1) \in Int /\ MonthStart(y + 1, 1) = first(12) + 31
  <2>1. 1 \in 1 .. 12 /\ 12 \in 1 .. 12 /\ 12 \notin {2, 4, 6, 9, 11}
    OBVIOUS
  <2>2. DaysInMonth(y, 12) = 31
    BY <2>1, MonthLength, Zenon
  <2> QED BY <2>1, <2>2, MonthAdds, Zenon
<1> HIDE DEF first
<1> QED BY <1>1, <1>2 DEF first, DaysInYear

(* What is left of the days falls into year r[1], and the day that r stands *)
(* for is d days after the first of year y.                                 *)
YearFound(r, y, d) ==
  /\ r \in Int \X Nat /\ r[2] < DaysInYear(r[1])
  /\ MonthStart(r[1], 1) + r[2] = MonthStart(y, 1) + d

(* The first loop counts up to the year of a day from 1970 on. *)
LEMMA YearUpFinds ==
  ASSUME NEW y \in Int, NEW d \in Nat PROVE YearFound(YearUp[<<y, d>>], y, d)
<1> DEFINE Bad == {n \in Nat : \E z \in Int : ~ YearFound(YearUp[<<z, n>>], z, n)}
<1>1. SUFFICES ASSUME Bad # {} PROVE FALSE
  OBVIOUS
<1>2. PICK n \in Bad : \A k \in Bad : n <= k
  BY <1>1, LeastElement
<1>3. PICK z \in Int : ~ YearFound(YearUp[<<z, n>>], z, n)
  OBVIOUS
<1>4. n \in Nat /\ DaysInYear(z) \in {365, 366}
  BY YearLength
<1>5. CASE n < DaysInYear(z)
  <2>1. n \in Int
    BY <1>4
  <2>2. YearUp[<<z, n>>] = <<z, n>>
    BY <2>1, <1>5, YearUpStep, Zenon
  <2> QED BY <2>2, <1>3, <1>4, <1>5 DEF YearFound
<1>6. CASE n >= DaysInYear(z)
  <2> DEFINE k == n - DaysInYear(z)
  <2>1. k \in Nat /\ k < n
    BY <1>4, <1>6
  <2>2. z + 1 \in Int /\ YearFound(YearUp[<<z + 1, k>>], z + 1, k)
    BY <2>1, <1>2
  <2>3. YearUp[<<z, n>>] = YearUp[<<z + 1, k>>]
    BY <1>4, <1>6, YearUpStep
  <2>4. MonthStart(z + 1, 1) + k = MonthStart(z, 1) + n
    BY <1>4, YearAdds
  <2> HIDE DEF k
  <2> QED BY <1>3, <2>2, <2>3, <2>4 DEF YearFound
<1> QED BY <1>4, <1>5, <1>6

(* The second counts down to it, from 1970 to the years before. *)
LEMMA YearDownFinds ==
  ASSUME NEW y \in Int, NEW d \in Int, d < DaysInYear(y)
  PROVE  YearFound(YearDown[<<y, d>>], y, d)
<1> DEFINE Bad == {n \in Nat : \E z \in Int : ~ YearFound(YearDown[<<z, 0 - n>>], z, 0 - n)}
<1>1. ASSUME NEW z \in Int, NEW n \in Nat, n < DaysInYear(z)
      PROVE  YearFound(YearDown[<<z, n>>], z, n)
  <2>1. n \in Int /\ n >= 0
    OBVIOUS
  <2>2. YearDown[<<z, n>>] = <<z, n>>
    BY <2>1, YearDownStep, Zenon
  <2> QED BY <2>2, <1>1 DEF YearFound
<1>2. SUFFICES ASSUME Bad # {} PROVE FALSE
  <2>1. CASE d \in Nat
    BY <2>1, <1>1
  <2>2. CASE d \notin Nat
    <3>1. 0 - d \in Nat /\ 0 - (0 - d) = d
      BY <2>2
    <3> QED BY <3>1, <1>2
  <2> QED BY <2>1, <2>2
<1>3. PICK n \in Bad : \A k \in Bad : n <= k
  BY <1>2, LeastElement
<1>4. PICK z \in Int : ~ YearFound(YearDown[<<z, 0 - n>>], z, 0 - n)
  OBVIOUS
<1>5. n \in Nat /\ z - 1 \in Int
  OBVIOUS
<1>6. DaysInYear(z) \in {365, 366} /\ DaysInYear(z - 1) \in {365, 366}
  BY <1>5, YearLength
<1>7. n > 0
  <2>1. ASSUME n = 0 PROVE FALSE
    <3>1. 0 - n = n
      BY <2>1, <1>5
    <3> QED BY <3>1, <1>1, <1>4, <1>6, <2>1
  <2> QED BY <2>1, <1>5
<1> DEFINE k == DaysInYear(z - 1) - n
<1>8. YearDown[<<z, 0 - n>>] = YearDown[<<z - 1, k>>]
  <2>1. 0 - n \in Int /\ ~ (0 - n >= 0) /\ (0 - n) + DaysInYear(z - 1) = k
    BY <1>5, <1>6, <1>7
  <2> HIDE DEF k
  <2> QED BY <2>1, YearDownStep, Zenon
<1>9. k \in Int /\ k < DaysInYear(z - 1) /\ MonthStart(z - 1, 1) + k = MonthStart(z, 1) + (0 - n)
  <2>1. MonthStart(z, 1) = MonthStart(z - 1, 1) + DaysInYear(z - 1) /\ MonthStart(z - 1, 1) \in Int
    <3>1. (z - 1) + 1 = z
      OBVIOUS
    <3> QED BY <3>1, <1>5, YearAdds
  <2> QED BY <2>1, <1>5, <1>6, <1>7
<1>10. YearFound(YearDown[<<z - 1, k>>], z - 1, k)
  <2>1. CASE k \in Nat
    BY <2>1, <1>1, <1>5, <1>9
  <2>2. CASE k \notin Nat
    <3>1. 0 - k \in Nat /\ 0 - k < n /\ 0 - (0 - k) = k
      BY <2>2, <1>5, <1>6, <1>9
    <3> HIDE DEF k
    <3>2. YearFound(YearDown[<<z - 1, 0 - (0 - k)>>], z - 1, 0 - (0 - k))
      BY <3>1, <1>3, <1>5
    <3> QED BY <3>1, <3>2
  <2> QED BY <2>1, <2>2
<1> HIDE DEF k
<1> QED BY <1>4, <1>8, <1>9, <1>10 DEF YearFound

(* The same for the month. *)
MonthFound(r, y, m, d) ==
  /\ r \in Int \X (1 .. 12) \X Nat /\ r[1] = y /\ r[3] < DaysInMonth(y, r[2])
  /\ MonthStart(y, r[2]) + r[3] = MonthStart(y, m) + d

Room(y, m, d) == MonthStart(y, m) + d < MonthStart(y + 1, 1)

(* The third loop finds the month, and it ends within the year. *)
LEMMA MonthUpFinds ==
  ASSUME NEW y \in Int, NEW d \in Nat, d < DaysInYear(y)
  PROVE  MonthFound(MonthUp[<<y, 1, d>>], y, 1, d)
<1> DEFINE Bad == {n \in Nat : \E m \in 1 .. 12 :
                     Room(y, m, n) /\ ~ MonthFound(MonthUp[<<y, m, n>>], y, m, n)}
<1>1. Room(y, 1, d)
  <2>1. DaysInYear(y) \in Int
    BY YearLength
  <2> QED BY <2>1, YearAdds DEF Room
<1>2. SUFFICES ASSUME Bad # {} PROVE FALSE
  BY <1>1
<1>3. PICK n \in Bad : \A k \in Bad : n <= k
  BY <1>2, LeastElement
<1>4. PICK m \in 1 .. 12 :
        Room(y, m, n) /\ ~ MonthFound(MonthUp[<<y, m, n>>], y, m, n)
  OBVIOUS
<1>5. n \in Nat
  OBVIOUS
<1> HIDE DEF Bad
<1> DEFINE first == MonthStart(y, m)
           length == DaysInMonth(y, m)
<1>6. /\ length \in 28 .. 31 /\ first \in Int
      /\ m < 12 => MonthStart(y, m + 1) = first + length
      /\ m = 12 => MonthStart(y + 1, 1) = first + length
  <2>1. length \in 28 .. 31
    BY YearLength
  <2> QED BY <2>1, MonthAdds, Zenon
<1>7. n >= length
  <2>1. ASSUME n < length PROVE FALSE
    <3>0. m \in Int /\ n \in Int
      BY <1>5
    <3>1. MonthUp[<<y, m, n>>] = <<y, m, n>>
      BY <3>0, <2>1, MonthUpStep, Zenon
    <3> QED BY <3>1, <2>1, <1>4, <1>5 DEF MonthFound
  <2> QED BY <2>1, <1>5, <1>6
<1> DEFINE k == n - length
<1>8. MonthUp[<<y, m, n>>] = MonthUp[<<y, m + 1, k>>]
  BY <1>5, <1>6, <1>7, MonthUpStep
<1> HIDE DEF first, length
<1>9. k \in Nat /\ k < n
  BY <1>5, <1>6, <1>7
<1>10. m # 12
  BY <1>4, <1>5, <1>6, <1>7 DEF Room, first
<1>11. m + 1 \in 1 .. 12 /\ MonthStart(y, m + 1) + k = first + n
  BY <1>5, <1>6, <1>10
<1>12. Room(y, m + 1, k)
  BY <1>11, <1>4 DEF Room, first
<1>13. MonthFound(MonthUp[<<y, m + 1, k>>], y, m + 1, k)
  <2> HIDE DEF k
  <2> SUFFICES ASSUME ~ MonthFound(MonthUp[<<y, m + 1, k>>], y, m + 1, k)
               PROVE  k \in Bad
    BY <1>3, <1>5, <1>9
  <2> QED BY <1>9, <1>11, <1>12 DEF Bad
<1> HIDE DEF k
<1> QED BY <1>4, <1>8, <1>11, <1>13 DEF MonthFound, first

LEMMA DayInMonth ==
  ASSUME NEW t, t[1] \in Int, t[2] \in 1 .. 12, t[3] \in Int
  PROVE  DayNumber(t) = MonthStart(t[1], t[2]) + t[3] - 1
<1> DEFINE y == t[1]
           m == t[2]
           d == t[3]
<1>1. y \in Int /\ y - 1 \in Int
  OBVIOUS
<1>2. LeapDays(y) \in Int /\ LeapDays(y - 1) \in Int
  BY <1>1, LeapDayAdds
<1> DEFINE p == (153 * ((m + 9) % 12) + 2) \div 5
           z == IF m <= 2 THEN y - 1 ELSE y
           count == 365 * z + (z \div 4) - (z \div 100) + (z \div 400) + p
<1>3. p \in Int /\ z \in Int /\ LeapDays(z) \in Int
  BY <1>2
<1>4. DayNumber(t) = count + d - 719469
  BY SMT DEF DayNumber
<1>5. MonthStart(y, m) = count + 1 - 719469
  BY SMT DEF DayNumber, MonthStart
<1> HIDE DEF p, z
<1>6. count \in Int
  BY <1>3, SMT
<1> HIDE DEF count
<1> QED BY <1>4, <1>5, <1>6, SMT

(* days_to_date finds the day, for every number of days since or before 1970. *)
THEOREM DateIsTheDay ==
  ASSUME NEW n \in Int
  PROVE  \E y \in Int, m \in 1 .. 12, d \in 1 .. 31 :
           /\ Date(n) = <<y, m, d>> /\ d <= DaysInMonth(y, m)
           /\ DayNumber(Date(n)) = n
<1> DEFINE yd == IF n >= 0 THEN YearUp[<<1970, n>>] ELSE YearDown[<<1970, n>>]
           ymd == MonthUp[<<yd[1], 1, yd[2]>>]
<1>1. YearFound(yd, 1970, n)
  <2>1. 1970 \in Int /\ 0 < DaysInYear(1970) /\ DaysInYear(1970) \in Int
    BY YearLength
  <2>2. CASE n >= 0
    BY <2>1, <2>2, YearUpFinds
  <2>3. CASE ~ (n >= 0)
    <3>1. n < DaysInYear(1970)
      BY <2>1, <2>3
    <3> QED BY <2>1, <2>3, <3>1, YearDownFinds
  <2> QED BY <2>2, <2>3
<1>2. MonthStart(1970, 1) = 0
  BY SMT DEF MonthStart, DayNumber
<1>3. /\ yd \in Int \X Nat /\ yd[2] < DaysInYear(yd[1])
      /\ MonthStart(yd[1], 1) + yd[2] = n
  BY <1>1, <1>2 DEF YearFound
<1>4. Date(n) = <<ymd[1], ymd[2], ymd[3] + 1>>
  BY DEF Date
<1> HIDE DEF yd
<1>5. yd[1] \in Int /\ yd[2] \in Nat
  BY <1>3
<1>6. MonthFound(ymd, yd[1], 1, yd[2])
  BY <1>3, <1>5, MonthUpFinds
<1> HIDE DEF ymd
<1> DEFINE y == ymd[1]
           m == ymd[2]
           d == ymd[3] + 1
<1>7. /\ y \in Int /\ m \in 1 .. 12 /\ d \in Nat \ {0}
      /\ d <= DaysInMonth(y, m) /\ DaysInMonth(y, m) \in 28 .. 31
      /\ MonthStart(y, m) + (d - 1) = n
  <2>1. ymd \in Int \X (1 .. 12) \X Nat
    BY <1>6 DEF MonthFound
  <2>2. y \in Int /\ m \in 1 .. 12 /\ ymd[3] \in Nat /\ y = yd[1]
    BY <2>1, <1>6 DEF MonthFound
  <2>3. DaysInMonth(y, m) \in 28 .. 31
    BY <2>2, YearLength
  <2>4. ymd[3] < DaysInMonth(y, m) /\ MonthStart(y, m) + ymd[3] = n
    BY <2>2, <1>3, <1>6 DEF MonthFound
  <2> QED BY <2>2, <2>3, <2>4
<1> HIDE DEF y, m, d
<1>8. d \in 1 .. 31
  BY <1>7
<1>9. DayNumber(<<y, m, d>>) = n
  <2>1. DayNumber(<<y, m, d>>) = MonthStart(y, m) + d - 1 /\ MonthStart(y, m) \in Int
    <3> DEFINE t == <<y, m, d>>
    <3>1. d \in Int /\ t[1] = y /\ t[2] = m /\ t[3] = d
      BY <1>8
    <3> HIDE DEF t
    <3>2. DayNumber(t) = MonthStart(y, m) + d - 1
      BY <3>1, <1>7, DayInMonth
    <3> QED BY <3>2, <1>7, MonthAdds, Zenon DEF t
  <2> QED BY <2>1, <1>7, <1>8
<1>10. Date(n) = <<y, m, d>>
  BY <1>4 DEF y, m, d
<1> QED BY <1>7, <1>8, <1>9, <1>10
-----------------------------------------------------------------------------
(***************************************************************************)
(* The layout.                                                              *)
(***************************************************************************)
LEMMA ScaleFits ==
  ASSUME NEW f \in Frames, NEW dated \in BOOLEAN
  PROVE  LET scale == Scale(f, dated)
         IN /\ scale \in Nat \ {0}
            /\ 47 * scale <= f.width /\ 7 * scale <= f.height
            /\ dated => 83 * scale <= f.width /\ 14 * scale + 20 <= f.height
<1>1. f.width \in Nat /\ f.height \in Nat /\ f.width >= 163 /\ f.height >= 114
  BY FaceAssumption
<1>2. CASE dated
  BY <1>1, <1>2 DEF Scale, Smaller, DateLength, TimeLength
<1>3. CASE ~dated
  BY <1>1, <1>3 DEF Scale, Smaller, DateLength, TimeLength
<1> QED BY <1>2, <1>3

(* Nothing of a text lies outside the frame, where display_draw_pixel would *)
(* drop it, and time and date do not overlap, for any frame of at least 163 *)
(* by 114 pixels (display_prepare_layout).                                  *)
THEOREM LayoutFits ==
  ASSUME NEW f \in Frames, NEW dated \in BOOLEAN
  PROVE  /\ Inside(Layout(f, dated).time, f)
         /\ dated => /\ Inside(Layout(f, dated).date, f)
                     /\ Layout(f, dated).time.bottom < Layout(f, dated).date.top
<1> DEFINE scale == Scale(f, dated)
<1>1. f.width \in Nat /\ f.height \in Nat
  BY FaceAssumption
<1>2. /\ scale \in Nat \ {0}
      /\ 47 * scale <= f.width /\ 7 * scale <= f.height
      /\ dated => 83 * scale <= f.width /\ 14 * scale + 20 <= f.height
  BY ScaleFits
<1> DEFINE left(n) == Quotient(f.width - n * scale, 2)
           height == IF dated THEN 14 * scale + 20 ELSE 7 * scale
           top == (f.height - height) \div 2
<1>3. Layout(f, dated) =
        [time |-> [left |-> left(47), top |-> top,
                   right |-> left(47) + 47 * scale, bottom |-> top + 7 * scale],
         date |-> [left |-> left(83), top |-> top + 7 * scale + 20,
                   right |-> left(83) + 81 * scale,
                   bottom |-> top + 14 * scale + 20]]
  BY DEF Layout, TimeLength, DateLength
<1> HIDE DEF scale
<1>4. top \in Nat /\ top + height <= f.height
  BY <1>1, <1>2
<1>5. left(47) \in Nat /\ left(47) + 47 * scale <= f.width
  BY <1>1, <1>2 DEF Quotient
<1>6. dated => left(83) \in Nat /\ left(83) + 83 * scale <= f.width
  BY <1>1, <1>2 DEF Quotient
<1> HIDE DEF left, top
<1> QED BY <1>1, <1>2, <1>3, <1>4, <1>5, <1>6 DEF Inside
-----------------------------------------------------------------------------
(***************************************************************************)
(* The face.                                                                *)
(***************************************************************************)
LEMMA FourFields ==
  ASSUME NEW d \in Seq(Int), Len(d) = 4,
         d[1] \in Int, d[2] \in 1 .. 12, d[3] \in 1 .. 31, d[4] \in 0 .. 6
  PROVE  d \in Int \X (1 .. 12) \X (1 .. 31) \X (0 .. 6)
OBVIOUS

IsTuple(d, y, m, e, w) ==
  /\ d[1] = y /\ d[2] = m /\ d[3] = e /\ d[4] = w
  /\ d \in Int \X (1 .. 12) \X (1 .. 31) \X (0 .. 6) /\ d # << >>

LEMMA DateWithWeekday ==
  ASSUME NEW y \in Int, NEW m \in 1 .. 12, NEW e \in 1 .. 31, NEW w \in 0 .. 6
  PROVE  IsTuple(<<y, m, e>> \o <<w>>, y, m, e, w)
<1> DEFINE d == <<y, m, e>> \o <<w>>
<1>1. m \in Int /\ e \in Int /\ w \in Int
  OBVIOUS
<1>2. d[1] = y /\ d[2] = m /\ d[3] = e /\ d[4] = w
  BY <1>1
<1>3. d \in Seq(Int) /\ Len(d) = 4
  BY <1>1
<1> HIDE DEF d
<1>4. d[1] \in Int /\ d[2] \in 1 .. 12 /\ d[3] \in 1 .. 31 /\ d[4] \in 0 .. 6
  BY <1>2, Zenon
<1>5. d \in Int \X (1 .. 12) \X (1 .. 31) \X (0 .. 6)
  BY <1>3, <1>4, FourFields, Zenon
<1>6. d # << >>
  <2>1. Len(<< >>) = 0 /\ 4 # 0
    OBVIOUS
  <2> QED BY <2>1, <1>3, Zenon
<1> QED BY <1>2, <1>5, <1>6, Zenon DEF IsTuple, d

(* The date of a reading, as Face shows it. *)
LEMMA DateShown ==
  ASSUME NEW n \in Int,
         NEW d, d = Date(Normalized(n).day) \o <<Weekday(Normalized(n).day)>>
  PROVE  /\ IsDate(d) /\ d # NoDate
         /\ DayNumber(d) = n \div DaySeconds
         /\ d[4] = (DayNumber(d) + 4) % 7
<1> DEFINE k == n \div DaySeconds
<1>1. Normalized(n).day = k
  BY NormalizedIsFloor, Zenon
<1>2. k \in Int
  BY DEF DaySeconds
<1> HIDE DEF k
<1>3. PICK y \in Int, m \in 1 .. 12, e \in 1 .. 31 :
        /\ Date(k) = <<y, m, e>> /\ e <= DaysInMonth(y, m)
        /\ DayNumber(Date(k)) = k
  BY <1>2, DateIsTheDay, Zenon
<1>4. Weekday(k) = (k + 4) % 7 /\ Weekday(k) \in 0 .. 6
  BY <1>2, WeekdayIsFloor, Zenon
<1>5. d = <<y, m, e>> \o <<Weekday(k)>>
  BY <1>1, <1>3, Zenon
<1>6. /\ d[1] = y /\ d[2] = m /\ d[3] = e /\ d[4] = Weekday(k)
      /\ d \in Int \X (1 .. 12) \X (1 .. 31) \X (0 .. 6) /\ d # << >>
  <2>1. IsTuple(<<y, m, e>> \o <<Weekday(k)>>, y, m, e, Weekday(k))
    BY <1>4, DateWithWeekday, Zenon
  <2> QED BY <2>1, <1>5, Zenon DEF IsTuple
<1>7. DayNumber(d) = DayNumber(<<y, m, e>>)
  <2> DEFINE t == <<y, m, e>>
  <2>1. e \in Int /\ t[1] = y /\ t[2] = m /\ t[3] = e
    OBVIOUS
  <2> HIDE DEF t
  <2>2. DayNumber(t) = MonthStart(y, m) + e - 1
    BY <2>1, DayInMonth
  <2>3. DayNumber(d) = MonthStart(y, m) + e - 1
    BY <2>1, <1>6, DayInMonth
  <2> QED BY <2>2, <2>3 DEF t
<1>8. DayNumber(d) = k
  BY <1>3, <1>7, Zenon
<1> QED BY <1>3, <1>4, <1>6, <1>8, Zenon DEF IsDate, NoDate, k

(* FaceInv: the face is still the one drawn at `shown', and there is none   *)
(* before the clock has the time.                                           *)
FaceInv ==
  /\ frame \in Frames /\ offset \in Offsets /\ mode \in Modes
  /\ has_time \in BOOLEAN /\ epoch \in Int /\ shown \in Int
  /\ face = Startup \/ face = Face(shown)
  /\ face # Startup => has_time

LEMMA InitFaceInv == Init => FaceInv
<1> SUFFICES ASSUME Init PROVE FaceInv
  OBVIOUS
<1>1. epoch \in Int /\ shown \in Int
  BY DEF Init
<1>2. frame \in Frames /\ offset \in Offsets /\ mode \in Modes /\ has_time = FALSE
  BY DEF Init
<1>3. face = Startup
  BY DEF Init
<1> QED BY <1>1, <1>2, <1>3 DEF FaceInv

LEMMA StepFaceInv == FaceInv /\ [Next]_vars => FaceInv'
<1> SUFFICES ASSUME FaceInv, [Next]_vars PROVE FaceInv'
  OBVIOUS
<1>0. offset \in Int
  BY FaceAssumption DEF FaceInv
<1>1. CASE Sync
  <2>1. epoch' \in Int
    BY <1>1, <1>0, FaceAssumption DEF Sync, FaceInv
  <2>2. face' = face /\ shown' = shown /\ offset' = offset /\ mode' = mode
    BY <1>1 DEF Sync
  <2>3. Face(shown)' = Face(shown)
    BY <2>2 DEF Face
  <2>4. has_time' = TRUE /\ frame' = frame
    BY <1>1 DEF Sync
  <2> QED BY <2>1, <2>2, <2>3, <2>4 DEF FaceInv
<1>2. ASSUME NEW s \in Gaps, Refresh(s) PROVE FaceInv'
  <2>1. s \in Int
    BY FaceAssumption
  <2>2. shown' = epoch' /\ UNCHANGED <<frame, offset, mode, has_time>>
    BY <1>2 DEF Refresh
  <2>3. CASE has_time
    <3>1. epoch' = epoch + s /\ face' = Face(epoch')
      BY <1>2, <2>3 DEF Refresh
    <3>2. Face(shown)' = Face(epoch')
      BY <2>2 DEF Face
    <3>3. epoch' \in Int
      BY <3>1, <2>1 DEF FaceInv
    <3> QED BY <2>2, <2>3, <3>1, <3>2, <3>3 DEF FaceInv
  <2>4. CASE ~has_time
    <3>1. face' = Startup /\ epoch' = epoch
      BY <1>2, <2>4 DEF Refresh
    <3> QED BY <2>2, <3>1 DEF FaceInv
  <2> QED BY <2>3, <2>4
<1>3. CASE UNCHANGED vars
  <2>1. Face(shown)' = Face(shown)
    BY <1>3 DEF vars, Face
  <2> QED BY <2>1, <1>3 DEF vars, FaceInv
<1> QED BY <1>1, <1>2, <1>3 DEF Next

LEMMA FaceInvariant == Spec => []FaceInv
BY InitFaceInv, StepFaceInv, PTL DEF Spec

LEMMA FaceFields ==
  ASSUME NEW n, NEW local, local = Normalized(n + offset)
  PROVE  /\ Face(n).time = TimeOfDay(local.second)
         /\ Face(n).date = IF ShouldShowDate(n, offset, mode)
                           THEN Date(local.day) \o <<Weekday(local.day)>> ELSE NoDate
BY Zenon DEF Face

(* A face shows a time there is and, if any, a date there is.               *)
THEOREM TypeCorrect == Spec => []TypeOK
<1>1. FaceInv => TypeOK
  <2> SUFFICES ASSUME FaceInv, face # Startup
               PROVE  /\ face.time \in (0 .. 23) \X (0 .. 59) \X (0 .. 59)
                      /\ face.date = NoDate \/ IsDate(face.date)
    BY DEF FaceInv, TypeOK
  <2> DEFINE n == shown + offset
             local == Normalized(n)
  <2>1. n \in Int
    BY FaceAssumption DEF FaceInv
  <2>2. /\ face.time = TimeOfDay(local.second)
        /\ \/ face.date = NoDate
           \/ face.date = Date(local.day) \o <<Weekday(local.day)>>
    BY FaceFields, Zenon DEF FaceInv
  <2> HIDE DEF n
  <2>3. local.second \in 0 .. DaySeconds - 1
    BY <2>1, NormalizedIsFloor, SecondOfDay, Zenon
  <2>4. TimeOfDay(local.second) \in (0 .. 23) \X (0 .. 59) \X (0 .. 59)
    <3> HIDE DEF local
    <3> QED BY <2>3, TimeOfDayAdds
  <2> QED BY <2>1, <2>2, <2>4, DateShown, Zenon
<1> QED BY <1>1, FaceInvariant, PTL

(* No text is cut at the edge of the screen, in any mode, at any time.      *)
THEOREM NothingIsCut == Spec => []NothingCut
<1>1. FaceInv => NothingCut
  BY LayoutFits DEF FaceInv, NothingCut
<1> QED BY <1>1, FaceInvariant, PTL

(* The time and the date on the face are those of the local time it was     *)
(* drawn at, whatever the time zone and however far from 1970.              *)
THEOREM FaceIsRight == Spec => []FaceTellsTime
<1>1. FaceInv => FaceTellsTime
  <2> SUFFICES ASSUME FaceInv, face # Startup
               PROVE  LET n == shown + offset
                          t == face.time
                          d == face.date
                      IN /\ t[1] * 3600 + t[2] * 60 + t[3] = n % DaySeconds
                         /\ d # NoDate => /\ DayNumber(d) = n \div DaySeconds
                                          /\ d[4] = (DayNumber(d) + 4) % 7
    BY Zenon DEF FaceTellsTime
  <2> DEFINE n == shown + offset
             local == Normalized(n)
  <2>1. n \in Int
    BY FaceAssumption DEF FaceInv
  <2>2. /\ face.time = TimeOfDay(local.second)
        /\ \/ face.date = NoDate
           \/ face.date = Date(local.day) \o <<Weekday(local.day)>>
    BY FaceFields, Zenon DEF FaceInv
  <2> HIDE DEF n
  <2>3. face.time[1] * 3600 + face.time[2] * 60 + face.time[3] = n % DaySeconds
    <3> DEFINE t == face.time
    <3>1. t = TimeOfDay(Normalized(n).second)
      BY <2>2
    <3> HIDE DEF t
    <3>2. t[1] * 3600 + t[2] * 60 + t[3] = n % DaySeconds
      BY <2>1, <3>1, LocalTimeAdds
    <3> QED BY <3>2 DEF t
  <2>4. face.date # NoDate => /\ DayNumber(face.date) = n \div DaySeconds
                              /\ face.date[4] = (DayNumber(face.date) + 4) % 7
    BY <2>1, <2>2, DateShown, Zenon
  <2> QED BY <2>3, <2>4 DEF n
<1> QED BY <1>1, FaceInvariant, PTL

(* Across midnight the date is on the face before and after, and goes on    *)
(* by one day and one weekday.                                              *)
Turns ==
  /\ mode # "off" /\ face # Startup /\ shown' - shown \in 1 .. HourSeconds
  /\ (shown' + offset) \div DaySeconds # (shown + offset) \div DaySeconds

TurnedBy(old, new) ==
  /\ old # NoDate /\ new # NoDate
  /\ DayNumber(new) = DayNumber(old) + 1 /\ new[4] = (old[4] + 1) % 7

LEMMA NextDay ==
  ASSUME NEW before \in Int, NEW after \in Int,
         after - before \in 1 .. HourSeconds,
         after \div DaySeconds # before \div DaySeconds
  PROVE  /\ after \div DaySeconds = (before \div DaySeconds) + 1
         /\ (after \div DaySeconds + 4) % 7
              = ((((before \div DaySeconds) + 4) % 7) + 1) % 7
<1> DEFINE b == before \div DaySeconds
           a == after \div DaySeconds
<1>1. \A n \in Int, k \in Nat \ {0} :
        /\ n \div k \in Int /\ n % k \in Int /\ 0 <= n % k /\ n % k < k
        /\ n = k * (n \div k) + (n % k)
  BY Z3
<1> DEFINE r == before % DaySeconds
           s == after % DaySeconds
<1>2. DaySeconds \in Nat \ {0}
  BY DEF DaySeconds
<1>3. /\ a \in Int /\ s \in Int /\ 0 <= s /\ s < DaySeconds
      /\ b \in Int /\ r \in Int /\ 0 <= r /\ r < DaySeconds
      /\ before = DaySeconds * b + r /\ after = DaySeconds * a + s
  BY <1>1, <1>2, Zenon
<1>4. after - before \in Int /\ 1 <= after - before /\ after - before <= 3600
  BY DEF HourSeconds
<1>5. a # b
  OBVIOUS
<1> HIDE DEF a, b, r, s
<1>6. a = b + 1
  BY <1>3, <1>4, <1>5, SMT DEF DaySeconds
<1>7. (a + 4) % 7 = (((b + 4) % 7) + 1) % 7
  BY <1>3, <1>6, SMT
<1> QED BY <1>6, <1>7 DEF a, b

LEMMA FaceTurns == FaceInv /\ Next /\ Turns => TurnedBy(face.date, face'.date)
<1> SUFFICES ASSUME FaceInv, Next, Turns PROVE TurnedBy(face.date, face'.date)
  OBVIOUS
<1>1. offset \in Int /\ shown \in Int /\ mode \in {"on", "auto"} /\ has_time
  BY FaceAssumption DEF FaceInv, Turns
<1>2. PICK s \in Gaps : Refresh(s)
  <2>1. ~ Sync
    BY <1>1 DEF Sync, Turns, HourSeconds
  <2> QED BY <2>1 DEF Next
<1>3. /\ face' = Face(shown') /\ shown' \in Int
  <2>1. s \in Int /\ epoch \in Int
    BY FaceAssumption DEF FaceInv
  <2> QED BY <2>1, <1>1, <1>2 DEF Refresh
<1>4. face = Face(shown)
  BY DEF FaceInv, Turns
<1> DEFINE before == shown + offset
           after == shown' + offset
<1>5. /\ before \in Int /\ after \in Int /\ after - before \in 1 .. HourSeconds
      /\ after \div DaySeconds # before \div DaySeconds
  <2>1. before \in Int /\ after \in Int
    BY <1>1, <1>3
  <2>2. shown' - shown \in 1 .. HourSeconds /\ HourSeconds \in Int
    BY DEF Turns, HourSeconds
  <2>3. after - before = shown' - shown
    BY <1>1, <1>3
  <2>4. after \div DaySeconds # before \div DaySeconds
    BY Zenon DEF Turns
  <2> QED BY <2>1, <2>2, <2>3, <2>4
<1>6. ShouldShowDate(shown, offset, mode) /\ ShouldShowDate(shown', offset, mode)
  BY <1>1, <1>3, MidnightInSight, Zenon DEF Turns
<1>7. face.date = Date(Normalized(before).day) \o <<Weekday(Normalized(before).day)>>
  BY <1>4, <1>6, FaceFields, Zenon
<1>8. face'.date = Date(Normalized(after).day) \o <<Weekday(Normalized(after).day)>>
  BY <1>3, <1>6, FaceFields, Zenon
<1> HIDE DEF before, after
<1>9. /\ face.date # NoDate /\ DayNumber(face.date) = before \div DaySeconds
      /\ face.date[4] = (DayNumber(face.date) + 4) % 7
  BY <1>5, <1>7, DateShown, Zenon
<1>10. /\ face'.date # NoDate /\ DayNumber(face'.date) = after \div DaySeconds
       /\ face'.date[4] = (DayNumber(face'.date) + 4) % 7
  BY <1>5, <1>8, DateShown, Zenon
<1>11. /\ after \div DaySeconds = (before \div DaySeconds) + 1
       /\ (after \div DaySeconds + 4) % 7
            = ((((before \div DaySeconds) + 4) % 7) + 1) % 7
  BY <1>5, NextDay, Zenon
<1> QED BY <1>9, <1>10, <1>11, Zenon DEF TurnedBy

THEOREM DateIsInSight == Spec => DateTurnsInSight
<1>1. FaceInv /\ [Next]_vars =>
        [/\ mode # "off" /\ face # Startup
         /\ shown' - shown \in 1 .. HourSeconds
         /\ (shown' + offset) \div DaySeconds # (shown + offset) \div DaySeconds
         => /\ face.date # NoDate /\ face'.date # NoDate
            /\ DayNumber(face'.date) = DayNumber(face.date) + 1
            /\ face'.date[4] = (face.date[4] + 1) % 7]_vars
  BY FaceTurns, Zenon DEF Turns, TurnedBy
<1> QED BY <1>1, FaceInvariant, PTL DEF Spec, DateTurnsInSight
=============================================================================
