----------------------------- MODULE ClockFace -----------------------------
(***************************************************************************)
(* What the clock shows: runtime_render_view and refresh_clock_display      *)
(* (src/runtime.c) with the calendar of src/clock.c and the layout of       *)
(* src/display.c.                                                           *)
(*                                                                          *)
(* A step of the main loop refreshes the face some seconds after the last   *)
(* one (the network may have held it up); in between a synchronisation may  *)
(* set the clock, for the first time or again.  Time zone and date mode do  *)
(* not change once the clock has the time (Runtime, ConfigFrozen).          *)
(***************************************************************************)
EXTENDS Calendar, Sequences

CONSTANTS
  Frames,     \* framebuffer sizes the firmware is built for
  Offsets,    \* time zones, as seconds east of Greenwich
  Modes,      \* date modes: "off", "on", "auto"
  MaxEpoch,   \* the last second an NTP server can name
  Explored,   \* bound: the local times a run looks at
  Gaps,       \* bound: seconds between two refreshes
  Correction  \* bound: most seconds a later synchronisation moves the clock

ASSUME FaceAssumption ==
  /\ Frames \subseteq [width : Nat, height : Nat]
  \* Both builds are larger: 800 x 480 and 320 x 240.
  /\ \A f \in Frames : f.width >= 163 /\ f.height >= 114
  /\ Offsets \subseteq Int /\ Modes \subseteq {"off", "on", "auto"}
  /\ MaxEpoch \in Nat /\ Explored \subseteq Int
  /\ Gaps \subseteq Nat /\ Correction \in Nat

VARIABLES
  frame,      \* of the build
  offset, mode,
  has_time,
  epoch,      \* clock_current_epoch_seconds
  face,       \* what the framebuffer shows
  shown       \* history: epoch when the face was drawn

vars == <<frame, offset, mode, has_time, epoch, face, shown>>
-----------------------------------------------------------------------------
(***************************************************************************)
(* Drawing.  A glyph is 5 by 7 pixels, a place of text 6 wide, a blank 4.   *)
(***************************************************************************)
TimeLength == 8     \* "hh:mm:ss"
DateLength == 14    \* "yyyy-mm-dd www"

Smaller(a, b) == IF a < b THEN a ELSE b

(* display_prepare_layout *)
Scale(f, dated) ==
  LET longest  == IF dated THEN DateLength ELSE TimeLength
      byWidth  == (f.width - 80) \div (longest * 6 - 1)
      byHeight == IF dated THEN (f.height - 100) \div 14
                           ELSE (f.height - 80) \div 7
      scale    == Smaller(byWidth, byHeight)
  IN IF scale < 1 THEN 1 ELSE scale

(* display_draw_time: left, top, right and bottom of each text. *)
Layout(f, dated) ==
  LET scale  == Scale(f, dated)
      height == IF dated THEN 14 * scale + 20 ELSE 7 * scale
      top    == (f.height - height) \div 2
      left(length) == Quotient(f.width - (length * 6 - 1) * scale, 2)
  IN [time |-> [left |-> left(TimeLength), top |-> top,
                right |-> left(TimeLength) + (TimeLength * 6 - 1) * scale,
                bottom |-> top + 7 * scale],
      date |-> [left |-> left(DateLength), top |-> top + 7 * scale + 20,
                right |-> left(DateLength) + (DateLength * 6 - 3) * scale,
                bottom |-> top + 14 * scale + 20]]

(* weekday_names, and the letters draw_glyph has a glyph for. *)
WeekdayLetters(w) ==
  <<{"S", "U", "N"}, {"M", "O", "N"}, {"T", "U", "E"}, {"W", "E", "D"},
    {"T", "H", "U"}, {"F", "R", "I"}, {"S", "A", "T"}>>[w + 1]

Glyphs == {"D", "R", "I", "F", "T", "M", "S", "A", "C", "K", "L", "N", "O",
           "P", "U", "Y"}

NoDate == <<>>

Startup == [screen |-> "startup", time |-> <<>>, date |-> NoDate]

(* refresh_clock_display at a reading of the clock *)
Face(reading) ==
  LET local == Normalized(reading + offset)
  IN [screen |-> "clock", time |-> TimeOfDay(local.second),
      date |-> IF ShouldShowDate(reading, offset, mode)
               THEN Date(local.day) \o <<Weekday(local.day)>> ELSE NoDate]
-----------------------------------------------------------------------------
IsDate(d) ==
  /\ d \in Int \X (1 .. 12) \X (1 .. 31) \X (0 .. 6)
  /\ d[3] <= DaysInMonth(d[1], d[2])

(* What is drawn is a time and a date there are. *)
TypeOK ==
  /\ frame \in Frames /\ offset \in Offsets /\ mode \in Modes
  /\ has_time \in BOOLEAN
  /\ epoch \in Int /\ shown \in Int
  /\ face # Startup =>
       /\ face.time \in (0 .. 23) \X (0 .. 59) \X (0 .. 59)
       /\ face.date = NoDate \/ IsDate(face.date)

Init ==
  /\ frame \in Frames /\ offset \in Offsets /\ mode \in Modes
  /\ has_time = FALSE /\ epoch = 0 /\ face = Startup /\ shown = 0

(* ntp_sync sets the clock to what a server said.  (A local time is         *)
(* compared before it is added to, and stays within TLC's integers.)        *)
Sync ==
  /\ \/ /\ ~has_time
        /\ \E local \in Explored :
             /\ local >= offset /\ local <= MaxEpoch + offset
             /\ epoch' = local - offset
     \/ /\ has_time
        /\ epoch' \in epoch - Correction .. epoch + Correction
        /\ epoch' \in 0 .. MaxEpoch /\ epoch' + offset \in Explored
  /\ has_time' = TRUE
  /\ UNCHANGED <<frame, offset, mode, face, shown>>

(* One turn of the main loop, s seconds after the one before. *)
Refresh(s) ==
  /\ IF has_time
     THEN /\ epoch + s <= MaxEpoch /\ epoch + s + offset \in Explored
          /\ epoch' = epoch + s /\ face' = Face(epoch')
     ELSE face' = Startup /\ UNCHANGED epoch
  /\ shown' = epoch'
  /\ UNCHANGED <<frame, offset, mode, has_time>>

Next == Sync \/ \E s \in Gaps : Refresh(s)

Spec == Init /\ [][Next]_vars
-----------------------------------------------------------------------------
(***************************************************************************)
(* Properties.                                                              *)
(***************************************************************************)

(* Read back by the reference, the face tells the local time it was drawn   *)
(* at: the loops over years and months, the leap rule, local times before   *)
(* 1970 and the weekday agree with the Gregorian calendar.                  *)
FaceTellsTime ==
  face # Startup =>
    LET local == shown + offset
        t == face.time
        d == face.date
    IN /\ t[1] * 3600 + t[2] * 60 + t[3] = local % DaySeconds
       /\ d # NoDate => /\ DayNumber(d) = local \div DaySeconds
                        /\ d[4] = (DayNumber(d) + 4) % 7

(* "`auto` only shows it around midnight" (README.md): when the day changes *)
(* from one refresh to the next, the date was on the face before, is there  *)
(* afterwards, and goes on by one day and one weekday.                      *)
DateTurnsInSight ==
  [][/\ mode # "off" /\ face # Startup
     /\ shown' - shown \in 1 .. HourSeconds
     /\ (shown' + offset) \div DaySeconds # (shown + offset) \div DaySeconds
     => /\ face.date # NoDate /\ face'.date # NoDate
        /\ DayNumber(face'.date) = DayNumber(face.date) + 1
        /\ face'.date[4] = (face.date[4] + 1) % 7]_vars

Inside(r, f) ==
  0 <= r.left /\ r.right <= f.width /\ 0 <= r.top /\ r.bottom <= f.height

(* display_draw_pixel drops what lies outside the frame: no text does, and  *)
(* time and date do not overlap, on either build.                           *)
NothingCut ==
  LET dated == face.date # NoDate
      place == Layout(frame, dated)
  IN /\ Inside(place.time, frame)
     /\ dated => Inside(place.date, frame) /\ place.time.bottom < place.date.top

(* README.md: "Renders the current time (and optionally the date)". Every   *)
(* letter of the date has a glyph.                                          *)
DateDrawn ==
  face.date # NoDate => WeekdayLetters(face.date[4]) \subseteq Glyphs
=============================================================================
