------------------------------ MODULE DateAndTime ------------------------------
(***************************************************************************)
(* date_and_time_functions: what the utc functions show of one reading of   *)
(* the clock, the counts of to_millis_now, and the way from a count to a    *)
(* text and back, where to_millis_string formats out of the static tm that  *)
(* all threads share and to_millis reads a text as local time.              *)
(*                                                                         *)
(* A count of ms, us or ns is the instant it stands for; sec and ns are as  *)
(* of the floor, also before 1970.  A text is its fields and its separator: *)
(* "T", "space", or "compact" for digits only.  A call that keeps its data  *)
(* to itself is one step, the moment it reads the clock.                    *)
(***************************************************************************)
EXTENDS Integers, FiniteSets

CONSTANTS
  Thread,
  Clock,          \* the readings of the clock
  Given,          \* instants whose counts callers hold from elsewhere
  Offset,         \* time_offset arguments, hours
  Later,          \* seconds_offset arguments
  Zone,           \* time zones of machines: standard offset, daylight saving, whether it is on
  MaxCalls        \* bound: calls of all threads

Billion == 1000000000
Precision == {"s", "ms", "us", "ns"}
Unit == [s |-> Billion, ms |-> 1000000, us |-> 1000, ns |-> 1]
Instant == [sec : Int, ns : 0 .. Billion - 1]

(* The clock has left the first half day of 1970 behind it, so that no      *)
(* offset leads before 1970; zones are those there are on Earth.            *)
ASSUME ClockAssumption ==
  Clock \subseteq Instant /\ Clock # {} /\ \A c \in Clock : c.sec >= 12 * 3600
ASSUME GivenAssumption == Given \subseteq Instant
ASSUME ArgumentsAssumption == Offset \subseteq Int /\ Later \subseteq Int
ASSUME ZoneAssumption ==
  /\ Zone \subseteq [std : Int, dst : Int, summer : BOOLEAN]
  /\ \A z \in Zone : -12 * 3600 <= z.std /\ z.std <= 14 * 3600
ASSUME BoundsAssumption == MaxCalls \in Nat

VARIABLES
  zone,   \* of this machine
  now,    \* std::chrono::system_clock::now()
  tm,     \* the buffer std::gmtime returns a pointer to
  pc,     \* of each thread: "idle", or where it is in to_millis_string
  job,    \* what that call was given
  text,   \* what it has formatted so far
  val,    \* what the last call of each thread returned
  from,   \* history: the instant val stands for, how far it was shifted on the way
  calls,  \* how many calls there were
  mixed   \* history: threads whose val went through tm while another used it

vars == << zone, now, tm, pc, job, text, val, from, calls, mixed >>

-----------------------------------------------------------------------------
(* The calendar: day 0 of an era of 400 years is a 1st of March.            *)
Era(days) == (days + 719468) \div 146097
DayOfEra(days) == (days + 719468) % 146097
YearOfEra(d) == (d - d \div 1460 + d \div 36524 - d \div 146096) \div 365
DayOfYear(d) == LET y == YearOfEra(d) IN d - (365 * y + y \div 4 - y \div 100)
Month(n) == (5 * n + 2) \div 153
FirstDay(m) == (153 * m + 2) \div 5
Date(days) ==
  LET n == DayOfYear(DayOfEra(days))
      m == Month(n)
      month == IF m < 10 THEN m + 3 ELSE m - 9
  IN [year  |-> 400 * Era(days) + YearOfEra(DayOfEra(days)) + (IF month <= 2 THEN 1 ELSE 0),
      month |-> month, day |-> n - FirstDay(m) + 1]
Time(s) == [hour |-> s \div 3600, minute |-> (s \div 60) % 60, second |-> s % 60]
gmtime(sec) == [date |-> Date(sec \div 86400), time |-> Time(sec % 86400)]

Leaps(y) == y \div 4 - y \div 100 + y \div 400
IsLeap(y) == y % 4 = 0 /\ (y % 100 # 0 \/ y % 400 = 0)
DaysBefore == << 0, 31, 59, 90, 120, 151, 181, 212, 243, 273, 304, 334 >>
timegm(f) ==
  LET d == f.date
      days == 365 * (d.year - 1970) + Leaps(d.year - 1) - Leaps(1969) + DaysBefore[d.month]
              + (IF IsLeap(d.year) /\ d.month > 2 THEN 1 ELSE 0) + d.day - 1
  IN 86400 * days + 3600 * f.time.hour + 60 * f.time.minute + f.time.second

Summer(isdst) == IF isdst THEN zone.dst ELSE 0
localtime(sec) == gmtime(sec + zone.std + Summer(zone.summer))
mktime(f, isdst) == timegm(f) - zone.std - Summer(isdst)

(* Durations are cut towards 0: before 1970 a time_t is a second late and   *)
(* the rest is negative.                                                    *)
Cut(i, p) == [i EXCEPT !.ns = @ - (@ % Unit[p])]
Early(i) == i.sec < 0 /\ i.ns > 0
to_time_t(i) == IF Early(i) THEN i.sec + 1 ELSE i.sec
Rest(i) == IF Early(i) THEN i.ns - Billion ELSE i.ns
Shift(i, seconds) == [i EXCEPT !.sec = @ + seconds]

-----------------------------------------------------------------------------
Clamp(o) == IF o <= -12 THEN -12 ELSE IF o >= 14 THEN 14 ELSE o
(* The to_millis_now functions clamp by std::max and std::min.              *)
Least(a, b) == IF a < b THEN a ELSE b
Most(a, b) == IF a > b THEN a ELSE b
Hours_Unlimited(o) == Most(-12, o)
Hours(o) == Most(-12, Least(o, 14))

Fraction(i, p) == IF p = "s" THEN 0 ELSE Rest(Cut(i, p))

NoZone == 99
Text(form, p, f, fraction, z) ==
  [kind |-> "text", form |-> form, p |-> p, date |-> f.date, time |-> f.time,
   fraction |-> fraction, zone |-> z]
Count(p, i) == [kind |-> "count", p |-> p, at |-> i]
Epoch == gmtime(0)
NoJob == [p |-> "s", at |-> [sec |-> 0, ns |-> 0], form |-> "space"]
Nothing == [kind |-> "nothing"]
Thrown == [kind |-> "thrown"]

(* What the clock shows at an offset.                                       *)
Shown(o) == gmtime(to_time_t(now) + Clamp(o) * 3600)

(* History: the offset a call that asks for o should get, the nearest there is. *)
Nearest(o) == IF o \in -12 .. 14 THEN o ELSE IF o < 0 THEN -12 ELSE 14

Called(t) == pc[t] = "idle" /\ calls < MaxCalls /\ calls' = calls + 1

Return(t, v, shift) ==
  /\ Called(t)
  /\ val' = [val EXCEPT ![t] = v]
  /\ from' = [from EXCEPT ![t] = [at |-> now, shift |-> shift]]
  /\ mixed' = mixed \ {t}
  /\ UNCHANGED << zone, now, tm, pc, job, text >>

(* The functions that show a part: the leading 0 that some of them cut off  *)
(* does not change the number.                                              *)
year(f) == f.date.year
month(f) == f.date.month
MonthName(language, f) ==
  << IF language = 2 /\ month(f) \in {5, 8, 10, 12} THEN "id" ELSE "en", month(f) >>
day(f) == f.date.day
hour(f) == f.time.hour
minute(f) == f.time.minute
second(f) == f.time.second
YYYYMMDD(f) == (f.date.year * 100 + f.date.month) * 100 + f.date.day
hhmmss(f) == (f.time.hour * 100 + f.time.minute) * 100 + f.time.second

(* They keep nothing, so one step stands for a call of each of them.        *)
Part(t) ==
  \E o \in Offset, language \in 1 .. 2 :
    LET f == Shown(o) IN
      Return(t, [kind |-> "part", year |-> year(f), month |-> month(f), name |-> MonthName(language, f),
                 day |-> day(f), hour |-> hour(f), minute |-> minute(f), second |-> second(f),
                 yyyymmdd |-> YYYYMMDD(f), hhmmss |-> hhmmss(f)], Nearest(o) * 3600)

(* The four to_string functions, and to_int64 of "s" and "ms" with the same *)
(* digits; the four to_string_human functions.                              *)
to_string(t) ==
  \E o \in Offset, p \in Precision :
    Return(t, Text("compact", p, Shown(o), Fraction(now, p), NoZone), Nearest(o) * 3600)

to_string_human(t) ==
  \E o \in Offset, p \in Precision, form \in {"T", "space"} :
    Return(t, Text(form, p, Shown(o), Fraction(now, p), NoZone), Nearest(o) * 3600)

(* to_string_seconds_offset does not limit its offset.                      *)
to_string_seconds_offset(t) ==
  \E s \in Later, p \in Precision :
    Return(t, Text("compact", p, gmtime(to_time_t(Shift(now, s))), Fraction(now, p), NoZone), s)

ToldZone_AsAsked(o) == o
ToldZone(o) == Clamp(o)
time_zone(t) ==
  \E o \in Offset, form \in {"T", "space"} :
    Return(t, Text(form, "s", Shown(o), 0, ToldZone(o)), Nearest(o) * 3600)

to_millis_now(t) ==
  \E o \in Offset, p \in Precision :
    Return(t, Count(p, Cut(Shift(now, Hours(o) * 3600), IF p = "s" THEN "ms" ELSE p)),
           Nearest(o) * 3600)

(* gmtime_r clears tm_isdst, localtime_r sets it; mktime goes by it.        *)
Difference_Swapped(utc, local) == utc - local
Difference(utc, local) == local - utc
ToHours(s) == IF s >= 0 THEN s \div 3600 ELSE -((-s) \div 3600)
local_timezone(t) ==
  LET sec == to_time_t(now)
      offset == Difference(mktime(gmtime(sec), FALSE), mktime(localtime(sec), zone.summer))
  IN Return(t, [kind |-> "hours", hours |-> ToHours(offset)], 0)

-----------------------------------------------------------------------------
(* get_time stops behind the seconds and fails at the first "-" of a text   *)
(* without one; tm_isdst stays 0, so mktime takes it for standard time.     *)
Parsed_GuessesDst(v) == mktime(v, zone.summer)
Parsed(v) == mktime(v, FALSE)
to_millis(t) ==
  /\ Called(t) /\ val[t].kind = "text"
  /\ LET sec == Parsed(val[t]) IN
       IF val[t].form = "compact"
       THEN val' = [val EXCEPT ![t] = Thrown] /\ UNCHANGED from
       ELSE \E p \in Precision :
              /\ val' = [val EXCEPT ![t] = Count(p, [sec |-> sec, ns |-> 0])]
              /\ from' = [from EXCEPT ![t] = [at |-> [sec |-> to_time_t(Shift(@.at, @.shift)), ns |-> 0],
                                              shift |-> -zone.std]]
  /\ UNCHANGED << zone, now, tm, pc, job, text, mixed >>

-----------------------------------------------------------------------------
(* to_millis_string: std::gmtime fills tm, put_time reads it; date and time *)
(* stand for the fields that another thread's call may change in between.   *)
InUse == {t \in Thread : pc[t] # "idle"}

Enter(t, p, i, form) ==
  /\ Called(t)
  /\ pc' = [pc EXCEPT ![t] = "gmtime"]
  /\ job' = [job EXCEPT ![t] = [p |-> p, at |-> i, form |-> form]]
  /\ tm' = [tm EXCEPT !.date = gmtime(to_time_t(i)).date]
  /\ val' = [val EXCEPT ![t] = Nothing]
  /\ UNCHANGED << zone, now, text >>

FormatGiven(t) ==
  /\ \E i \in Given, p \in Precision, form \in {"T", "space"} :
       /\ p # "s" => i = Cut(i, p)
       /\ p = "s" => i = Cut(i, "ms")
       /\ Enter(t, p, i, form)
       /\ from' = [from EXCEPT ![t] = [at |-> i, shift |-> 0]]
  /\ mixed' = IF InUse = {} THEN mixed \ {t} ELSE mixed \cup InUse \cup {t}

FormatCount(t) ==
  /\ val[t].kind = "count"
  /\ \E form \in {"T", "space"} : Enter(t, val[t].p, val[t].at, form)
  /\ mixed' = IF InUse = {} THEN mixed ELSE mixed \cup InUse \cup {t}
  /\ UNCHANGED from

FillTime(t) ==
  /\ pc[t] = "gmtime"
  /\ pc' = [pc EXCEPT ![t] = "filled"]
  /\ tm' = [tm EXCEPT !.time = gmtime(to_time_t(job[t].at)).time]
  /\ UNCHANGED << zone, now, job, text, val, from, calls, mixed >>

PutDate(t) ==
  /\ pc[t] = "filled"
  /\ pc' = [pc EXCEPT ![t] = "dated"]
  /\ text' = [text EXCEPT ![t] = tm.date]
  /\ UNCHANGED << zone, now, tm, job, val, from, calls, mixed >>

PutTime(t) ==
  /\ pc[t] = "dated"
  /\ pc' = [pc EXCEPT ![t] = "idle"]
  /\ val' = [val EXCEPT ![t] = Text(job[t].form, job[t].p, [date |-> text[t], time |-> tm.time],
                                    Fraction(job[t].at, job[t].p), NoZone)]
  /\ job' = [job EXCEPT ![t] = NoJob]
  /\ text' = [text EXCEPT ![t] = Epoch.date]
  /\ UNCHANGED << zone, now, tm, from, calls, mixed >>

-----------------------------------------------------------------------------
After(i, j) == i.sec > j.sec \/ (i.sec = j.sec /\ i.ns > j.ns)
Tick ==
  /\ now' \in {c \in Clock : After(c, now)}
  /\ UNCHANGED << zone, tm, pc, job, text, val, from, calls, mixed >>

Init ==
  /\ zone \in Zone
  /\ now \in Clock
  /\ tm = Epoch
  /\ pc = [t \in Thread |-> "idle"]
  /\ job = [t \in Thread |-> NoJob]
  /\ text = [t \in Thread |-> Epoch.date]
  /\ val = [t \in Thread |-> Nothing]
  /\ from = [t \in Thread |-> [at |-> now, shift |-> 0]]
  /\ calls = 0
  /\ mixed = {}

Reads(t) ==
  \/ Part(t) \/ time_zone(t) \/ local_timezone(t)
  \/ to_string(t) \/ to_string_human(t) \/ to_string_seconds_offset(t) \/ to_millis_now(t)
to_millis_string(t) == FormatGiven(t) \/ FormatCount(t) \/ FillTime(t) \/ PutDate(t) \/ PutTime(t)
Ended == calls = MaxCalls /\ InUse = {} /\ UNCHANGED vars
Next == Tick \/ Ended \/ \E t \in Thread : Reads(t) \/ to_millis(t) \/ to_millis_string(t)
Spec == Init /\ [][Next]_vars

-----------------------------------------------------------------------------
SecondsShown(f, i, shift) == timegm(f) = to_time_t(Shift(i, shift))
FractionShown(v, i) ==
  v.p # "s" => v.fraction = IF Early(i) THEN Cut(i, v.p).ns - Billion ELSE Cut(i, v.p).ns
Unpacked(v) ==
  [date |-> [year  |-> v.yyyymmdd \div 10000, month |-> (v.yyyymmdd \div 100) % 100,
             day   |-> v.yyyymmdd % 100],
   time |-> [hour  |-> v.hhmmss \div 10000, minute |-> (v.hhmmss \div 100) % 100,
             second |-> v.hhmmss % 100]]
PartsShown(v) ==
  /\ Unpacked(v).date = [year |-> v.year, month |-> v.month, day |-> v.day]
  /\ Unpacked(v).time = [hour |-> v.hour, minute |-> v.minute, second |-> v.second]

(* Texts and numbers show the instant they were made from, shifted by what  *)
(* was asked for on the way: to_string_human(o), the packed numbers at o    *)
(* and to_millis_string(to_millis_now(o)) agree at every offset, though     *)
(* they limit it differently.  No other thread shows through in a text      *)
(* unless it formatted at the same time, and never behind the point, for    *)
(* the digits there do not pass through tm (976-982, 1154-1155).            *)
ShowsItsInstant ==
  \A t \in Thread :
    LET v == val[t] IN
    CASE v.kind = "text" -> /\ t \notin mixed => SecondsShown(v, from[t].at, from[t].shift)
                            /\ FractionShown(v, from[t].at)
      [] v.kind = "part" -> SecondsShown(Unpacked(v), from[t].at, from[t].shift) /\ PartsShown(v)
      [] OTHER -> TRUE

(* What to_millis makes of a text, and of the text of a count, is the       *)
(* instant less the standard offset of the zone, in summer as in winter: in *)
(* UTC texts and counts go round without loss of whole seconds (942-963).   *)
CountsItsInstant ==
  \A t \in Thread \ mixed :
    val[t].kind = "count" => val[t].at.sec = from[t].at.sec + from[t].shift

(* A text that tells a zone names the moment the clock was read, also when  *)
(* the offset that was asked for is no zone (34-95).                        *)
ZoneNamesNow ==
  \A t \in Thread :
    val[t].kind = "text" /\ val[t].zone # NoZone =>
      timegm(val[t]) - val[t].zone * 3600 = from[t].at.sec

(* In a zone of whole hours without daylight saving, local_timezone is the  *)
(* offset at which the other functions show the wall clock (10-27).         *)
LocalIsWall ==
  \A t \in Thread :
    val[t].kind = "hours" /\ zone.std % 3600 = 0 /\ ~zone.summer =>
      Shown(val[t].hours) = localtime(to_time_t(now))
=============================================================================
