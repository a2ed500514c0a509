--------------------------- MODULE DateAndTimeProofs ---------------------------
(***************************************************************************)
(* Theorems about DateAndTime, for any threads, readings of the clock,      *)
(* counts, offsets, zones and calls.  The first part is about the calendar, *)
(* the second about what one call returns, the third about every step.      *)
(***************************************************************************)
EXTENDS DateAndTime, TLAPS

(* A year more is a leap day more exactly after a leap year.                *)
LEMMA DivStep4 == \A y \in Int : y \div 4 = (y - 1) \div 4 + (IF y % 4 = 0 THEN 1 ELSE 0)
OBVIOUS
LEMMA DivStep100 == \A y \in Int : y \div 100 = (y - 1) \div 100 + (IF y % 100 = 0 THEN 1 ELSE 0)
OBVIOUS
LEMMA DivStep400 == \A y \in Int : y \div 400 = (y - 1) \div 400 + (IF y % 400 = 0 THEN 1 ELSE 0)
OBVIOUS
LEMMA Multiples == \A y \in Int : (y % 400 = 0 => y % 100 = 0) /\ (y % 100 = 0 => y % 4 = 0)
OBVIOUS
LEMMA LeapsStep ==
  ASSUME NEW y \in Int
  PROVE Leaps(y - 1) + (IF IsLeap(y) THEN 1 ELSE 0) = Leaps(y)
BY DivStep4, DivStep100, DivStep400, Multiples DEF Leaps, IsLeap

(* Eras of 400 years have 97 leap days.                                     *)
LEMMA LeapsOfEra ==
  ASSUME NEW e \in Int, NEW y \in Int, 0 <= y, y <= 399
  PROVE Leaps(400 * e + y) = 97 * e + y \div 4 - y \div 100
<1>1. (400 * e + y) \div 4 = 100 * e + y \div 4
  OBVIOUS
<1>2. (400 * e + y) \div 100 = 4 * e + y \div 100
  OBVIOUS
<1>3. (400 * e + y) \div 400 = e
  OBVIOUS
<1> QED
  BY <1>1, <1>2, <1>3 DEF Leaps

LEMMA YearOfDay ==
  ASSUME NEW d \in Int, 0 <= d, d <= 146096, NEW y \in Int, NEW n \in Int,
         y = (d - d \div 1460 + d \div 36524 - d \div 146096) \div 365,
         n = d - (365 * y + y \div 4 - y \div 100)
  PROVE 0 <= y /\ y <= 399 /\ 0 <= n /\ n <= 365
<1>1. PICK q \in Int : q = d \div 1460 /\ 0 <= d - 1460 * q /\ d - 1460 * q < 1460
  OBVIOUS
<1>2. PICK c \in Int : c = d \div 36524 /\ 0 <= d - 36524 * c /\ d - 36524 * c < 36524
  OBVIOUS
<1>3. PICK a \in Int : a = d \div 146096 /\ ((d = 146096 /\ a = 1) \/ (d # 146096 /\ a = 0))
  OBVIOUS
<1>4. 0 <= d - q + c - a - 365 * y /\ d - q + c - a - 365 * y < 365
  <2>1. y = (d - q + c - a) \div 365
    BY <1>1, <1>2, <1>3
  <2>2. \A s, z \in Int : z = s \div 365 => 0 <= s - 365 * z /\ s - 365 * z < 365
    OBVIOUS
  <2> QED
    BY <2>1, <2>2
<1>5. PICK u \in Int : u = y \div 4 /\ 0 <= y - 4 * u /\ y - 4 * u < 4
  OBVIOUS
<1>6. PICK v \in Int : v = y \div 100 /\ 0 <= y - 100 * v /\ y - 100 * v < 100
  OBVIOUS
<1>7. 0 <= d /\ d <= 146096
  OBVIOUS
<1>8. 0 <= y /\ y <= 399
  <2> QED
    BY <1>1, <1>2, <1>3, <1>4, <1>7
<1>9. n = d - (365 * y + u - v)
  BY <1>5, <1>6
<1>10. 0 <= n /\ n <= 365
  BY <1>1, <1>2, <1>3, <1>4, <1>5, <1>6, <1>7, <1>9
<1> QED
  BY <1>8, <1>10

(* timegm takes a date apart into the days since 1970.                      *)
Days(date) ==
  365 * (date.year - 1970) + Leaps(date.year - 1) - Leaps(1969) + DaysBefore[date.month]
  + (IF IsLeap(date.year) /\ date.month > 2 THEN 1 ELSE 0) + date.day - 1

Dates == [year : Int, month : 1 .. 12, day : 1 .. 31]
Times == [hour : 0 .. 23, minute : 0 .. 59, second : 0 .. 59]

LEMMA LeapsTyped == \A y \in Int : Leaps(y) \in Int
BY DEF Leaps
LEMMA Leaps1969 == Leaps(1969) = 477
BY DEF Leaps

LEMMA MonthOfDay ==
  ASSUME NEW n \in Int, 0 <= n, n <= 365,
         NEW m \in Int, m = (5 * n + 2) \div 153
  PROVE /\ m \in 0 .. 11
        /\ n - (153 * m + 2) \div 5 + 1 \in 1 .. 31
<1>1. 153 * m <= 5 * n + 2 /\ 5 * n + 2 < 153 * m + 153
  OBVIOUS
<1>2. PICK k \in Int : k = (153 * m + 2) \div 5 /\ 5 * k <= 153 * m + 2 /\ 153 * m + 2 < 5 * k + 5
  OBVIOUS
<1> QED
  BY <1>1, <1>2

LEMMA DayIsDate ==
  ASSUME NEW days \in Int
  PROVE Date(days) \in Dates /\ Days(Date(days)) = days
<1>1. PICK e \in Int, d \in Int :
        /\ e = Era(days) /\ d = DayOfEra(days)
        /\ days + 719468 = 146097 * e + d /\ 0 <= d /\ d <= 146096
  BY SMT DEF Era, DayOfEra
<1>2. PICK y \in Int, n \in Int, u \in Int :
        /\ y = YearOfEra(d) /\ n = DayOfYear(d)
        /\ u = y \div 4 - y \div 100 /\ n = d - (365 * y + u)
  <2>1. YearOfEra(d) \in Int
    BY SMT DEF YearOfEra
  <2>2. PICK y \in Int : y = YearOfEra(d)
    BY <2>1
  <2>3. DayOfYear(d) = d - (365 * y + y \div 4 - y \div 100)
    BY <2>2, SMT DEF DayOfYear
  <2>4. PICK u \in Int : u = y \div 4 - y \div 100
    BY SMT
  <2>5. DayOfYear(d) = d - (365 * y + u) /\ d - (365 * y + u) \in Int
    BY <2>3, <2>4, SMT
  <2> QED
    BY <2>2, <2>4, <2>5
<1>3. n = d - (365 * y + y \div 4 - y \div 100)
  BY <1>2, SMT
<1>4. 0 <= y /\ y <= 399 /\ 0 <= n /\ n <= 365
  BY <1>1, <1>2, <1>3, YearOfDay, SMTT(40) DEF YearOfEra
<1>5. PICK m \in Int, k \in Int :
        m = Month(n) /\ k = FirstDay(m) /\ m \in 0 .. 11 /\ n - k + 1 \in 1 .. 31
  <2>1. Month(n) \in Int /\ FirstDay(Month(n)) \in Int
    BY SMT DEF Month, FirstDay
  <2>2. Month(n) \in 0 .. 11 /\ n - FirstDay(Month(n)) + 1 \in 1 .. 31
    BY <1>4, MonthOfDay, SMT DEF Month, FirstDay
  <2> QED
    BY <2>1, <2>2, SMT
<1>6. \/ m < 10 /\ m + 3 \in 1 .. 12 /\ ~(m + 3 <= 2)
      \/ ~(m < 10) /\ m - 9 \in 1 .. 12 /\ m - 9 <= 2
  BY <1>5, SMT
<1>7. Date(days) = [year |-> 400 * e + y + (IF (IF m < 10 THEN m + 3 ELSE m - 9) <= 2 THEN 1 ELSE 0),
                    month |-> IF m < 10 THEN m + 3 ELSE m - 9, day |-> n - k + 1]
  BY <1>1, <1>2, <1>5, SMT DEF Date
<1>8. PICK Y \in Int, M \in 1 .. 12, D \in 1 .. 31 :
        /\ Date(days) = [year |-> Y, month |-> M, day |-> D]
        /\ D = n - k + 1
        /\ m < 10 => Y = 400 * e + y /\ M = m + 3
        /\ m >= 10 => Y = 400 * e + y + 1 /\ M = m - 9
  <2>1. CASE m < 10
    <3>1. Date(days) = [year |-> 400 * e + y, month |-> m + 3, day |-> n - k + 1]
      BY <1>6, <1>7, <2>1, SMT
    <3>3. ~(m >= 10)
      BY <1>5, <2>1, SMT
    <3>4. PICK Y \in Int, M \in 1 .. 12, D \in 1 .. 31 :
            Y = 400 * e + y /\ M = m + 3 /\ D = n - k + 1
      BY <1>5, <1>6, <2>1, SMT
    <3> QED
      BY <3>1, <3>3, <3>4, ZenonT(40)
  <2>2. CASE ~(m < 10)
    <3>1. Date(days) = [year |-> 400 * e + y + 1, month |-> m - 9, day |-> n - k + 1]
      BY <1>6, <1>7, <2>2, SMT
    <3>2. PICK Y \in Int, M \in 1 .. 12, D \in 1 .. 31 :
            Y = 400 * e + y + 1 /\ M = m - 9 /\ D = n - k + 1
      BY <1>5, <1>6, <2>2, SMT
    <3> QED
      BY <2>2, <3>1, <3>2, ZenonT(40)
  <2> QED
    BY <2>1, <2>2
<1>9. days = 146097 * e + 365 * y + u + n - 719468
  BY <1>1, <1>2, SMT
<1>10. Leaps(400 * e + y) = 97 * e + u
  <2>1. Leaps(400 * e + y) = 97 * e + y \div 4 - y \div 100
    BY <1>4, LeapsOfEra, SMT
  <2> QED
    BY <1>2, <2>1, SMT
<1>11. Days(Date(days)) = 365 * (Y - 1970) + Leaps(Y - 1) - 477 + DaysBefore[M]
                          + (IF IsLeap(Y) /\ M > 2 THEN 1 ELSE 0) + D - 1
  BY <1>8, Leaps1969, SMT DEF Days
<1>12. Leaps(Y - 1) \in Int
  BY LeapsTyped, SMT
<1>13. Date(days) \in Dates
  BY <1>8, SMT DEF Dates
<1>14. CASE m < 10
  <2>1. DaysBefore[M] = 59 + k
    BY <1>5, <1>8, <1>14, SMT DEF DaysBefore, FirstDay
  <2>2. Leaps(Y - 1) + (IF IsLeap(Y) THEN 1 ELSE 0) = 97 * e + u
    BY <1>8, <1>10, <1>14, LeapsStep, SMT
  <2>3. M > 2
    BY <1>5, <1>8, <1>14, SMT
  <2>4. Days(Date(days)) = 365 * (Y - 1970) + 97 * e + u - 477 + 59 + k + D - 1
    BY <1>11, <1>12, <2>1, <2>2, <2>3, SMT
  <2>5. Y = 400 * e + y /\ D = n - k + 1
    BY <1>8, <1>14
  <2>6. Days(Date(days)) = 365 * (400 * e + y - 1970) + 97 * e + u - 477 + 59 + n
    BY <2>4, <2>5, SMT
  <2> QED
    BY <1>9, <1>13, <2>6, SMT
<1>15. CASE m >= 10
  <2>1. DaysBefore[M] = k - 306
    BY <1>5, <1>8, <1>15, SMT DEF DaysBefore, FirstDay
  <2>2. Leaps(Y - 1) = 97 * e + u
    BY <1>8, <1>10, <1>15, SMT
  <2>3. ~(M > 2)
    BY <1>5, <1>8, <1>15, SMT
  <2>4. Days(Date(days)) = 365 * (Y - 1970) + 97 * e + u - 477 + (k - 306 + D - 1)
    BY <1>11, <1>12, <2>1, <2>2, <2>3, SMT
  <2>5. Y = 400 * e + y + 1 /\ D = n - k + 1
    BY <1>5, <1>8, <1>15, SMT
  <2>6. Days(Date(days)) = 365 * (400 * e + y - 1969) + 97 * e + u - 477 + (n - 306)
    <3>1. 365 * (Y - 1970) + 97 * e + u - 477 + (k - 306 + D - 1)
            = 365 * (400 * e + y - 1969) + 97 * e + u - 477 + (n - 306)
      BY <2>5, SMT
    <3> QED
      BY <2>4, <3>1
  <2> QED
    BY <1>9, <1>13, <2>6, SMT
<1> QED
  BY <1>5, <1>14, <1>15, SMT

(* A time of day and its seconds.                                           *)
LEMMA TimeOfDay ==
  ASSUME NEW s \in Int, 0 <= s, s < 86400
  PROVE /\ Time(s) \in Times
        /\ Time(s).hour \in Int /\ Time(s).minute \in Int /\ Time(s).second \in Int
        /\ 3600 * Time(s).hour + 60 * Time(s).minute + Time(s).second = s
BY SMT DEF Time, Times

(* What gmtime_r makes of any second, before 1970 too, is a date that there *)
(* is, and it is of that second: the calendar behind every text.            *)
THEOREM TimegmOfGmtime ==
  ASSUME NEW sec \in Int
  PROVE /\ gmtime(sec) \in [date : Dates, time : Times]
        /\ timegm(gmtime(sec)) = sec
<1>1. PICK days \in Int, s \in Int : /\ days = sec \div 86400 /\ s = sec % 86400
                                     /\ sec = 86400 * days + s /\ 0 <= s /\ s < 86400
  BY SMT
<1>2. gmtime(sec) = [date |-> Date(days), time |-> Time(s)]
  BY <1>1, SMT DEF gmtime
<1>3. gmtime(sec) \in [date : Dates, time : Times]
  BY <1>1, <1>2, DayIsDate, TimeOfDay, SMT
<1>4. timegm(gmtime(sec)) = 86400 * Days(Date(days)) + 3600 * Time(s).hour
                            + 60 * Time(s).minute + Time(s).second
  BY <1>2, SMT DEF timegm, Days
<1> QED
  BY <1>1, <1>3, <1>4, DayIsDate, TimeOfDay, SMT

-----------------------------------------------------------------------------
(* Instants.                                                                *)
LEMMA BillionIs == Billion \in Int /\ Billion > 0
BY SMT DEF Billion

LEMMA InstantIs ==
  ASSUME NEW i \in Instant
  PROVE i.sec \in Int /\ i.ns \in Int /\ 0 <= i.ns /\ i.ns < Billion
BY BillionIs, SMT DEF Instant

LEMMA InstantOf ==
  ASSUME NEW s \in Int, NEW n \in Int, 0 <= n, n < Billion
  PROVE [sec |-> s, ns |-> n] \in Instant
BY BillionIs, SMT DEF Instant

LEMMA ShiftIs ==
  ASSUME NEW i \in Instant, NEW s \in Int
  PROVE /\ Shift(i, s) \in Instant
        /\ Shift(i, s).sec = i.sec + s /\ Shift(i, s).ns = i.ns
<1>1. Shift(i, s) = [sec |-> i.sec + s, ns |-> i.ns]
  BY SMT DEF Shift, Instant
<1> QED
  BY <1>1, InstantIs, InstantOf, SMT

LEMMA time_tIs ==
  ASSUME NEW i \in Instant
  PROVE /\ to_time_t(i) \in Int
        /\ ~Early(i) => to_time_t(i) = i.sec
        /\ Early(i) \in BOOLEAN
BY InstantIs, SMT DEF to_time_t, Early

(* Cutting to a precision leaves the second alone, and cuts once.           *)
LEMMA CutNumber ==
  ASSUME NEW n \in Int, 0 <= n, n < Billion, NEW p \in Precision
  PROVE /\ n - (n % Unit[p]) \in Int /\ 0 <= n - (n % Unit[p]) /\ n - (n % Unit[p]) <= n
        /\ (n - (n % Unit[p])) - ((n - (n % Unit[p])) % Unit[p]) = n - (n % Unit[p])
<1>1. CASE p = "s"
  BY <1>1, SMT DEF Unit, Billion
<1>2. CASE p = "ms"
  BY <1>2, SMT DEF Unit
<1>3. CASE p = "us"
  BY <1>3, SMT DEF Unit
<1>4. CASE p = "ns"
  BY <1>4, SMT DEF Unit
<1> QED
  BY <1>1, <1>2, <1>3, <1>4 DEF Precision

LEMMA CutIs ==
  ASSUME NEW i \in Instant, NEW p \in Precision
  PROVE /\ Cut(i, p) \in Instant /\ Cut(i, p).sec = i.sec
        /\ Cut(i, p).ns \in Int /\ 0 <= Cut(i, p).ns /\ Cut(i, p).ns <= i.ns
        /\ Cut(Cut(i, p), p) = Cut(i, p)
<1> DEFINE cut(n) == n - (n % Unit[p])
<1>1. \A j \in Instant : Cut(j, p) = [sec |-> j.sec, ns |-> cut(j.ns)]
  BY SMT DEF Cut, Instant
<1>2. cut(i.ns) \in Int /\ 0 <= cut(i.ns) /\ cut(i.ns) <= i.ns /\ cut(cut(i.ns)) = cut(i.ns)
  BY InstantIs, CutNumber
<1>3. Cut(i, p) \in Instant
  <2> HIDE DEF cut
  <2> QED
    BY <1>1, <1>2, InstantIs, InstantOf, BillionIs, SMT
<1>4. Cut(Cut(i, p), p) = [sec |-> i.sec, ns |-> cut(cut(i.ns))]
  <2> HIDE DEF cut
  <2>1. Cut(i, p).sec = i.sec /\ Cut(i, p).ns = cut(i.ns)
    BY <1>1
  <2> QED
    BY <1>1, <1>3, <2>1
<1> HIDE DEF cut
<1> QED
  BY <1>1, <1>2, <1>3, <1>4

(* A moment that is not early reads the same cut or not.                    *)
LEMMA NotEarly ==
  ASSUME NEW i \in Instant, NEW p \in Precision, ~Early(i)
  PROVE /\ ~Early(Cut(i, p))
        /\ p # "s" => Fraction(i, p) = Cut(i, p).ns
BY CutIs, InstantIs, SMT DEF Early, Fraction, Rest

LEMMA TimegmTyped ==
  ASSUME NEW f, f.date \in Dates, f.time \in Times
  PROVE timegm(f) \in Int
<1>1. Days(f.date) \in Int
  BY LeapsTyped, Leaps1969, SMTT(30) DEF Days, Dates, DaysBefore
<1>2. timegm(f) = 86400 * Days(f.date) + 3600 * f.time.hour + 60 * f.time.minute + f.time.second
  BY SMT DEF timegm, Days
<1>3. f.time.hour \in Int /\ f.time.minute \in Int /\ f.time.second \in Int
  BY SMT DEF Times
<1> QED
  BY <1>1, <1>2, <1>3, SMT

-----------------------------------------------------------------------------
Texts == [kind : {"text"}, form : {"compact", "T", "space"}, p : Precision, date : Dates, time : Times,
          fraction : Int, zone : Int]
Counts == [kind : {"count"}, p : Precision, at : Instant]

Typed ==
  /\ zone \in Zone /\ now \in Clock
  /\ tm \in [date : Dates, time : Times]
  /\ pc \in [Thread -> {"idle", "gmtime", "filled", "dated"}]
  /\ job \in [Thread -> [p : Precision, at : Instant, form : {"T", "space"}]]
  /\ text \in [Thread -> Dates]
  /\ val = [t \in Thread |-> val[t]]
  /\ from \in [Thread -> [at : Instant, shift : Int]]
  /\ mixed \in SUBSET Thread

(* What a text, a count or a part v says of the instant f, which was        *)
(* shifted on the way; alone is FALSE when another thread may show through. *)
(* A count is never of an early instant, for early ones have no second of   *)
(* their own: only callers bring them.                                      *)
TextRight(v, f, alone) ==
  /\ v \in Texts
  /\ alone => SecondsShown(v, f.at, f.shift)
  /\ FractionShown(v, f.at)
  /\ v.zone # NoZone => timegm(v) - v.zone * 3600 = f.at.sec
CountRight(v, f, alone) ==
  /\ v \in Counts
  /\ ~Early(v.at) /\ ~Early(f.at) /\ ~Early(Shift(f.at, f.shift))
  /\ v.p # "s" => Cut(v.at, v.p).ns = Cut(f.at, v.p).ns
  /\ alone => v.at.sec = f.at.sec + f.shift
PartRight(v, f) ==
  v.kind = "part" /\ SecondsShown(Unpacked(v), f.at, f.shift) /\ PartsShown(v)
HoursRight(v) == v.kind = "hours" /\ v.hours = ToHours(zone.std)
Right(v, f, alone) ==
  \/ v = Nothing \/ v = Thrown
  \/ TextRight(v, f, alone) \/ CountRight(v, f, alone) \/ PartRight(v, f) \/ HoursRight(v)

(* A call that formats: nobody else is inside while its text can still be   *)
(* its own, so the buffer holds what gmtime made of its instant.            *)
Made(t) == gmtime(to_time_t(job[t].at))
Formats(t) ==
  /\ val[t] = Nothing
  /\ FractionShown([p |-> job[t].p, fraction |-> Fraction(job[t].at, job[t].p)], from[t].at)
  /\ t \notin mixed =>
       /\ InUse = {t}
       /\ to_time_t(job[t].at) = to_time_t(Shift(from[t].at, from[t].shift))
       /\ pc[t] \in {"gmtime", "filled"} => tm.date = Made(t).date
       /\ pc[t] \in {"filled", "dated"} => tm.time = Made(t).time
       /\ pc[t] = "dated" => text[t] = Made(t).date
Reading(t) ==
  IF pc[t] = "idle" THEN Right(val[t], from[t], t \notin mixed) ELSE Formats(t)
Inv == Typed /\ \A t \in Thread : Reading(t)

-----------------------------------------------------------------------------
(* What the clock shows at an offset.                                       *)
LEMMA NowIs ==
  ASSUME now \in Clock
  PROVE now \in Instant /\ now.sec \in Int /\ now.sec >= 12 * 3600 /\ ~Early(now)
        /\ to_time_t(now) = now.sec
<1>1. now \in Instant /\ now.sec >= 12 * 3600
  BY ClockAssumption
<1>2. ~Early(now)
  BY <1>1, InstantIs, SMT DEF Early
<1> QED
  BY <1>1, <1>2, InstantIs, time_tIs

LEMMA OffsetIs ==
  ASSUME NEW o \in Offset
  PROVE /\ o \in Int
        /\ Clamp(o) = Nearest(o) /\ Hours(o) = Nearest(o)
        /\ Nearest(o) \in -12 .. 14
BY ArgumentsAssumption, SMT DEF Clamp, Nearest, Hours, Most, Least

LEMMA ShiftedNow ==
  ASSUME now \in Clock, NEW o \in Offset
  PROVE /\ Nearest(o) * 3600 \in Int
        /\ Shift(now, Nearest(o) * 3600) \in Instant /\ ~Early(Shift(now, Nearest(o) * 3600))
        /\ to_time_t(Shift(now, Nearest(o) * 3600)) = now.sec + Nearest(o) * 3600
        /\ now.sec + Nearest(o) * 3600 >= 0
<1> DEFINE s == Nearest(o) * 3600
<1>1. s \in Int /\ now.sec + s >= 0
  <2>1. PICK n \in Int : n = Nearest(o) /\ n >= -12
    BY OffsetIs
  <2>2. n * 3600 \in Int /\ now.sec + n * 3600 >= 0
    BY <2>1, NowIs, SMT
  <2> QED
    BY <2>1, <2>2
<1> HIDE DEF s
<1>2. /\ Shift(now, s) \in Instant /\ Shift(now, s).sec = now.sec + s
  BY <1>1, NowIs, ShiftIs
<1>3. ~Early(Shift(now, s))
  BY <1>1, <1>2, NowIs, SMT DEF Early
<1>4. to_time_t(Shift(now, s)) = now.sec + s
  BY <1>2, <1>3, time_tIs
<1>5. s \in Int /\ Shift(now, s) \in Instant /\ ~Early(Shift(now, s))
      /\ to_time_t(Shift(now, s)) = now.sec + s /\ now.sec + s >= 0
  BY <1>1, <1>2, <1>3, <1>4
<1> QED
  BY <1>5 DEF s

LEMMA ShownIs ==
  ASSUME now \in Clock, NEW o \in Offset
  PROVE /\ Shown(o) \in [date : Dates, time : Times]
        /\ timegm(Shown(o)) = to_time_t(Shift(now, Nearest(o) * 3600))
        /\ timegm(Shown(o)) = now.sec + Nearest(o) * 3600
<1>1. PICK s \in Int : s = Nearest(o) * 3600 /\ to_time_t(Shift(now, s)) = now.sec + s
  BY ShiftedNow
<1>2. Shown(o) = gmtime(now.sec + s)
  BY <1>1, NowIs, OffsetIs DEF Shown
<1>3. now.sec + s \in Int
  BY NowIs, SMT
<1> QED
  BY <1>1, <1>2, <1>3, TimegmOfGmtime

(* timegm looks at the fields only.                                         *)
LEMMA TimegmOfText ==
  ASSUME NEW form, NEW p, NEW f, NEW fraction, NEW z
  PROVE timegm(Text(form, p, f, fraction, z)) = timegm(f)
BY SMT DEF timegm, Text

-----------------------------------------------------------------------------
(* Calls that read the clock.                                               *)
LEMMA ReturnTyped ==
  ASSUME Typed, NEW t \in Thread, NEW v, NEW shift \in Int, Return(t, v, shift)
  PROVE Typed'
<1>1. now \in Instant
  BY NowIs DEF Typed
<1>2. val' = [u \in Thread |-> val'[u]]
  BY DEF Typed, Return
<1>3. from' \in [Thread -> [at : Instant, shift : Int]]
  BY <1>1 DEF Typed, Return
<1>4. mixed' \in SUBSET Thread
  BY DEF Typed, Return
<1> QED
  BY <1>2, <1>3, <1>4 DEF Typed, Return

(* A call returns v, which says what it should of the moment r.             *)
Returned(t, v, r) ==
  /\ r.shift \in Int /\ r = [at |-> now, shift |-> r.shift]
  /\ Return(t, v, r.shift) /\ Right(v, r, TRUE)

LEMMA ReturnRight ==
  ASSUME Inv, NEW t \in Thread, NEW v, NEW r, Returned(t, v, r)
  PROVE Inv'
<1>1. PICK shift \in Int : /\ shift = r.shift /\ Return(t, v, shift)
                          /\ r = [at |-> now, shift |-> shift] /\ Right(v, r, TRUE)
  BY DEF Returned
<1>2. Typed /\ Typed'
  BY <1>1, ReturnTyped DEF Inv
<1>3. ASSUME NEW u \in Thread PROVE Reading(u)'
  <2>1. CASE u = t
    <3>1. val'[t] = v /\ from'[t] = r /\ t \notin mixed' /\ pc'[t] = "idle"
      BY <1>1, <1>2 DEF Return, Typed, Called
    <3>2. Right(v, r, TRUE)'
      BY <1>1 DEF Return, Right, HoursRight
    <3>3. Right(val[t], from[t], t \notin mixed)'
      BY <3>1, <3>2
    <3> QED
      BY <2>1, <3>1, <3>3 DEF Reading
  <2>2. CASE u # t
    <3>1. /\ val'[u] = val[u] /\ from'[u] = from[u] /\ (u \in mixed' <=> u \in mixed)
          /\ UNCHANGED << pc, tm, job, text, zone >>
      BY <1>1, <1>2, <2>2 DEF Return, Typed
    <3>2. Reading(u)
      BY DEF Inv
    <3> QED
      BY <3>1, <3>2 DEF Reading, Formats, Made, InUse, Right, HoursRight
  <2> QED
    BY <2>1, <2>2
<1> QED
  BY <1>2, <1>3 DEF Inv

LEMMA PartReturned ==
  ASSUME Inv, NEW t \in Thread, Part(t) PROVE Inv'
<1>1. now \in Clock
  BY DEF Inv, Typed
<1>2. PICK o \in Offset, language \in 1 .. 2 :
        LET f == Shown(o) IN
        Return(t, [kind |-> "part", year |-> year(f), month |-> month(f), name |-> MonthName(language, f),
                   day |-> day(f), hour |-> hour(f), minute |-> minute(f), second |-> second(f),
                   yyyymmdd |-> YYYYMMDD(f), hhmmss |-> hhmmss(f)], Nearest(o) * 3600)
  BY DEF Part
<1>3. PICK shift \in Int : shift = Nearest(o) * 3600
  BY <1>1, ShiftedNow
<1> DEFINE f == Shown(o)
           v == [kind |-> "part", year |-> year(f), month |-> month(f), name |-> MonthName(language, f),
                 day |-> day(f), hour |-> hour(f), minute |-> minute(f), second |-> second(f),
                 yyyymmdd |-> YYYYMMDD(f), hhmmss |-> hhmmss(f)]
<1>4. f \in [date : Dates, time : Times] /\ timegm(f) = to_time_t(Shift(now, Nearest(o) * 3600))
  BY <1>1, ShownIs
<1> HIDE DEF f
<1>5. PICK y \in Int, m \in 1 .. 12, d \in 1 .. 31 : f.date = [year |-> y, month |-> m, day |-> d]
  BY <1>4, SMTT(30) DEF Dates
<1>6. PICK h \in 0 .. 23, i \in 0 .. 59, s \in 0 .. 59 : f.time = [hour |-> h, minute |-> i, second |-> s]
  <2>1. f.time = [hour |-> f.time.hour, minute |-> f.time.minute, second |-> f.time.second]
        /\ f.time.hour \in 0 .. 23 /\ f.time.minute \in 0 .. 59 /\ f.time.second \in 0 .. 59
    BY <1>4, SMT DEF Times
  <2> QED
    BY <2>1
<1>7. Unpacked(v).date = f.date /\ Unpacked(v).time = f.time
  <2>1. PICK a, b : /\ a = v.yyyymmdd /\ a = (y * 100 + m) * 100 + d
                    /\ b = v.hhmmss /\ b = (h * 100 + i) * 100 + s
    BY <1>5, <1>6, SMT DEF YYYYMMDD, hhmmss
  <2> HIDE DEF v
  <2>2. 0 <= m /\ m <= 99 /\ 0 <= d /\ d <= 99 /\ h \in Int /\ i \in Int /\ s \in Int
        /\ 0 <= i /\ i <= 99 /\ 0 <= s /\ s <= 99 /\ m \in Int /\ d \in Int
    OBVIOUS
  <2>3. a \in Int /\ b \in Int
    BY <2>1, <2>2, SMT
  <2>4. a \div 10000 = y /\ a \div 100 = y * 100 + m /\ (y * 100 + m) % 100 = m /\ a % 100 = d
    BY <2>1, <2>2, <2>3, SMT
  <2>5. b \div 10000 = h /\ b \div 100 = h * 100 + i /\ (h * 100 + i) % 100 = i /\ b % 100 = s
    BY <2>1, <2>2, <2>3, SMT
  <2> QED
    BY <1>5, <1>6, <2>1, <2>4, <2>5, SMT DEF Unpacked
<1>8. SecondsShown(Unpacked(v), now, shift)
  BY <1>4, <1>7, <1>3, SMT DEF SecondsShown, timegm
<1>9. PartsShown(v)
  BY <1>5, <1>6, <1>7, SMT DEF PartsShown, year, month, day, hour, minute, second
<1>10. v.kind = "part"
  OBVIOUS
<1>11. Return(t, v, shift)
  BY <1>2, <1>3 DEF f
<1> HIDE DEF v
<1> DEFINE r == [at |-> now, shift |-> shift]
<1>12. Right(v, r, TRUE)
  BY <1>8, <1>9, <1>10 DEF Right, PartRight
<1>13. r = [at |-> now, shift |-> shift] /\ r.shift = shift
  OBVIOUS
<1> HIDE DEF r
<1>14. Returned(t, v, r)
  BY <1>11, <1>12, <1>13 DEF Returned
<1> QED
  BY <1>14, ReturnRight

(* A text or a count made of this moment.                                   *)
TextOfNow(v, r) ==
  /\ r.shift \in Int /\ r = [at |-> now, shift |-> r.shift]
  /\ \E form \in {"compact", "T", "space"}, p \in Precision, z \in Int, f \in [date : Dates, time : Times] :
       /\ v = Text(form, p, f, Fraction(now, p), z)
       /\ timegm(f) = to_time_t(Shift(now, r.shift))
       /\ z # NoZone => timegm(f) - z * 3600 = now.sec

LEMMA TextMade ==
  ASSUME now \in Clock, NEW v, NEW r, TextOfNow(v, r)
  PROVE Right(v, r, TRUE)
<1>1. PICK form \in {"compact", "T", "space"}, p \in Precision, z \in Int,
           f \in [date : Dates, time : Times] :
        /\ v = Text(form, p, f, Fraction(now, p), z)
        /\ timegm(f) = to_time_t(Shift(now, r.shift))
        /\ z # NoZone => timegm(f) - z * 3600 = now.sec
  BY DEF TextOfNow
<1>2. now \in Instant /\ ~Early(now)
  BY NowIs
<1>3. /\ v.kind = "text" /\ v.date = f.date /\ v.time = f.time /\ v.p = p /\ v.fraction = Fraction(now, p)
      /\ v.zone = z
  BY <1>1 DEF Text
<1>4. Fraction(now, p) \in Int
  BY <1>1, <1>2, CutIs, NotEarly, SMT DEF Fraction
<1>5. v \in Texts
  BY <1>1, <1>4, SMT DEF Text, Texts
<1>6. r.at = now
  BY DEF TextOfNow
<1>7. timegm(v) = timegm(f)
  BY <1>1, TimegmOfText
<1>8. FractionShown(v, r.at)
  BY <1>1, <1>2, <1>3, <1>6, NotEarly DEF FractionShown
<1>9. SecondsShown(v, r.at, r.shift)
  BY <1>1, <1>6, <1>7 DEF SecondsShown
<1>10. v.zone # NoZone => timegm(v) - v.zone * 3600 = r.at.sec
  BY <1>1, <1>3, <1>6, <1>7
<1>11. TextRight(v, r, TRUE)
  BY <1>5, <1>8, <1>9, <1>10 DEF TextRight
<1> QED
  BY <1>11 DEF Right

CountOfNow(v, r) ==
  /\ r.shift \in Int /\ r = [at |-> now, shift |-> r.shift]
  /\ \E p, q \in Precision, i \in Instant :
       /\ v = Count(p, Cut(i, q)) /\ (p # "s" => q = p)
       /\ i = Shift(now, r.shift) /\ ~Early(i)

LEMMA CountMade ==
  ASSUME now \in Clock, NEW v, NEW r, CountOfNow(v, r)
  PROVE Right(v, r, TRUE)
<1>1. PICK p \in Precision, q \in Precision, i \in Instant, shift \in Int :
        /\ v = Count(p, Cut(i, q)) /\ (p # "s" => q = p)
        /\ i = Shift(now, shift) /\ ~Early(i) /\ r.shift = shift /\ r.at = now
  BY DEF CountOfNow
<1>2. now \in Instant /\ ~Early(now) /\ now.sec \in Int
  BY NowIs
<1>3. i.sec = now.sec + shift /\ i.ns = now.ns
  BY <1>1, <1>2, ShiftIs
<1>4. ~Early(Shift(now, shift))
  BY <1>1
<1>5. PICK c \in Instant : c = Cut(i, q)
  BY CutIs
<1>6. ~Early(c) /\ c.sec = now.sec + shift
  BY <1>1, <1>3, <1>5, CutIs, NotEarly
<1>7. ASSUME p # "s" PROVE Cut(c, p).ns = Cut(now, p).ns
  <2>1. Cut(c, p) = Cut(i, p)
    BY <1>1, <1>5, <1>7, CutIs
  <2>2. Cut(i, p).ns = Cut(now, p).ns
    BY <1>2, <1>3, SMT DEF Cut, Instant
  <2> QED
    BY <2>1, <2>2
<1>8. v = Count(p, c)
  BY <1>1, <1>5
<1>9. v.at = c /\ v.p = p /\ v \in Counts
  BY <1>8, SMT DEF Count, Counts
<1>10. r.at = now /\ r.shift = shift
  BY <1>1
<1>11. CountRight(v, r, TRUE)
  BY <1>2, <1>4, <1>6, <1>7, <1>9, <1>10 DEF CountRight
<1> QED
  BY <1>11 DEF Right

(* The difference of the two mktime calls is the standard offset.           *)
LEMMA DifferenceIs ==
  ASSUME NEW sec \in Int, zone \in Zone
  PROVE Difference(mktime(gmtime(sec), FALSE), mktime(localtime(sec), zone.summer)) = zone.std
<1>1. PICK std \in Int : std = zone.std
  BY ZoneAssumption
<1>2. PICK dst \in Int : dst = Summer(zone.summer)
  BY ZoneAssumption DEF Summer
<1>3. PICK a \in Int : a = timegm(gmtime(sec)) /\ a = sec
  BY TimegmOfGmtime
<1>4. PICK b \in Int : b = timegm(localtime(sec)) /\ b = sec + std + dst
  BY <1>1, <1>2, TimegmOfGmtime DEF localtime
<1>5. mktime(gmtime(sec), FALSE) = a - std - 0
  BY <1>1, <1>3 DEF mktime, Summer
<1>6. mktime(localtime(sec), zone.summer) = b - std - dst
  BY <1>1, <1>2, <1>4 DEF mktime
<1>7. (b - std - dst) - (a - std - 0) = std
  BY <1>3, <1>4, SMT
<1> QED
  BY <1>1, <1>5, <1>6, <1>7 DEF Difference

LEMMA ShownReturned ==
  ASSUME Inv, NEW t \in Thread, NEW o \in Offset, NEW p \in Precision,
         NEW form \in {"compact", "T", "space"}, NEW z, z \in {NoZone, ToldZone(o)},
         NEW fraction, fraction = Fraction(now, p)
  PROVE Return(t, Text(form, p, Shown(o), fraction, z), Nearest(o) * 3600) => Inv'
<1>1. now \in Clock
  BY DEF Inv, Typed
<1>2. PICK n \in Int, shift \in Int : n = Nearest(o) /\ shift = n * 3600
  BY <1>1, OffsetIs, ShiftedNow
<1>3. PICK f \in [date : Dates, time : Times] :
        f = Shown(o) /\ timegm(f) = to_time_t(Shift(now, shift)) /\ timegm(f) = now.sec + shift
  BY <1>1, <1>2, ShownIs
<1>4. z \in Int /\ (z # NoZone => timegm(f) - z * 3600 = now.sec)
  <2>1. z \in {NoZone, n}
    BY <1>2, OffsetIs DEF ToldZone
  <2> QED
    BY <1>1, <1>2, <1>3, <2>1, NowIs, SMT DEF NoZone
<1>5. PICK v : v = Text(form, p, f, Fraction(now, p), z)
  OBVIOUS
<1> DEFINE r == [at |-> now, shift |-> shift]
<1>6. r = [at |-> now, shift |-> r.shift] /\ r.shift = shift
  OBVIOUS
<1> HIDE DEF r
<1>7. TextOfNow(v, r)
  <2>1. v = Text(form, p, f, Fraction(now, p), z)
    BY <1>5
  <2>2. r.shift \in Int /\ r = [at |-> now, shift |-> r.shift]
    BY <1>2, <1>6
  <2>3. timegm(f) = to_time_t(Shift(now, r.shift))
    BY <1>3, <1>6, Zenon
  <2>4. z # NoZone => timegm(f) - z * 3600 = now.sec
    BY <1>4
  <2>5. \E g \in {"compact", "T", "space"}, q \in Precision, y \in Int, h \in [date : Dates, time : Times] :
          /\ v = Text(g, q, h, Fraction(now, q), y)
          /\ timegm(h) = to_time_t(Shift(now, r.shift))
          /\ y # NoZone => timegm(h) - y * 3600 = now.sec
    <3> z \in Int
      BY <1>4
    <3> WITNESS form \in {"compact", "T", "space"}, p \in Precision, z \in Int,
                f \in [date : Dates, time : Times]
    <3> QED
      BY <2>1, <2>3, <2>4
  <2> QED
    BY <2>2, <2>5 DEF TextOfNow
<1>8. Right(v, r, TRUE)
  BY <1>1, <1>7, TextMade
<1>9. Return(t, v, shift) => Returned(t, v, r)
  BY <1>6, <1>8 DEF Returned
<1> QED
  BY <1>2, <1>3, <1>5, <1>9, ReturnRight

LEMMA ReadsStep ==
  ASSUME Inv, NEW t \in Thread, Reads(t)
  PROVE Inv'
<1>1. now \in Clock /\ zone \in Zone
  BY DEF Inv, Typed
<1>2. CASE Part(t)
  BY <1>2, PartReturned
<1>3. CASE to_string(t)
  <2>1. PICK o \in Offset, p \in Precision :
          Return(t, Text("compact", p, Shown(o), Fraction(now, p), NoZone), Nearest(o) * 3600)
    BY <1>3 DEF to_string
  <2> QED
    BY <1>1, <2>1, ShownReturned
<1>4. CASE to_string_human(t)
  <2>1. PICK o \in Offset, p \in Precision, form \in {"T", "space"} :
          Return(t, Text(form, p, Shown(o), Fraction(now, p), NoZone), Nearest(o) * 3600)
    BY <1>4 DEF to_string_human
  <2> QED
    BY <1>1, <2>1, ShownReturned
<1>5. CASE to_string_seconds_offset(t)
  <2>1. PICK s \in Later, p \in Precision :
          Return(t, Text("compact", p, gmtime(to_time_t(Shift(now, s))), Fraction(now, p), NoZone), s)
    BY <1>5 DEF to_string_seconds_offset
  <2>2. s \in Int /\ to_time_t(Shift(now, s)) \in Int
    BY <1>1, ArgumentsAssumption, NowIs, ShiftIs, time_tIs
  <2>3. PICK f \in [date : Dates, time : Times] :
          f = gmtime(to_time_t(Shift(now, s))) /\ timegm(f) = to_time_t(Shift(now, s))
    BY <2>2, TimegmOfGmtime
  <2>4. PICK v : v = Text("compact", p, f, Fraction(now, p), NoZone)
    OBVIOUS
  <2> DEFINE r == [at |-> now, shift |-> s]
  <2>5. r = [at |-> now, shift |-> r.shift] /\ r.shift = s
    OBVIOUS
  <2> HIDE DEF r
  <2>6. NoZone \in Int /\ ~(NoZone # NoZone)
    BY DEF NoZone
  <2>7. TextOfNow(v, r)
    BY <2>2, <2>3, <2>4, <2>5, <2>6 DEF TextOfNow
  <2>8. Return(t, v, s)
    BY <2>1, <2>3, <2>4
  <2>9. Returned(t, v, r)
    BY <1>1, <2>2, <2>5, <2>7, <2>8, TextMade DEF Returned
  <2> QED
    BY <2>9, ReturnRight
<1>6. CASE time_zone(t)
  <2>1. PICK o \in Offset, form \in {"T", "space"} :
          Return(t, Text(form, "s", Shown(o), 0, ToldZone(o)), Nearest(o) * 3600)
    BY <1>6 DEF time_zone
  <2>2. "s" \in Precision /\ Fraction(now, "s") = 0
    BY DEF Precision, Fraction
  <2> QED
    BY <1>1, <2>1, <2>2, ShownReturned
<1>7. CASE to_millis_now(t)
  <2>1. PICK o \in Offset, p \in Precision :
          Return(t, Count(p, Cut(Shift(now, Hours(o) * 3600), IF p = "s" THEN "ms" ELSE p)),
                 Nearest(o) * 3600)
    BY <1>7 DEF to_millis_now
  <2>2. PICK shift \in Int :
          shift = Nearest(o) * 3600 /\ Shift(now, shift) \in Instant /\ ~Early(Shift(now, shift))
    BY <1>1, ShiftedNow
  <2>3. PICK q \in Precision : q = (IF p = "s" THEN "ms" ELSE p)
    BY DEF Precision
  <2>4. PICK i \in Instant : i = Shift(now, shift)
    BY <2>2
  <2>5. PICK v : v = Count(p, Cut(i, q))
    OBVIOUS
  <2>6. Return(t, v, shift)
    BY <2>1, <2>2, <2>3, <2>4, <2>5, OffsetIs
  <2> DEFINE r == [at |-> now, shift |-> shift]
  <2>7. r = [at |-> now, shift |-> r.shift] /\ r.shift = shift
    OBVIOUS
  <2> HIDE DEF r
  <2>8. CountOfNow(v, r)
    BY <2>2, <2>3, <2>4, <2>5, <2>7 DEF CountOfNow
  <2>9. Returned(t, v, r)
    BY <1>1, <2>6, <2>7, <2>8, CountMade DEF Returned
  <2> QED
    BY <2>9, ReturnRight
<1>8. CASE local_timezone(t)
  <2>1. PICK sec \in Int : sec = to_time_t(now)
    BY <1>1, NowIs
  <2>2. PICK v : v = [kind |-> "hours", hours |-> ToHours(zone.std)]
    OBVIOUS
  <2>3. Return(t, v, 0)
    BY <1>1, <1>8, <2>1, <2>2, DifferenceIs DEF local_timezone
  <2>4. v.kind = "hours" /\ v.hours = ToHours(zone.std)
    BY <2>2
  <2> DEFINE r == [at |-> now, shift |-> 0]
  <2>5. r = [at |-> now, shift |-> r.shift] /\ r.shift = 0 /\ r.shift \in Int
    OBVIOUS
  <2> HIDE DEF r
  <2>6. Right(v, r, TRUE)
    BY <2>4 DEF Right, HoursRight
  <2>7. Return(t, v, r.shift)
    BY <2>3, <2>5
  <2>8. Returned(t, v, r)
    BY <2>5, <2>6, <2>7 DEF Returned
  <2> QED
    BY <2>8, ReturnRight
<1> QED
  BY <1>2, <1>3, <1>4, <1>5, <1>6, <1>7, <1>8 DEF Reads

-----------------------------------------------------------------------------
(* A thread whose call is over, or through which another may show, reads    *)
(* the same whatever the others do with the buffer.                         *)
LEMMA ReadingKept ==
  ASSUME NEW u \in Thread, Reading(u), UNCHANGED zone,
         val'[u] = val[u], from'[u] = from[u], pc'[u] = pc[u], job'[u] = job[u], text'[u] = text[u],
         u \in mixed => u \in mixed',
         pc[u] = "idle" \/ u \in mixed' \/ (tm' = tm /\ InUse' = InUse)
  PROVE Reading(u)'
<1>1. CASE pc[u] = "idle"
  <2>1. Right(val[u], from[u], u \notin mixed)
    BY <1>1 DEF Reading
  <2>2. Right(val[u], from[u], u \notin mixed)'
    BY <2>1 DEF Right, TextRight, CountRight, HoursRight
  <2> QED
    BY <1>1, <2>2 DEF Reading
<1>2. CASE pc[u] # "idle"
  <2>1. Formats(u)
    BY <1>2 DEF Reading
  <2>2. pc'[u] = pc[u] /\ Made(u)' = Made(u)
    BY DEF Made
  <2>3. /\ val'[u] = Nothing
        /\ FractionShown([p |-> job[u].p, fraction |-> Fraction(job[u].at, job[u].p)], from[u].at)'
    BY <2>1 DEF Formats
  <2>4. ASSUME u \notin mixed'
        PROVE /\ InUse' = {u}
              /\ to_time_t(job'[u].at) = to_time_t(Shift(from'[u].at, from'[u].shift))
              /\ pc'[u] \in {"gmtime", "filled"} => tm'.date = Made(u)'.date
              /\ pc'[u] \in {"filled", "dated"} => tm'.time = Made(u)'.time
              /\ pc'[u] = "dated" => text'[u] = Made(u)'.date
    <3>1. u \notin mixed /\ tm' = tm /\ InUse' = InUse
      BY <1>2, <2>4
    <3> QED
      BY <2>1, <2>2, <3>1 DEF Formats
  <2>5. Formats(u)'
    BY <2>3, <2>4 DEF Formats
  <2> QED
    BY <1>2, <2>2, <2>5 DEF Reading
<1> QED
  BY <1>1, <1>2

LEMMA FractionTyped ==
  ASSUME NEW i \in Instant, NEW p \in Precision
  PROVE Fraction(i, p) \in Int
BY CutIs, BillionIs, SMT DEF Fraction, Rest

(* What a thread that is not inside to_millis_string holds.                 *)
LEMMA KindIs ==
  ASSUME Inv, NEW t \in Thread, pc[t] = "idle"
  PROVE /\ val[t].kind = "text" => TextRight(val[t], from[t], t \notin mixed)
        /\ val[t].kind = "count" => CountRight(val[t], from[t], t \notin mixed)
        /\ val[t].kind = "part" => PartRight(val[t], from[t])
        /\ val[t].kind = "hours" => HoursRight(val[t])
BY DEF Inv, Reading, Right, TextRight, CountRight, PartRight, HoursRight, Texts, Counts, Nothing, Thrown

LEMMA ParsedIs ==
  ASSUME NEW v, v.date \in Dates, v.time \in Times, zone \in Zone
  PROVE /\ timegm(v) \in Int /\ zone.std \in Int
        /\ Parsed(v) = timegm(v) - zone.std
<1>1. timegm(v) \in Int /\ zone.std \in Int
  BY TimegmTyped, ZoneAssumption
<1>2. Parsed(v) = timegm(v) - zone.std - 0
  BY DEF Parsed, mktime, Summer
<1> QED
  BY <1>1, <1>2, SMT

(* An instant of a whole second is itself at every precision.               *)
LEMMA WholeSecond ==
  ASSUME NEW s \in Int, NEW p \in Precision
  PROVE /\ [sec |-> s, ns |-> 0] \in Instant /\ ~Early([sec |-> s, ns |-> 0])
        /\ Cut([sec |-> s, ns |-> 0], p).ns = 0
<1>1. [sec |-> s, ns |-> 0] \in Instant
  BY InstantOf, BillionIs, SMT
<1>2. Cut([sec |-> s, ns |-> 0], p).ns \in Int /\ 0 <= Cut([sec |-> s, ns |-> 0], p).ns
      /\ Cut([sec |-> s, ns |-> 0], p).ns <= 0
  BY <1>1, CutIs
<1>3. ~Early([sec |-> s, ns |-> 0])
  BY SMT DEF Early
<1> QED
  BY <1>1, <1>2, <1>3, SMT

LEMMA to_millisStep ==
  ASSUME Inv, NEW t \in Thread, to_millis(t)
  PROVE Inv'
<1>1. /\ Typed /\ zone \in Zone /\ pc[t] = "idle"
      /\ UNCHANGED << zone, now, tm, pc, job, text, mixed >>
  BY DEF Inv, Typed, to_millis, Called
<1>2. TextRight(val[t], from[t], t \notin mixed)
  BY <1>1, KindIs DEF to_millis
<1>3. PICK sec \in Int, std \in Int : /\ sec = timegm(val[t]) /\ std = zone.std
                                      /\ Parsed(val[t]) = sec - std
  <2>1. val[t].date \in Dates /\ val[t].time \in Times
    BY <1>2 DEF TextRight, Texts
  <2> QED
    BY <1>1, <2>1, ParsedIs
<1>4. CASE val[t].form = "compact"
  <2>1. val' = [val EXCEPT ![t] = Thrown] /\ from' = from
    BY <1>4 DEF to_millis
  <2>2. Typed'
    BY <1>1, <2>1 DEF Typed
  <2>3. ASSUME NEW u \in Thread PROVE Reading(u)'
    <3>1. CASE u = t
      BY <1>1, <2>1, <3>1 DEF Typed, Reading, Right
    <3>2. CASE u # t
      BY <1>1, <2>1, <3>2, ReadingKept DEF Typed, Inv, InUse
    <3> QED
      BY <3>1, <3>2
  <2> QED
    BY <2>2, <2>3 DEF Inv
<1>5. CASE val[t].form # "compact"
  <2>1. PICK f \in [at : Instant, shift : Int] : f = from[t]
    BY <1>1 DEF Typed
  <2>2. PICK s \in Int : s = to_time_t(Shift(f.at, f.shift))
    BY <2>1, ShiftIs, time_tIs
  <2>3. PICK p \in Precision :
          /\ val' = [val EXCEPT ![t] = Count(p, [sec |-> sec - std, ns |-> 0])]
          /\ from' = [from EXCEPT ![t] = [at |-> [sec |-> s, ns |-> 0], shift |-> -std]]
    BY <1>1, <1>3, <1>5, <2>1, <2>2 DEF to_millis, Typed
  <2>4. PICK i \in Instant, j \in Instant :
          /\ i = [sec |-> sec - std, ns |-> 0] /\ j = [sec |-> s, ns |-> 0]
          /\ ~Early(i) /\ ~Early(j) /\ Cut(i, p).ns = 0 /\ Cut(j, p).ns = 0
    <3>1. sec - std \in Int
      OBVIOUS
    <3> QED
      BY <3>1, WholeSecond
  <2>5. PICK v, r : /\ v = Count(p, i) /\ r = [at |-> j, shift |-> -std]
                    /\ val' = [val EXCEPT ![t] = v] /\ from' = [from EXCEPT ![t] = r]
    BY <2>3, <2>4
  <2>6. CountRight(v, r, t \notin mixed)
    <3>1. v \in Counts /\ v.at = i /\ v.p = p
      BY <2>5 DEF Count, Counts
    <3>2. r.at = j /\ r.shift = -std /\ r \in [at : Instant, shift : Int]
      BY <2>5
    <3>3. ~Early(Shift(j, -std))
      <4>1. Shift(j, -std).ns = 0
        <5>1. -std \in Int
          OBVIOUS
        <5> QED
          BY <2>4, <5>1, ShiftIs
      <4> QED
        BY <4>1, SMT DEF Early
    <3>4. t \notin mixed => i.sec = j.sec + (-std)
      <4>1. t \notin mixed => sec = s
        BY <1>2, <1>3, <2>1, <2>2 DEF TextRight, SecondsShown
      <4> QED
        BY <2>4, <4>1
    <3> QED
      BY <2>4, <3>1, <3>2, <3>3, <3>4 DEF CountRight
  <2>7. Typed'
    <3>1. val' = [u \in Thread |-> val'[u]]
      BY <1>1, <2>5 DEF Typed
    <3>2. from' \in [Thread -> [at : Instant, shift : Int]]
      BY <1>1, <2>5 DEF Typed
    <3> QED
      BY <1>1, <3>1, <3>2 DEF Typed
  <2>8. ASSUME NEW u \in Thread PROVE Reading(u)'
    <3>1. CASE u = t
      <4>1. val'[u] = v /\ from'[u] = r /\ pc'[u] = "idle" /\ mixed' = mixed
        BY <1>1, <2>5, <3>1 DEF Typed
      <4>2. CountRight(val[u], from[u], u \notin mixed)'
        BY <2>6, <3>1, <4>1
      <4> QED
        BY <4>1, <4>2 DEF Reading, Right
    <3>2. CASE u # t
      BY <1>1, <2>5, <3>2, ReadingKept DEF Typed, Inv, InUse
    <3> QED
      BY <3>1, <3>2
  <2> QED
    BY <2>7, <2>8 DEF Inv
<1> QED
  BY <1>4, <1>5

(* Entering to_millis_string for the instant i; the caller's own text is    *)
(* its own when nobody else is inside.                                      *)
Entered(t, p, i, form, r) ==
  /\ Enter(t, p, i, form)
  /\ from' = [from EXCEPT ![t] = r]
  /\ mixed \subseteq mixed' \cup {t} /\ mixed' \subseteq mixed \cup InUse \cup {t}
  /\ t \notin mixed' => InUse = {}
  /\ InUse # {} => InUse \subseteq mixed'
  /\ FractionShown([p |-> p, fraction |-> Fraction(i, p)], r.at)
  /\ t \notin mixed' => to_time_t(i) = to_time_t(Shift(r.at, r.shift))

LEMMA EnteredStep ==
  ASSUME Inv, NEW t \in Thread, NEW p \in Precision, NEW i \in Instant, NEW form \in {"T", "space"},
         NEW r \in [at : Instant, shift : Int], Entered(t, p, i, form, r)
  PROVE Inv'
<1>1. /\ Typed /\ pc[t] = "idle" /\ UNCHANGED << zone, now, text >>
  BY DEF Inv, Entered, Enter, Called
<1>2. PICK j \in [p : Precision, at : Instant, form : {"T", "space"}] :
        /\ j = [p |-> p, at |-> i, form |-> form] /\ job' = [job EXCEPT ![t] = j]
        /\ j.p = p /\ j.at = i
  <2> DEFINE k == [p |-> p, at |-> i, form |-> form]
  <2>1. job' = [job EXCEPT ![t] = k]
    BY DEF Entered, Enter
  <2>2. k \in [p : Precision, at : Instant, form : {"T", "space"}] /\ k.p = p /\ k.at = i
    OBVIOUS
  <2> QED
    BY <2>1, <2>2
<1>3. gmtime(to_time_t(i)) \in [date : Dates, time : Times]
  BY time_tIs, TimegmOfGmtime
<1>4. /\ pc' = [pc EXCEPT ![t] = "gmtime"] /\ val' = [val EXCEPT ![t] = Nothing]
      /\ tm' = [tm EXCEPT !.date = gmtime(to_time_t(i)).date]
      /\ from' = [from EXCEPT ![t] = r]
      /\ mixed \subseteq mixed' \cup {t} /\ mixed' \subseteq mixed \cup InUse \cup {t}
  BY DEF Entered, Enter
<1>5. Typed'
  <2>1. tm' \in [date : Dates, time : Times] /\ tm'.date = gmtime(to_time_t(i)).date
    BY <1>1, <1>3, <1>4 DEF Typed
  <2>2. job' \in [Thread -> [p : Precision, at : Instant, form : {"T", "space"}]]
    BY <1>1, <1>2 DEF Typed
  <2>3. pc' \in [Thread -> {"idle", "gmtime", "filled", "dated"}]
    BY <1>1, <1>4 DEF Typed
  <2>4. val' = [u \in Thread |-> val'[u]] /\ from' \in [Thread -> [at : Instant, shift : Int]]
    BY <1>1, <1>4 DEF Typed
  <2>5. mixed' \in SUBSET Thread
    BY <1>1, <1>4 DEF Typed, InUse
  <2> QED
    BY <1>1, <2>1, <2>2, <2>3, <2>4, <2>5 DEF Typed
<1>6. Formats(t)'
  <2>1. val'[t] = Nothing /\ pc'[t] = "gmtime" /\ job'[t].p = p /\ job'[t].at = i /\ from'[t] = r
    BY <1>1, <1>2, <1>4 DEF Typed
  <2>2. FractionShown([p |-> job[t].p, fraction |-> Fraction(job[t].at, job[t].p)], from[t].at)'
    BY <2>1 DEF Entered
  <2>3. ASSUME t \notin mixed'
        PROVE InUse' = {t} /\ to_time_t(i) = to_time_t(Shift(r.at, r.shift))
    BY <1>1, <1>4, <2>3 DEF Entered, InUse, Typed
  <2>4. tm'.date = Made(t)'.date
    BY <1>1, <1>4, <2>1 DEF Typed, Made
  <2> QED
    BY <2>1, <2>2, <2>3, <2>4 DEF Formats
<1>7. ASSUME NEW u \in Thread PROVE Reading(u)'
  <2>1. CASE u = t
    BY <1>1, <1>4, <1>6, <2>1 DEF Typed, Reading
  <2>2. CASE u # t
    <3>1. Reading(u) /\ UNCHANGED zone
      BY <1>1 DEF Inv
    <3>2. /\ val'[u] = val[u] /\ from'[u] = from[u] /\ pc'[u] = pc[u] /\ job'[u] = job[u]
          /\ text'[u] = text[u]
      BY <1>1, <1>2, <1>4, <2>2 DEF Typed
    <3>3. u \in mixed => u \in mixed'
      BY <1>4, <2>2
    <3>4. pc[u] = "idle" \/ u \in mixed'
      BY DEF Entered, InUse
    <3> QED
      BY <3>1, <3>2, <3>3, <3>4, ReadingKept
  <2> QED
    BY <2>1, <2>2
<1> QED
  BY <1>5, <1>7 DEF Inv

LEMMA FormatGivenStep ==
  ASSUME Inv, NEW t \in Thread, FormatGiven(t)
  PROVE Inv'
<1>1. PICK i \in Given, p \in Precision, form \in {"T", "space"} :
        /\ p # "s" => i = Cut(i, p)
        /\ Enter(t, p, i, form)
        /\ from' = [from EXCEPT ![t] = [at |-> i, shift |-> 0]]
  BY DEF FormatGiven
<1>2. i \in Instant
  BY GivenAssumption
<1>3. PICK r \in [at : Instant, shift : Int] :
        r = [at |-> i, shift |-> 0] /\ r.at = i /\ r.shift = 0 /\ from' = [from EXCEPT ![t] = r]
  <2> DEFINE k == [at |-> i, shift |-> 0]
  <2>1. k \in [at : Instant, shift : Int] /\ k.at = i /\ k.shift = 0
    BY <1>2
  <2> QED
    BY <1>1, <2>1
<1>4. Shift(i, 0) = i
  BY <1>2, SMT DEF Shift, Instant
<1>5. FractionShown([p |-> p, fraction |-> Fraction(i, p)], i)
  <2>1. Rest(i) = IF Early(i) THEN i.ns - Billion ELSE i.ns
    BY DEF Rest
  <2>2. p # "s" => Fraction(i, p) = Rest(i)
    BY <1>1 DEF Fraction
  <2> QED
    BY <1>1, <2>1, <2>2 DEF FractionShown
<1>6. /\ mixed \subseteq mixed' \cup {t} /\ mixed' \subseteq mixed \cup InUse \cup {t}
      /\ t \notin mixed' => InUse = {}
      /\ InUse # {} => InUse \subseteq mixed'
  BY DEF FormatGiven
<1>7. Entered(t, p, i, form, r)
  BY <1>1, <1>3, <1>4, <1>5, <1>6 DEF Entered
<1> QED
  BY <1>2, <1>7, EnteredStep

LEMMA FormatCountStep ==
  ASSUME Inv, NEW t \in Thread, FormatCount(t)
  PROVE Inv'
<1>1. PICK form \in {"T", "space"} : Enter(t, val[t].p, val[t].at, form)
  BY DEF FormatCount
<1>2. Typed /\ pc[t] = "idle"
  BY <1>1 DEF Inv, Enter, Called
<1>3. PICK r \in [at : Instant, shift : Int] : r = from[t] /\ from' = [from EXCEPT ![t] = r]
  BY <1>2 DEF Typed, FormatCount
<1>4. CountRight(val[t], r, t \notin mixed)
  BY <1>2, <1>3, KindIs DEF FormatCount
<1>5. PICK p \in Precision, i \in Instant :
        /\ p = val[t].p /\ i = val[t].at /\ ~Early(i) /\ ~Early(r.at) /\ ~Early(Shift(r.at, r.shift))
        /\ p # "s" => Cut(i, p).ns = Cut(r.at, p).ns
        /\ t \notin mixed => i.sec = r.at.sec + r.shift
  BY <1>4 DEF CountRight, Counts
<1>6. FractionShown([p |-> p, fraction |-> Fraction(i, p)], r.at)
  BY <1>5, NotEarly DEF FractionShown
<1>7. t \notin mixed => to_time_t(i) = to_time_t(Shift(r.at, r.shift))
  <2>1. PICK at \in Instant, shift \in Int : at = r.at /\ shift = r.shift
    OBVIOUS
  <2>2. Shift(at, shift) \in Instant /\ Shift(at, shift).sec = at.sec + shift
    BY ShiftIs
  <2>3. to_time_t(i) = i.sec /\ to_time_t(Shift(at, shift)) = at.sec + shift
    BY <1>5, <2>1, <2>2, time_tIs
  <2> QED
    BY <1>5, <2>1, <2>3
<1>8. /\ mixed \subseteq mixed' \cup {t} /\ mixed' \subseteq mixed \cup InUse \cup {t}
      /\ t \notin mixed' => InUse = {} /\ t \notin mixed
      /\ InUse # {} => InUse \subseteq mixed'
  BY DEF FormatCount
<1>9. Entered(t, p, i, form, r)
  BY <1>1, <1>3, <1>5, <1>6, <1>7, <1>8 DEF Entered
<1> QED
  BY <1>9, EnteredStep

(* A thread that is inside: another one that is too shows through.          *)
LEMMA OnlyOne ==
  ASSUME Inv, NEW t \in Thread, pc[t] # "idle", NEW u \in Thread, u # t
  PROVE pc[u] = "idle" \/ u \in mixed
BY DEF Inv, Reading, Formats, InUse

LEMMA FillTimeStep ==
  ASSUME Inv, NEW t \in Thread, FillTime(t)
  PROVE Inv'
<1>1. /\ Typed /\ pc[t] = "gmtime" /\ pc' = [pc EXCEPT ![t] = "filled"]
      /\ UNCHANGED << zone, now, job, text, val, from, calls, mixed >>
  BY DEF Inv, FillTime
<1>2. PICK time \in Times : time = Made(t).time /\ tm' = [tm EXCEPT !.time = time]
  <2>1. job[t].at \in Instant
    BY <1>1 DEF Typed
  <2>2. Made(t) \in [date : Dates, time : Times]
    BY <2>1, time_tIs, TimegmOfGmtime DEF Made
  <2> QED
    BY <2>2 DEF FillTime, Made
<1>3. Typed'
  BY <1>1, <1>2 DEF Typed
<1>4. Formats(t)'
  <2>1. Formats(t)
    BY <1>1 DEF Inv, Reading
  <2>2. /\ pc'[t] = "filled" /\ InUse' = InUse /\ Made(t)' = Made(t)
        /\ tm'.time = Made(t).time /\ tm'.date = tm.date
    BY <1>1, <1>2 DEF Typed, InUse, Made
  <2> QED
    BY <1>1, <2>1, <2>2 DEF Formats
<1>5. ASSUME NEW u \in Thread PROVE Reading(u)'
  <2>1. CASE u = t
    BY <1>1, <1>4, <2>1 DEF Typed, Reading
  <2>2. CASE u # t
    BY <1>1, <2>2, OnlyOne, ReadingKept DEF Typed, Inv
  <2> QED
    BY <2>1, <2>2
<1> QED
  BY <1>3, <1>5 DEF Inv

LEMMA PutDateStep ==
  ASSUME Inv, NEW t \in Thread, PutDate(t)
  PROVE Inv'
<1>1. /\ Typed /\ pc[t] = "filled" /\ pc' = [pc EXCEPT ![t] = "dated"]
      /\ text' = [text EXCEPT ![t] = tm.date]
      /\ UNCHANGED << zone, now, tm, job, val, from, calls, mixed >>
  BY DEF Inv, PutDate
<1>2. Typed'
  BY <1>1 DEF Typed
<1>3. Formats(t)'
  <2>1. Formats(t)
    BY <1>1 DEF Inv, Reading
  <2>2. pc'[t] = "dated" /\ InUse' = InUse /\ Made(t)' = Made(t) /\ text'[t] = tm.date
    BY <1>1 DEF Typed, InUse, Made
  <2> QED
    BY <1>1, <2>1, <2>2 DEF Formats
<1>4. ASSUME NEW u \in Thread PROVE Reading(u)'
  <2>1. CASE u = t
    BY <1>1, <1>3, <2>1 DEF Typed, Reading
  <2>2. CASE u # t
    BY <1>1, <2>2, OnlyOne, ReadingKept DEF Typed, Inv
  <2> QED
    BY <2>1, <2>2
<1> QED
  BY <1>2, <1>4 DEF Inv

(* A text that put_time has written is right when what it was written from  *)
(* was.                                                                     *)
LEMMA FormattedText ==
  ASSUME Inv, NEW t \in Thread, pc[t] = "dated",
         NEW v, v = Text(job[t].form, job[t].p, [date |-> text[t], time |-> tm.time],
                         Fraction(job[t].at, job[t].p), NoZone)
  PROVE TextRight(v, from[t], t \notin mixed)
<1>1. Typed /\ Formats(t)
  BY DEF Inv, Reading
<1>2. PICK j \in [p : Precision, at : Instant, form : {"T", "space"}] : j = job[t]
  BY <1>1 DEF Typed
<1>3. PICK f \in [date : Dates, time : Times] : f = [date |-> text[t], time |-> tm.time]
  BY <1>1 DEF Typed
<1>4. PICK fraction \in Int : fraction = Fraction(j.at, j.p)
  BY <1>2, FractionTyped
<1>5. v = Text(j.form, j.p, f, fraction, NoZone)
  BY <1>2, <1>3, <1>4
<1>6. v \in Texts /\ v.zone = NoZone /\ v.p = j.p /\ v.fraction = fraction
  BY <1>5, SMT DEF Text, Texts, NoZone
<1>7. FractionShown(v, from[t].at)
  BY <1>1, <1>2, <1>4, <1>6 DEF Formats, FractionShown
<1>8. ASSUME t \notin mixed PROVE SecondsShown(v, from[t].at, from[t].shift)
  <2>1. PICK g : g = Made(t) /\ text[t] = g.date /\ tm.time = g.time
    BY <1>1, <1>8 DEF Formats
  <2>2. timegm(f) = timegm(g)
    BY <1>3, <2>1 DEF timegm
  <2>3. timegm(g) = to_time_t(j.at)
    BY <1>2, <2>1, time_tIs, TimegmOfGmtime DEF Made
  <2>4. timegm(v) = timegm(f)
    BY <1>5, TimegmOfText
  <2>5. to_time_t(j.at) = to_time_t(Shift(from[t].at, from[t].shift))
    BY <1>1, <1>2, <1>8 DEF Formats
  <2> QED
    BY <2>2, <2>3, <2>4, <2>5 DEF SecondsShown
<1> QED
  BY <1>6, <1>7, <1>8 DEF TextRight

LEMMA PutTimeStep ==
  ASSUME Inv, NEW t \in Thread, PutTime(t)
  PROVE Inv'
<1>1. /\ Typed /\ pc[t] = "dated" /\ pc' = [pc EXCEPT ![t] = "idle"]
      /\ UNCHANGED << zone, now, tm, from, calls, mixed >>
  BY DEF Inv, PutTime
<1>2. PICK v : /\ v = Text(job[t].form, job[t].p, [date |-> text[t], time |-> tm.time],
                           Fraction(job[t].at, job[t].p), NoZone)
               /\ val' = [val EXCEPT ![t] = v]
  BY DEF PutTime
<1>3. TextRight(v, from[t], t \notin mixed)
  BY <1>1, <1>2, FormattedText
<1>4. Typed'
  <2>1. NoJob \in [p : Precision, at : Instant, form : {"T", "space"}]
    BY BillionIs, InstantOf DEF NoJob, Precision
  <2>2. Epoch.date \in Dates
    BY TimegmOfGmtime DEF Epoch
  <2>3. job' \in [Thread -> [p : Precision, at : Instant, form : {"T", "space"}]]
    BY <1>1, <2>1 DEF Typed, PutTime
  <2>4. text' \in [Thread -> Dates]
    BY <1>1, <2>2 DEF Typed, PutTime
  <2>5. val' = [u \in Thread |-> val'[u]] /\ pc' \in [Thread -> {"idle", "gmtime", "filled", "dated"}]
    BY <1>1, <1>2 DEF Typed
  <2> QED
    BY <1>1, <2>3, <2>4, <2>5 DEF Typed
<1>5. ASSUME NEW u \in Thread PROVE Reading(u)'
  <2>1. CASE u = t
    <3>1. val'[t] = v /\ pc'[t] = "idle" /\ from' = from /\ mixed' = mixed
      BY <1>1, <1>2 DEF Typed
    <3>2. TextRight(val[t], from[t], t \notin mixed)'
      BY <1>3, <3>1
    <3> QED
      BY <2>1, <3>1, <3>2 DEF Reading, Right
  <2>2. CASE u # t
    <3>1. job'[u] = job[u] /\ text'[u] = text[u]
      BY <1>1, <2>2 DEF Typed, PutTime
    <3>2. val'[u] = val[u] /\ pc'[u] = pc[u]
      BY <1>1, <1>2, <2>2 DEF Typed
    <3> QED
      BY <1>1, <2>2, <3>1, <3>2, OnlyOne, ReadingKept DEF Inv
  <2> QED
    BY <2>1, <2>2
<1> QED
  BY <1>4, <1>5 DEF Inv

-----------------------------------------------------------------------------
LEMMA InitInv == Init => Inv
<1> SUFFICES ASSUME Init PROVE Inv
  OBVIOUS
<1>1. PICK f \in [date : Dates, time : Times] : f = Epoch
  BY TimegmOfGmtime DEF Epoch
<1>2. now \in Instant /\ zone \in Zone
  BY NowIs DEF Init
<1>3. NoJob \in [p : Precision, at : Instant, form : {"T", "space"}]
  BY BillionIs, InstantOf DEF NoJob, Precision
<1>4. from \in [Thread -> [at : Instant, shift : Int]]
  <2>1. [at |-> now, shift |-> 0] \in [at : Instant, shift : Int]
    BY <1>2
  <2> QED
    BY <2>1 DEF Init
<1>5. val = [t \in Thread |-> Nothing] /\ \A t \in Thread : pc[t] = "idle" /\ val[t] = Nothing
  BY DEF Init
<1>6. Typed
  <2>1. tm \in [date : Dates, time : Times] /\ text \in [Thread -> Dates]
    BY <1>1 DEF Init
  <2>2. job \in [Thread -> [p : Precision, at : Instant, form : {"T", "space"}]]
    BY <1>3 DEF Init
  <2>3. pc \in [Thread -> {"idle", "gmtime", "filled", "dated"}] /\ mixed \in SUBSET Thread
    BY DEF Init
  <2>4. val = [t \in Thread |-> val[t]]
    BY <1>5
  <2> QED
    BY <1>2, <1>4, <2>1, <2>2, <2>3, <2>4 DEF Typed, Init
<1>7. \A t \in Thread : Reading(t)
  BY <1>5 DEF Reading, Right
<1> QED
  BY <1>6, <1>7 DEF Inv

LEMMA NextInv == Inv /\ [Next]_vars => Inv'
<1> SUFFICES ASSUME Inv, [Next]_vars PROVE Inv'
  OBVIOUS
<1>1. CASE UNCHANGED << zone, tm, pc, job, text, val, from, mixed >> /\ now' \in Clock
  <2>1. Typed'
    BY <1>1 DEF Inv, Typed
  <2>2. ASSUME NEW u \in Thread PROVE Reading(u)'
    <3>1. InUse' = InUse
      BY <1>1 DEF InUse
    <3> QED
      BY <1>1, <3>1, ReadingKept DEF Inv
  <2> QED
    BY <2>1, <2>2 DEF Inv
<1>2. CASE Tick
  BY <1>1, <1>2 DEF Tick
<1>3. CASE UNCHANGED vars
  BY <1>1, <1>3 DEF vars, Inv, Typed
<1>4. ASSUME NEW t \in Thread, Reads(t) \/ to_millis(t) \/ to_millis_string(t)
      PROVE Inv'
  <2>1. CASE Reads(t)
    BY <2>1, ReadsStep
  <2>2. CASE to_millis(t)
    BY <2>2, to_millisStep
  <2>3. CASE to_millis_string(t)
    BY <2>3, FormatGivenStep, FormatCountStep, FillTimeStep, PutDateStep, PutTimeStep
    DEF to_millis_string
  <2> QED
    BY <1>4, <2>1, <2>2, <2>3
<1> QED
  BY <1>2, <1>3, <1>4 DEF Next, Ended

LEMMA InvHolds == Spec => []Inv
<1>1. Init => Inv
  BY InitInv
<1>2. Inv /\ [Next]_vars => Inv'
  BY NextInv
<1> QED
  BY <1>1, <1>2, PTL DEF Spec

-----------------------------------------------------------------------------
(* While a call formats, the caller has nothing yet.                        *)
LEMMA Outside ==
  ASSUME Inv, NEW t \in Thread, val[t].kind # "nothing"
  PROVE pc[t] = "idle"
<1>1. val[t] # Nothing
  BY DEF Nothing
<1> QED
  BY <1>1 DEF Inv, Reading, Formats

(* Whatever the threads call and in whatever order, a text or a packed      *)
(* number shows the instant it was made from, shifted by what was asked     *)
(* for; only a text of two calls of to_millis_string at once need not, and  *)
(* its digits behind the point do even then.                                *)
THEOREM ShowsItsInstantHolds == Spec => []ShowsItsInstant
<1>1. ASSUME Inv PROVE ShowsItsInstant
  <2>1. ASSUME NEW t \in Thread, val[t].kind = "text"
        PROVE /\ t \notin mixed => SecondsShown(val[t], from[t].at, from[t].shift)
              /\ FractionShown(val[t], from[t].at)
    <3>1. pc[t] = "idle"
      BY <1>1, <2>1, Outside
    <3> QED
      BY <1>1, <2>1, <3>1, KindIs DEF TextRight
  <2>2. ASSUME NEW t \in Thread, val[t].kind = "part"
        PROVE SecondsShown(Unpacked(val[t]), from[t].at, from[t].shift) /\ PartsShown(val[t])
    <3>1. pc[t] = "idle"
      BY <1>1, <2>2, Outside
    <3> QED
      BY <1>1, <2>2, <3>1, KindIs DEF PartRight
  <2> QED
    BY <2>1, <2>2 DEF ShowsItsInstant
<1> QED
  BY <1>1, InvHolds, PTL

(* A count is of the instant it was made from, at its offset; a count of a  *)
(* text, of that text's instant less the standard offset of the zone.       *)
THEOREM CountsItsInstantHolds == Spec => []CountsItsInstant
<1>1. ASSUME Inv PROVE CountsItsInstant
  <2>1. ASSUME NEW t \in Thread \ mixed, val[t].kind = "count"
        PROVE val[t].at.sec = from[t].at.sec + from[t].shift
    <3>1. pc[t] = "idle"
      BY <1>1, <2>1, Outside
    <3> QED
      BY <1>1, <2>1, <3>1, KindIs DEF CountRight
  <2> QED
    BY <2>1 DEF CountsItsInstant
<1> QED
  BY <1>1, InvHolds, PTL

(* A text that tells a zone names the second the clock was read at.         *)
THEOREM ZoneNamesNowHolds == Spec => []ZoneNamesNow
<1>1. ASSUME Inv PROVE ZoneNamesNow
  <2>1. ASSUME NEW t \in Thread, val[t].kind = "text", val[t].zone # NoZone
        PROVE timegm(val[t]) - val[t].zone * 3600 = from[t].at.sec
    <3>1. pc[t] = "idle"
      BY <1>1, <2>1, Outside
    <3> QED
      BY <1>1, <2>1, <3>1, KindIs DEF TextRight
  <2> QED
    BY <2>1 DEF ZoneNamesNow
<1> QED
  BY <1>1, InvHolds, PTL

(* Where offsets are whole hours and it is not summer, the offset that      *)
(* local_timezone has told shows the wall clock, now and ever after.        *)
THEOREM LocalIsWallHolds == Spec => []LocalIsWall
<1>1. ASSUME Inv PROVE LocalIsWall
  <2>1. ASSUME NEW t \in Thread, val[t].kind = "hours", zone.std % 3600 = 0, ~zone.summer
        PROVE Shown(val[t].hours) = localtime(to_time_t(now))
    <3>1. pc[t] = "idle"
      BY <1>1, <2>1, Outside
    <3>2. val[t].hours = ToHours(zone.std)
      BY <1>1, <2>1, <3>1, KindIs DEF HoursRight
    <3>3. PICK std \in Int : std = zone.std /\ -12 * 3600 <= std /\ std <= 14 * 3600
      BY <1>1, ZoneAssumption DEF Inv, Typed
    <3>4. Clamp(ToHours(std)) * 3600 = std
      BY <2>1, <3>3, SMT DEF ToHours, Clamp
    <3>5. Shown(val[t].hours) = gmtime(to_time_t(now) + std)
      BY <3>2, <3>3, <3>4 DEF Shown
    <3>6. PICK sec \in Int : sec = to_time_t(now)
      BY <1>1, NowIs DEF Inv, Typed
    <3>7. localtime(sec) = gmtime(sec + std)
      BY <2>1, <3>3, <3>6, SMT DEF localtime, Summer
    <3> QED
      BY <3>5, <3>6, <3>7
  <2> QED
    BY <2>1 DEF LocalIsWall
<1> QED
  BY <1>1, InvHolds, PTL
=============================================================================
