---------------------------- MODULE MCDateAndTime ----------------------------
(* Two threads around a turn of the year and a leap day, with fractions of   *)
(* nines and of leading zeros, on a machine in Sao Paulo or, in its summer,  *)
(* in Adelaide; a count from before 1970; offsets beyond both limits.        *)
EXTENDS DateAndTime, TLC
CONSTANTS t1, t2
MCThread == {t1, t2}
At(s, n) == [sec |-> s, ns |-> n]
MCClock == {At(1704067199, 999999999), At(1709251199, 7000)}
MCGiven == {At(-1, 500000000), At(1709164800, 1)}
MCOffset == {-13, -3, 15}
MCLater == {90000}
TimeZone(std, dst, summer) == [std |-> std, dst |-> dst, summer |-> summer]
MCZone == {TimeZone(-10800, 0, FALSE), TimeZone(34200, 3600, TRUE)}
Symmetric == Permutations(MCThread)
=============================================================================
