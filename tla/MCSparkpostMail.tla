-------------------------- MODULE MCSparkpostMail --------------------------
(* A call from a thread of the program and one from a handler on the loop.   *)
EXTENDS SparkpostMail
CONSTANTS c1, c2
MCCalls == {c1, c2}
MCLoopCalls == {c2}
=============================================================================
