---------------------------- MODULE CouchbaseQuery ----------------------------
(***************************************************************************)
(* ICouchbaseCoreInterface::_ICouchbase: execute_sqlpp, which waits for the *)
(* answer, and execute_sqlpp_future, which hands the caller a future.       *)
(* Several callers query one cluster whose index lags behind its data, so   *)
(* that a select that does not ask for request_plus may miss what has been  *)
(* inserted.  A query takes a while to reach the service, and no order is   *)
(* kept among those on their way.                                           *)
(***************************************************************************)
EXTENDS Integers

CONSTANTS
  Slot,        \* a thread and a function: what it has in the air through it
  MaxInserts,  \* bound: inserts that are asked for
  MaxFailures    \* bound: queries that end in an error or an exception

Via == {"execute_sqlpp", "execute_sqlpp_future"}
Calls == {s \in Slot : s[2] = "execute_sqlpp"}
Futures == Slot \ Calls
(* The scan consistency of an insert changes nothing.                       *)
Select == [insert : {FALSE}, consistent : BOOLEAN]
Insert == [insert : {TRUE}, consistent : {FALSE}]

ASSUME SlotAssumption == \A s \in Slot : s = << s[1], s[2] >> /\ s[2] \in Via
ASSUME QueryBoundsAssumption == MaxInserts \in Nat /\ MaxFailures \in Nat

VARIABLES
  query,    \* the query of a slot, answered or not
  state,    \* "free"; "asked"; "arrived"; "served" or "failed"; "done" once the caller has it
  returned,   \* what the function returned
  target,   \* up to which insert the index must be before the service answers a request it has
  data,     \* up to which insert an answered select has seen them, or which one an insert was
  must,     \* history: the last insert that was acknowledged when it was asked
  written, indexed,   \* the inserts so far, counted in their order
  acked,    \* history: the last insert some caller knows to be done
  asked, failures

qvars == << query, state, returned, target, data, must, written, indexed, acked, asked, failures >>

QueryInit ==
  /\ query = [s \in Slot |-> [insert |-> FALSE, consistent |-> FALSE]]
  /\ state = [s \in Slot |-> "free"] /\ returned = [s \in Slot |-> 0]
  /\ target = [s \in Slot |-> 0] /\ data = [s \in Slot |-> 0] /\ must = [s \in Slot |-> 0]
  /\ written = 0 /\ indexed = 0 /\ acked = 0 /\ asked = 0 /\ failures = 0

(* A thread inside execute_sqlpp does nothing else.                         *)
Runs(c) == \A s \in Calls : s[1] = c => state[s] \in {"free", "done"}
Failure == failures < MaxFailures /\ failures' = failures + 1

(* The scan_consistency of the request: the two functions read their last   *)
(* argument in opposite senses.                                             *)
RequestPlus_Inverted(s) == ~query[s].consistent
RequestPlus(s) == IF s[2] = "execute_sqlpp" THEN query[s].consistent ELSE ~query[s].consistent

Ask(s, q) ==
  /\ Runs(s[1]) /\ state[s] \in {"free", "done"} /\ (q.insert => asked < MaxInserts)
  /\ query' = [query EXCEPT ![s] = q] /\ must' = [must EXCEPT ![s] = IF q.insert THEN 0 ELSE acked]
  /\ data' = [data EXCEPT ![s] = 0]
  /\ asked' = IF q.insert THEN asked + 1 ELSE asked
  /\ \/ /\ state' = [state EXCEPT ![s] = "asked"] /\ UNCHANGED failures
        /\ returned' = [returned EXCEPT ![s] = IF s[2] = "execute_sqlpp" THEN 0 ELSE 1]
     \/ /\ state' = [state EXCEPT ![s] = "free"] /\ returned' = [returned EXCEPT ![s] = -69] /\ Failure
  /\ UNCHANGED << target, written, indexed, acked >>

(* The query service.  A request that comes with request_plus waits until   *)
(* the index has what the data nodes have at its arrival.                   *)
Arrive(s) ==
  /\ state[s] = "asked" /\ state' = [state EXCEPT ![s] = "arrived"]
  /\ target' = [target EXCEPT ![s] = IF RequestPlus(s) THEN written ELSE 0]
  /\ UNCHANGED << query, returned, data, must, written, indexed, acked, asked, failures >>
(* An insert that fails may have been made nevertheless.                    *)
Serve(s) ==
  /\ state[s] = "arrived" /\ target' = [target EXCEPT ![s] = 0]
  /\ \/ /\ state' = [state EXCEPT ![s] = "served"] /\ UNCHANGED failures
        /\ \/ /\ query[s].insert /\ written' = written + 1 /\ data' = [data EXCEPT ![s] = written + 1]
           \/ /\ ~query[s].insert /\ indexed >= target[s]
              /\ data' = [data EXCEPT ![s] = indexed] /\ UNCHANGED written
     \/ /\ state' = [state EXCEPT ![s] = "failed"] /\ Failure /\ UNCHANGED data
        /\ written' \in IF query[s].insert THEN {written, written + 1} ELSE {written}
  /\ UNCHANGED << query, returned, must, indexed, acked, asked >>
Index ==
  /\ indexed < written /\ indexed' = indexed + 1
  /\ UNCHANGED << query, state, returned, target, data, must, written, acked, asked, failures >>

(* The answer reaches the caller: get() inside execute_sqlpp, or the        *)
(* caller's own on the future.  Only the first looks at the error.          *)
Answered_WithoutError(s) == state[s] = "served"
Answered(s) == state[s] \in {"served", "failed"}
Answer(s) == IF state[s] = "failed" THEN -1 ELSE 1
KnownDone(s) == query[s].insert /\ (IF s \in Calls THEN Answer(s) = 1 ELSE state[s] = "served")
Get(s) ==
  /\ Answered(s) /\ (s \in Futures => Runs(s[1]))
  /\ state' = [state EXCEPT ![s] = IF state[s] = "served" THEN "done" ELSE "free"]
  /\ returned' = IF s \in Calls THEN [returned EXCEPT ![s] = Answer(s)] ELSE returned
  /\ acked' = IF KnownDone(s) /\ data[s] > acked THEN data[s] ELSE acked
  /\ UNCHANGED << query, target, data, must, written, indexed, asked, failures >>

QueryNext == Index \/ \E s \in Slot : Arrive(s) \/ Serve(s) \/ Get(s) \/ (\E q \in Select \cup Insert : Ask(s, q))
QuerySpec == QueryInit /\ [][QueryNext]_qvars
(* A query reaches the service, which answers it, the index catches up, a   *)
(* caller inside execute_sqlpp runs.                                        *)
FairQuerySpec == QuerySpec /\ WF_qvars(Index)
                 /\ (\A s \in Slot : WF_qvars(Arrive(s)) /\ WF_qvars(Serve(s)))
                 /\ (\A s \in Calls : WF_qvars(Get(s)))

-----------------------------------------------------------------------------
SeesAll(s) == state[s] = "done" /\ ~query[s].insert => data[s] >= must[s]

(* A select through execute_sqlpp with consistent = true sees every insert  *)
(* that any caller knew to be done when it was asked (196).  Through        *)
(* execute_sqlpp_future the one with consistent = false does (215), against *)
(* what icouchbase_core_interface.hh:216 says of that argument.             *)
ReadsWhatWasWritten ==
  /\ \A s \in Calls : query[s].consistent => SeesAll(s)
  /\ \A s \in Futures : ~query[s].consistent => SeesAll(s)

(* Every execute_sqlpp returns, however far the index is behind (192).      *)
QueryReturns == \A s \in Calls : state[s] = "asked" ~> state[s] \in {"free", "done"}
=============================================================================
