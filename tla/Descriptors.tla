------------------------------ MODULE Descriptors ------------------------------
(***************************************************************************)
(* The descriptor table of the process, which the files of utility.cc and   *)
(* the sockets of system.cc share with the rest of the program.             *)
(***************************************************************************)
EXTENDS Integers

CONSTANTS
  MaxFd,    \* bound: descriptors these functions may ever find free together
  MaxCalls  \* bound: calls of all functions together
ASSUME MaxFdAssumption == MaxFd \in Nat \ {0} /\ MaxCalls \in Nat

VARIABLES
  limit,    \* descriptors of the table that the rest of the program leaves
  used,     \* descriptors that are open
  leaked,   \* history: those that nothing refers to any more
  calls     \* calls made so far

DescriptorsInit == limit \in 0 .. MaxFd /\ used = 0 /\ leaked = 0 /\ calls = 0

Exhausted == used >= limit
MayCall   == calls < MaxCalls /\ calls' = calls + 1
TakeFd    == ~Exhausted /\ used' = used + 1
DropFd_Not == UNCHANGED used
DropFd    == used' = used - 1

(* The rest of the program opens and closes files of its own.               *)
OthersOpen ==
  /\ limit' \in (used .. MaxFd) \ {limit}
  /\ UNCHANGED << used, leaked, calls >>
=============================================================================
