----------------------------- MODULE ProcessFiles -----------------------------
(***************************************************************************)
(* One process: the threads that save and load files, and those that check  *)
(* ports, take their descriptors out of one table.                          *)
(***************************************************************************)
EXTENDS SaveFiles, PortCheck

CONSTANT MaxCrashes    \* bound: ends and restarts of the process
ASSUME CrashAssumption == MaxCrashes \in Nat
ASSUME ThreadsAssumption == IsFiniteSet(Thread) /\ IsFiniteSet(Checker)

VARIABLE crashes
vars == << fvars, pvars, limit, used, leaked, calls, crashes >>

Init == FilesInit /\ PortInit /\ DescriptorsInit /\ crashes = 0

(* The system closes what the process had open.                             *)
Crash ==
  /\ crashes < MaxCrashes /\ crashes' = crashes + 1
  /\ FilesCrash /\ PortCrash /\ used' = 0 /\ leaked' = 0 /\ UNCHANGED << limit, calls >>

Next == \/ FilesNext /\ UNCHANGED << pvars, limit, crashes >>
        \/ PortNext /\ UNCHANGED << fvars, limit, crashes >>
        \/ OthersOpen /\ UNCHANGED << fvars, pvars, crashes >>
        \/ Crash
Spec == Init /\ [][Next]_vars

-----------------------------------------------------------------------------
(* Every descriptor that is open belongs to a call that runs, or is the     *)
(* socket of a check that was asked for a port above 65535 (system.cc:17):  *)
(* no other path through these functions keeps one.                         *)
DescriptorsReturned ==
  used = leaked + Cardinality({t \in Thread : pc[t] \in {"write", "read"}})
                + Cardinality({t \in Checker : at[t] # "idle"})
=============================================================================
