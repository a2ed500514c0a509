-------------------------- MODULE ProcessFilesProofs --------------------------
(***************************************************************************)
(* Theorems about ProcessFiles, for any number of threads, any calls, any   *)
(* table of descriptors and any ports.                                      *)
(***************************************************************************)
EXTENDS ProcessFiles, FiniteSetTheorems, SequenceTheorems, WellFoundedInduction, TLAPS

-----------------------------------------------------------------------------
(* Where the descriptors are.                                               *)
FilesOpen == {t \in Thread : pc[t] \in {"write", "read"}}
SocketsOpen == {t \in Checker : at[t] # "idle"}
Placed ==
  /\ pc \in [Thread -> {"idle", "open", "write", "read"}]
  /\ at \in [Checker -> {"idle", "socket", "bound"}]
  /\ used \in Int /\ leaked \in Int
FdInv == Placed /\ DescriptorsReturned

LEMMA Finite ==
  /\ IsFiniteSet(FilesOpen) /\ IsFiniteSet(SocketsOpen)
  /\ Cardinality(FilesOpen) \in Nat /\ Cardinality(SocketsOpen) \in Nat
<1>1. FilesOpen \in SUBSET Thread /\ SocketsOpen \in SUBSET Checker
  BY DEF FilesOpen, SocketsOpen
<1>2. IsFiniteSet(FilesOpen) /\ IsFiniteSet(SocketsOpen)
  BY <1>1, FS_Subset, ThreadsAssumption
<1> QED
  BY <1>2, FS_CardinalityType

LEMMA FdInit == Init => FdInv
<1> SUFFICES ASSUME Init PROVE FdInv
  OBVIOUS
<1>1. Placed
  BY DEF Init, FilesInit, PortInit, DescriptorsInit, Placed
<1>2. FilesOpen = {} /\ SocketsOpen = {}
  BY DEF Init, FilesInit, PortInit, FilesOpen, SocketsOpen
<1> QED
  BY <1>1, <1>2, FS_EmptySet DEF Init, DescriptorsInit, FdInv, DescriptorsReturned, FilesOpen, SocketsOpen

(* A step of a thread takes a descriptor and opens a file, closes a file    *)
(* and drops its descriptor, or does neither.                               *)
LEMMA FilesFd ==
  ASSUME Placed, FilesNext
  PROVE  /\ pc' \in [Thread -> {"idle", "open", "write", "read"}] /\ leaked' = leaked
         /\ \/ FilesOpen' = FilesOpen /\ used' = used
            \/ \E t \in Thread \ FilesOpen : FilesOpen' = FilesOpen \cup {t} /\ used' = used + 1
            \/ \E t \in FilesOpen : FilesOpen' = FilesOpen \ {t} /\ used' = used - 1
<1> USE DEF Placed, FilesOpen, TakeFd, DropFd
<1>1. PICK t \in Thread : FilesStep(t) \/ DiskFull(t) \/ ReadError(t) \/ \E c \in Menu : Call(t, c)
  BY DEF FilesNext
<1>2. CASE CantOpenToSave(t) \/ CantOpenToLoad(t)
  BY <1>2 DEF CantOpenToSave, CantOpenToLoad
<1>3. CASE OpenToSave(t)
  BY <1>3 DEF OpenToSave
<1>4. CASE Flush(t) \/ DiskFull(t)
  BY <1>4 DEF Flush, DiskFull
<1>5. CASE Close(t)
  BY <1>5 DEF Close, Done
<1>6. CASE OpenToLoad(t)
  BY <1>6 DEF OpenToLoad
<1>7. CASE Read(t)
  BY <1>7 DEF Read
<1>8. CASE EndOfFile(t) \/ ReadError(t)
  <2>1. /\ pc[t] = "read" /\ pc' = [pc EXCEPT ![t] = "idle"] /\ DropFd /\ leaked' = leaked
    BY <1>8 DEF EndOfFile, ReadError, Reads, Return
  <2> QED
    BY <2>1
<1>9. ASSUME NEW c \in Menu, Call(t, c)
      PROVE  /\ pc' \in [Thread -> {"idle", "open", "write", "read"}] /\ leaked' = leaked
             /\ FilesOpen' = FilesOpen /\ used' = used
  BY <1>9 DEF Call
<1> QED
  BY <1>1, <1>2, <1>3, <1>4, <1>5, <1>6, <1>7, <1>8, <1>9 DEF FilesStep

(* And a step of a check does so with its socket, or leaks it.              *)
SocketStep ==
  /\ at' \in [Checker -> {"idle", "socket", "bound"}] /\ used' \in Int /\ leaked' \in Int
  /\ \/ SocketsOpen' = SocketsOpen /\ used' - leaked' = used - leaked
     \/ \E t \in Checker \ SocketsOpen :
          SocketsOpen' = SocketsOpen \cup {t} /\ used' = used + 1 /\ leaked' = leaked
     \/ \E t \in SocketsOpen :
          SocketsOpen' = SocketsOpen \ {t} /\ used' = used - 1 /\ leaked' = leaked

LEMMA PortFd == ASSUME Placed, PortNext PROVE SocketStep
<1> USE DEF Placed
<1>1. ASSUME NEW q, Listen(q) \/ Stop(q) \/ Expire(q) PROVE SocketStep
  BY <1>1 DEF Listen, Stop, Expire, SocketStep, SocketsOpen
<1>2. ASSUME NEW t \in Checker, Bind(t) PROVE SocketStep
  <2>1. SocketsOpen' = SocketsOpen
    BY <1>2 DEF Bind, SocketsOpen
  <2> QED
    BY <1>2, <2>1 DEF Bind, SocketStep
<1>3. ASSUME NEW t \in Checker, CloseSocket(t) PROVE SocketStep
  <2>1. t \in SocketsOpen /\ SocketsOpen' = SocketsOpen \ {t}
    BY <1>3 DEF CloseSocket, SocketsOpen
  <2> QED
    BY <1>3, <2>1 DEF CloseSocket, DropFd, SocketStep
<1>4. ASSUME NEW t \in Checker, NEW p \in PortArg, Check(t, p) PROVE SocketStep
  <2>1. CASE at' = at /\ used' - leaked' = used - leaked /\ used' \in Int /\ leaked' \in Int
    <3>1. SocketsOpen' = SocketsOpen /\ at' \in [Checker -> {"idle", "socket", "bound"}]
      BY <2>1 DEF SocketsOpen
    <3> QED
      BY <2>1, <3>1 DEF SocketStep
  <2>2. CASE /\ at[t] = "idle" /\ at' = [at EXCEPT ![t] = "socket"]
             /\ used' = used + 1 /\ leaked' = leaked
    <3>1. t \in Checker \ SocketsOpen /\ SocketsOpen' = SocketsOpen \cup {t}
      BY <2>2 DEF SocketsOpen
    <3> QED
      BY <2>2, <3>1 DEF SocketStep
  <2>3. CASE Exhausted
    <3>1. at' = at /\ used' = used /\ leaked' = leaked
      BY <1>4, <2>3 DEF Check, TakeFd
    <3> QED
      BY <2>1, <3>1
  <2>4. CASE ~Exhausted /\ TooLarge(p)
    <3>1. /\ UNCHANGED << at, clear >>
          /\ IF LeaksSocket(p) THEN TakeFd /\ leaked' = leaked + 1 ELSE UNCHANGED << used, leaked >>
      BY <1>4, <2>4, Zenon DEF Check
    <3>2. \/ used' = used /\ leaked' = leaked
          \/ used' = used + 1 /\ leaked' = leaked + 1
      BY <3>1 DEF TakeFd
    <3> QED
      BY <2>1, <3>1, <3>2
  <2>5. CASE ~Exhausted /\ ~TooLarge(p)
    BY <1>4, <2>2, <2>5 DEF Check, TakeFd
  <2> QED
    BY <2>3, <2>4, <2>5
<1> QED
  BY <1>1, <1>2, <1>3, <1>4 DEF PortNext, PortStep

LEMMA FdStep == FdInv /\ [Next]_vars => FdInv'
<1> SUFFICES ASSUME FdInv, [Next]_vars PROVE FdInv'
  OBVIOUS
<1> DEFINE Balance == used = leaked + Cardinality(FilesOpen) + Cardinality(SocketsOpen)
<1>1. Placed /\ Balance
  BY DEF FdInv, DescriptorsReturned, FilesOpen, SocketsOpen
<1>2. SUFFICES Placed' /\ Balance'
  BY DEF FdInv, DescriptorsReturned, FilesOpen, SocketsOpen
<1>3. CASE FilesNext /\ UNCHANGED << pvars, limit, crashes >>
  <2>1. at' = at /\ SocketsOpen' = SocketsOpen
    BY <1>3 DEF pvars, SocketsOpen
  <2>2. ASSUME NEW t \in Thread \ FilesOpen, FilesOpen' = FilesOpen \cup {t}
        PROVE  Cardinality(FilesOpen') = Cardinality(FilesOpen) + 1
    BY <2>2, Finite, FS_AddElement
  <2>3. ASSUME NEW t \in FilesOpen, FilesOpen' = FilesOpen \ {t}
        PROVE  Cardinality(FilesOpen') = Cardinality(FilesOpen) - 1
    BY <2>3, Finite, FS_RemoveElement
  <2>4. Placed'
    BY <1>1, <1>3, <2>1, FilesFd DEF Placed
  <2>5. Balance'
    BY <1>1, <1>3, <2>1, <2>2, <2>3, FilesFd, Finite DEF Placed
  <2> QED
    BY <2>4, <2>5
<1>4. CASE PortNext /\ UNCHANGED << fvars, limit, crashes >>
  <2>1. pc' = pc /\ FilesOpen' = FilesOpen
    BY <1>4 DEF fvars, FilesOpen
  <2>2. ASSUME NEW t \in Checker \ SocketsOpen, SocketsOpen' = SocketsOpen \cup {t}
        PROVE  Cardinality(SocketsOpen') = Cardinality(SocketsOpen) + 1
    BY <2>2, Finite, FS_AddElement
  <2>3. ASSUME NEW t \in SocketsOpen, SocketsOpen' = SocketsOpen \ {t}
        PROVE  Cardinality(SocketsOpen') = Cardinality(SocketsOpen) - 1
    BY <2>3, Finite, FS_RemoveElement
  <2>4. Placed'
    BY <1>1, <1>4, <2>1, PortFd DEF Placed, SocketStep
  <2>5. Balance'
    BY <1>1, <1>4, <2>1, <2>2, <2>3, PortFd, Finite DEF Placed, SocketStep
  <2> QED
    BY <2>4, <2>5
<1>5. CASE Crash
  <2>1. Placed' /\ FilesOpen' = {} /\ SocketsOpen' = {} /\ used' = 0 /\ leaked' = 0
    BY <1>5 DEF Crash, FilesCrash, PortCrash, Placed, FilesOpen, SocketsOpen
  <2> QED
    BY <2>1, FS_EmptySet
<1>6. CASE UNCHANGED vars \/ (OthersOpen /\ UNCHANGED << fvars, pvars, crashes >>)
  BY <1>1, <1>6 DEF OthersOpen, vars, fvars, pvars, Placed, FilesOpen, SocketsOpen
<1> QED
  BY <1>3, <1>4, <1>5, <1>6 DEF Next

(* Whatever threads run, files fill up and processes end: no path through   *)
(* these functions keeps a descriptor, but the check of a port above 65535. *)
THEOREM NothingElseLeaks == Spec => []DescriptorsReturned
<1>1. FdInv => DescriptorsReturned
  BY DEF FdInv
<1> QED
  BY FdInit, FdStep, <1>1, PTL DEF Spec

-----------------------------------------------------------------------------
(* What a check knows at its stages.  Whoever has the port bound asks for   *)
(* it; once bind has failed, somebody had the port or asked for it, and     *)
(* that stays so.                                                           *)
PortTyped ==
  /\ at \in [Checker -> {"idle", "socket", "bound"}]
  /\ port \in [Checker -> Int] /\ bound \in [Checker -> Int]
  /\ answer \in [Checker -> {"none", "true", "false"}]
  /\ free \in [Checker -> BOOLEAN] /\ clear \in [Checker -> BOOLEAN]
  /\ starved \in [Checker -> BOOLEAN]
Stage(t) ==
  LET q == Htons(port[t]) IN
  /\ bound[t] # NoPort => at[t] = "bound" /\ bound[t] = q
  /\ at[t] # "idle" => answer[t] = "none"
  /\ at[t] # "idle" /\ q \notin Taken => free[t]
  /\ at[t] = "socket" /\ clear[t] =>
       q \notin Taken /\ \A u \in Checker \ {t} : ~Asks(u, q)
  /\ at[t] = "bound" /\ q # 0 =>
       IF bound[t] = NoPort THEN q \in Denied \/ ~clear[t] ELSE free[t] /\ q \notin Denied
  /\ answer[t] # "none" /\ port[t] \in 1 .. MaxPort =>
       /\ answer[t] = "true" => free[t] /\ port[t] \notin Denied
       /\ answer[t] = "false" => starved[t] \/ port[t] \in Denied \/ ~clear[t]
PortInv == PortTyped /\ \A t \in Checker : Stage(t)

LEMMA Remainder ==
  ASSUME NEW n \in Nat \ {0}, NEW a \in Int
  PROVE  a % n \in 0 .. n - 1 /\ (a \in 0 .. n - 1 => a % n = a)
OBVIOUS

LEMMA HtonsFacts ==
  ASSUME NEW p \in Int
  PROVE  Htons(p) \in 0 .. MaxPort /\ (p \in 1 .. MaxPort => Htons(p) = p)
<1> DEFINE n == MaxPort + 1
<1>1. n \in Nat \ {0} /\ n - 1 = MaxPort /\ Htons(p) = p % n
  BY PortAssumption DEF Htons
<1> HIDE DEF n
<1>2. p % n \in 0 .. n - 1 /\ (p \in 0 .. n - 1 => p % n = p)
  BY <1>1, Remainder
<1> QED
  BY <1>1, <1>2, PortAssumption

LEMMA PortInvInit == Init => PortInv
<1> SUFFICES ASSUME PortInit PROVE PortInv
  BY DEF Init
<1>1. /\ at \in [Checker -> {"idle", "socket", "bound"}] /\ port \in [Checker -> Int]
      /\ answer \in [Checker -> {"none", "true", "false"}]
  BY DEF PortInit
<1>2. bound \in [Checker -> Int]
  BY DEF PortInit, NoPort
<1>3. free \in [Checker -> BOOLEAN] /\ clear \in [Checker -> BOOLEAN] /\ starved \in [Checker -> BOOLEAN]
  BY DEF PortInit
<1>4. ASSUME NEW t \in Checker PROVE Stage(t)
  <2>1. at[t] = "idle" /\ bound[t] = NoPort /\ answer[t] = "none"
    BY DEF PortInit
  <2> QED
    BY <2>1 DEF Stage
<1> QED
  BY <1>1, <1>2, <1>3, <1>4 DEF PortInv, PortTyped

LEMMA PortTypedStep == PortTyped /\ PortNext => PortTyped'
<1> SUFFICES ASSUME PortTyped, PortNext PROVE PortTyped'
  OBVIOUS
<1> USE DEF PortTyped
<1>1. ASSUME NEW q, Listen(q) \/ Stop(q) \/ Expire(q) PROVE PortTyped'
  BY <1>1 DEF Listen, Stop, Expire, Freed
<1>2. ASSUME NEW t \in Checker, Bind(t) PROVE PortTyped'
  <2>1. Htons(port[t]) \in Int /\ NoPort \in Int
    <3>1. port[t] \in Int
      OBVIOUS
    <3>2. Htons(port[t]) \in 0 .. MaxPort /\ MaxPort \in Nat
      BY <3>1, HtonsFacts, PortAssumption
    <3>3. Htons(port[t]) \in Int
      BY <3>2
    <3> QED
      BY <3>3 DEF NoPort
  <2> QED
    BY <1>2, <2>1 DEF Bind
<1>3. ASSUME NEW t \in Checker, CloseSocket(t) PROVE PortTyped'
  BY <1>3 DEF CloseSocket, StillBound, Answer, NoPort
<1>4. ASSUME NEW t \in Checker, NEW p \in PortArg, Check(t, p) PROVE PortTyped'
  <2> DEFINE q == Htons(p)
             others == [u \in Checker |->
                          IF u = t THEN q \notin Taken /\ ~\E v \in Checker : Asks(v, q)
                          ELSE clear[u] /\ ~Asks(u, q)]
  <2>1. others \in [Checker -> BOOLEAN]
    OBVIOUS
  <2>2. /\ port' = [port EXCEPT ![t] = p] /\ starved' = [starved EXCEPT ![t] = Exhausted]
        /\ free' = [free EXCEPT ![t] = q \notin Taken] /\ bound' = bound
        /\ \/ at' = at /\ Answer(t, "false") /\ clear' = clear
           \/ at' = [at EXCEPT ![t] = "socket"] /\ Answer(t, "none") /\ clear' = others
    BY <1>4, Zenon DEF Check
  <2> HIDE DEF others, q
  <2>3. p \in Int
    BY PortAssumption
  <2>4. free' \in [Checker -> BOOLEAN] /\ starved' \in [Checker -> BOOLEAN]
    <3>1. Exhausted \in BOOLEAN
      BY DEF Exhausted
    <3> QED
      BY <2>2, <3>1, Zenon
  <2>5. clear' \in [Checker -> BOOLEAN]
    BY <2>1, <2>2
  <2>6. /\ at' \in [Checker -> {"idle", "socket", "bound"}] /\ port' \in [Checker -> Int]
        /\ answer' \in [Checker -> {"none", "true", "false"}] /\ bound' \in [Checker -> Int]
    BY <2>2, <2>3 DEF Answer
  <2> QED
    BY <2>4, <2>5, <2>6
<1> QED
  BY <1>1, <1>2, <1>3, <1>4 DEF PortNext, PortStep

LEMMA ListenStage == ASSUME PortInv, NEW q, Listen(q), NEW u \in Checker PROVE Stage(u)'
<1>1. /\ UNCHANGED << at, port, bound, answer, free, starved >> /\ Taken' = Taken \cup {q}
      /\ clear'[u] => clear[u] /\ ~Asks(u, q)
  BY DEF Listen, PortInv, PortTyped, Taken
<1>2. \A v \in Checker : \A r : Asks(v, r)' <=> Asks(v, r)
  BY <1>1 DEF Asks, Htons
<1> QED
  BY <1>1, <1>2 DEF PortInv, Stage, Asks, Htons

LEMMA StopStage == ASSUME PortInv, NEW q, Stop(q) \/ Expire(q), NEW u \in Checker PROVE Stage(u)'
<1>1. /\ UNCHANGED << at, port, bound, answer, clear, starved >>
      /\ Taken \ {q} \subseteq Taken' /\ Taken' \subseteq Taken
      /\ free[u] \/ (q \notin Taken' /\ Asks(u, q)) => free'[u]
  BY DEF Stop, Expire, Freed, PortInv, PortTyped, Taken
<1>2. \A v \in Checker : \A r : Asks(v, r)' <=> Asks(v, r)
  BY <1>1 DEF Asks, Htons
<1> QED
  BY <1>1, <1>2 DEF PortInv, Stage, Asks, Htons

LEMMA BindStage ==
  ASSUME PortInv, NEW t \in Checker, Bind(t), NEW u \in Checker
  PROVE  Stage(u)'
<1> DEFINE q == Htons(port[t])
<1>1. /\ UNCHANGED << port, answer, free, clear, starved >> /\ Taken' = Taken
      /\ at[t] = "socket" /\ at' = [at EXCEPT ![t] = "bound"]
      /\ bound' = [bound EXCEPT ![t] = IF CanBind(q) THEN q ELSE NoPort]
  BY DEF Bind, Taken
<1>2. \A v \in Checker : \A r : Asks(v, r)' <=> Asks(v, r)
  BY <1>1 DEF Asks, Htons, PortInv, PortTyped
<1>3. q \in 0 .. MaxPort /\ q # NoPort
  BY HtonsFacts, PortAssumption DEF PortInv, PortTyped, NoPort
<1>4. CASE u # t
  BY <1>1, <1>2, <1>4 DEF PortInv, PortTyped, Stage, Htons
<1>5. CASE u = t
  <2>1. CASE CanBind(q)
    <3>1. q # 0 => free[t] /\ q \notin Denied
      BY <1>1, <2>1 DEF CanBind, PortInv, Stage
    <3> QED
      BY <1>1, <1>3, <1>5, <2>1, <3>1 DEF PortInv, PortTyped, Stage, Htons
  <2>2. CASE ~CanBind(q)
    <3>1. q \in Denied \/ ~clear[t]
      <4>1. CASE q \in Taken
        BY <1>1, <4>1 DEF PortInv, Stage
      <4>2. CASE \E v \in Checker : bound[v] = q
        <5>1. PICK v \in Checker : bound[v] = q
          BY <4>2
        <5>2. at[v] = "bound" /\ Asks(v, q) /\ v # t
          BY <1>1, <1>3, <5>1 DEF PortInv, Stage, Asks
        <5> QED
          BY <1>1, <5>2 DEF PortInv, Stage
      <4> QED
        BY <2>2, <4>1, <4>2 DEF CanBind, Bound
    <3> QED
      BY <1>1, <1>5, <2>2, <3>1 DEF PortInv, PortTyped, Stage, Htons
  <2> QED
    BY <2>1, <2>2
<1> QED
  BY <1>4, <1>5

LEMMA CloseStage ==
  ASSUME PortInv, NEW t \in Checker, CloseSocket(t), NEW u \in Checker
  PROVE  Stage(u)'
<1>1. /\ UNCHANGED << port, free, clear, starved >> /\ Taken' = Taken
      /\ at[t] = "bound" /\ at' = [at EXCEPT ![t] = "idle"]
      /\ bound' = [bound EXCEPT ![t] = NoPort]
      /\ answer' = [answer EXCEPT ![t] = IF bound[t] = NoPort THEN "false" ELSE "true"]
  BY DEF CloseSocket, StillBound, Answer, Taken
<1>2. \A v \in Checker : \A r : Asks(v, r)' => Asks(v, r)
  BY <1>1 DEF Asks, Htons, PortInv, PortTyped
<1>3. CASE u # t
  BY <1>1, <1>2, <1>3 DEF PortInv, PortTyped, Stage, Htons
<1>4. CASE u = t
  <2>1. port[t] \in 1 .. MaxPort => Htons(port[t]) = port[t] /\ port[t] # 0
    BY HtonsFacts DEF PortInv, PortTyped
  <2> QED
    BY <1>1, <1>4, <2>1 DEF PortInv, PortTyped, Stage
<1> QED
  BY <1>3, <1>4

LEMMA CheckStage ==
  ASSUME PortInv, NEW t \in Checker, NEW p \in PortArg, Check(t, p), NEW u \in Checker
  PROVE  Stage(u)'
<1> DEFINE q == Htons(p)
<1>0. /\ at[t] = "idle" /\ port' = [port EXCEPT ![t] = p] /\ bound' = bound /\ Taken' = Taken
      /\ starved' = [starved EXCEPT ![t] = Exhausted] /\ free' = [free EXCEPT ![t] = q \notin Taken]
  BY Zenon DEF Check, Taken
<1>1. CASE Exhausted \/ TooLarge(p)
  <2>1. at' = at /\ clear' = clear /\ answer' = [answer EXCEPT ![t] = "false"]
    BY <1>1, Zenon DEF Check, Answer, TakeFd
  <2>2. p \in 1 .. MaxPort => starved'[t]
    BY <1>0, <1>1, PortAssumption DEF TooLarge, PortInv, PortTyped
  <2>3. \A v \in Checker : \A r : Asks(v, r)' <=> Asks(v, r)
    BY <1>0, <2>1 DEF Asks, Htons, PortInv, PortTyped
  <2>4. bound[t] = NoPort
    BY <1>0 DEF PortInv, Stage
  <2>5. CASE u = t
    BY <1>0, <2>1, <2>2, <2>4, <2>5 DEF PortInv, PortTyped, Stage
  <2>6. CASE u # t
    BY <1>0, <2>1, <2>3, <2>6 DEF PortInv, PortTyped, Stage, Htons
  <2> QED
    BY <2>5, <2>6
<1>2. CASE ~Exhausted /\ ~TooLarge(p)
  <2>1. /\ at' = [at EXCEPT ![t] = "socket"] /\ answer' = [answer EXCEPT ![t] = "none"]
        /\ clear' = [v \in Checker |-> IF v = t THEN q \notin Taken /\ ~\E w \in Checker : Asks(w, q)
                                       ELSE clear[v] /\ ~Asks(v, q)]
    BY <1>2, Zenon DEF Check, Answer
  <2>2. bound[t] = NoPort
    BY <1>0 DEF PortInv, Stage
  <2>3. CASE u = t
    <3>1. clear'[t] => q \notin Taken /\ \A w \in Checker : ~Asks(w, q)
      BY <2>1
    <3>2. q \notin Taken => free'[t]
      BY <1>0 DEF PortInv, PortTyped
    <3>3. \A w \in Checker \ {t} : Asks(w, q)' => Asks(w, q)
      BY <1>0, <2>1 DEF Asks, Htons, PortInv, PortTyped
    <3>4. port'[t] = p /\ at'[t] = "socket" /\ answer'[t] = "none" /\ bound'[t] = NoPort
      BY <1>0, <2>1, <2>2 DEF PortInv, PortTyped
    <3>5. Htons(port[t])' = q
      BY <3>4 DEF Htons
    <3> QED
      BY <1>0, <2>3, <3>1, <3>2, <3>3, <3>4, <3>5 DEF Stage, Asks, Htons
  <2>4. CASE u # t
    <3>1. clear'[u] => clear[u] /\ ~Asks(u, q)
      BY <2>1, <2>4
    <3>2. /\ at'[u] = at[u] /\ port'[u] = port[u] /\ free'[u] = free[u] /\ answer'[u] = answer[u]
          /\ starved'[u] = starved[u] /\ bound' = bound /\ Taken' = Taken
      BY <1>0, <2>1, <2>4 DEF PortInv, PortTyped
    <3>3. \A w \in Checker : \A r : Asks(w, r)' => Asks(w, r) \/ (w = t /\ r = q)
      BY <1>0, <2>1 DEF Asks, Htons, PortInv, PortTyped
    <3> QED
      BY <3>1, <3>2, <3>3 DEF PortInv, Stage, Asks, Htons
  <2> QED
    BY <2>3, <2>4
<1> QED
  BY <1>1, <1>2

LEMMA PortInvStep == PortInv /\ [Next]_vars => PortInv'
<1> SUFFICES ASSUME PortInv, [Next]_vars PROVE PortInv'
  OBVIOUS
<1>1. CASE UNCHANGED pvars
  BY <1>1 DEF pvars, PortInv, PortTyped, Stage, Asks, Htons, Taken
<1>2. CASE PortNext
  <2>1. PortTyped'
    BY <1>2, PortTypedStep DEF PortInv
  <2>2. ASSUME NEW u \in Checker PROVE Stage(u)'
    BY <1>2, ListenStage, StopStage, BindStage, CloseStage, CheckStage DEF PortNext, PortStep
  <2> QED
    BY <2>1, <2>2 DEF PortInv
<1>3. CASE Crash
  <2>1. PortTyped'
    BY <1>3 DEF Crash, PortCrash, PortInv, PortTyped, NoPort
  <2>2. ASSUME NEW u \in Checker PROVE Stage(u)'
    <3>1. at'[u] = "idle" /\ bound'[u] = NoPort /\ answer'[u] = "none"
      BY <1>3 DEF Crash, PortCrash
    <3> QED
      BY <3>1 DEF Stage
  <2> QED
    BY <2>1, <2>2 DEF PortInv
<1> QED
  BY <1>1, <1>2, <1>3 DEF Next, vars, OthersOpen

(* Whatever servers come and go and however many checks run at a time: a    *)
(* port that is said to be available is one that the process may bind and   *)
(* was free at a moment of the check, and one that is said not to be had    *)
(* somebody, or the check no descriptor or no right.                        *)
THEOREM AnswersHaveReasons == Spec => []AnswerHasReason
<1>1. PortInv => AnswerHasReason
  BY DEF PortInv, Stage, AnswerHasReason
<1> QED
  BY PortInvInit, PortInvStep, <1>1, PTL DEF Spec

-----------------------------------------------------------------------------
(* A save that is alone in its file and whose writes went well has written  *)
(* the beginning of its text and holds the rest of it.                      *)
Writes(u, p) == pc[u] = "write" /\ call[u].path = p
Holds(s, t) ==
  /\ offset[t] \in 0 .. Len(s)
  /\ files[call[t].path] = SubSeq(s, 1, offset[t])
  /\ pending[t] = SubSeq(s, offset[t] + 1, Len(s))
Saving(t) ==
  /\ pc[t] # "idle" => call[t] \in Menu
  /\ pc[t] = "write" =>
       /\ call[t].op = "save" /\ Rejected(call[t]) = 0 /\ saved[call[t].path] = NoCall
       /\ alone[t] => \A u \in Thread \ {t} : ~Writes(u, call[t].path)
       /\ alone[t] /\ ~failed[t] => Holds(TextOf(call[t]), t)
SaveTyped ==
  /\ pc \in [Thread -> {"idle", "open", "write", "read"}]
  /\ alone \in [Thread -> BOOLEAN] /\ failed \in [Thread -> BOOLEAN]
  /\ files = [p \in Path |-> files[p]] /\ saved = [p \in Path |-> saved[p]]
  /\ call = [t \in Thread |-> call[t]]
  /\ pending = [t \in Thread |-> pending[t]] /\ offset = [t \in Thread |-> offset[t]]
SaveInv == SaveTyped /\ SavedWhole /\ \A t \in Thread : Saving(t)

LEMMA SaveInit == Init => SaveInv
<1> SUFFICES ASSUME Init PROVE SaveInv
  OBVIOUS
<1>1. SaveTyped
  BY DEF Init, FilesInit, SaveTyped
<1>2. SavedWhole
  BY DEF Init, FilesInit, SavedWhole
<1> QED
  BY <1>1, <1>2 DEF Init, FilesInit, SaveInv, Saving

LEMMA MenuFacts ==
  ASSUME NEW c \in Menu
  PROVE  /\ c.path \in Path
         /\ c.op = "save" /\ Rejected(c) = 0 => TextOf(c) \in Seq(STRING)
BY MenuAssumption, TextsAssumption DEF CallType

(* What is left of a sequence without its first elements.                   *)
LEMMA Drop ==
  ASSUME NEW S, NEW s \in Seq(S), NEW k \in 0 .. Len(s)
  PROVE  /\ SubSeq(s, k + 1, Len(s)) \in Seq(S)
         /\ Len(SubSeq(s, k + 1, Len(s))) = Len(s) - k
         /\ \A i \in 1 .. Len(s) - k : SubSeq(s, k + 1, Len(s))[i] = s[k + i]
<1>1. Len(s) \in Nat /\ k \in Nat
  BY LenProperties
<1>2. \A i \in k + 1 .. Len(s) : s[i] \in S
  BY <1>1, ElementOfSeq
<1> QED
  BY <1>1, <1>2, SubSeqProperties

(* A piece written behind the beginning of a text makes a longer beginning. *)
LEMMA OverlayGrows ==
  ASSUME NEW S, NEW s \in Seq(S), NEW k \in 0 .. Len(s), NEW n \in 1 .. Len(s) - k
  PROVE  /\ Overlay(SubSeq(s, 1, k), k, SubSeq(SubSeq(s, k + 1, Len(s)), 1, n)) = SubSeq(s, 1, k + n)
         /\ SubSeq(SubSeq(s, k + 1, Len(s)), n + 1, Len(SubSeq(s, k + 1, Len(s))))
              = SubSeq(s, k + n + 1, Len(s))
<1> DEFINE a == SubSeq(s, 1, k)
           r == SubSeq(s, k + 1, Len(s))
           b == SubSeq(r, 1, n)
<1>1. Len(s) \in Nat /\ k \in Nat /\ n \in Nat /\ k + n <= Len(s)
  BY LenProperties
<1>2. /\ a \in Seq(S) /\ Len(a) = k /\ \A i \in 1 .. k : a[i] = s[i]
      /\ r \in Seq(S) /\ Len(r) = Len(s) - k /\ \A i \in 1 .. Len(s) - k : r[i] = s[k + i]
  <2>1. \A i \in 1 .. Len(s) : s[i] \in S
    BY ElementOfSeq
  <2>2. \A i \in 1 .. k : s[i] \in S
    BY <1>1, <2>1
  <2>3. \A i \in k + 1 .. Len(s) : s[i] \in S
    BY <1>1, <2>1
  <2>4. a \in Seq(S) /\ Len(a) = k /\ \A i \in 1 .. k : a[i] = s[i]
    BY <1>1, <2>2, SubSeqProperties
  <2>5. r \in Seq(S) /\ Len(r) = Len(s) - k /\ \A i \in 1 .. Len(s) - k : r[i] = s[k + i]
    BY <1>1, <2>3, SubSeqProperties
  <2> QED
    BY <2>4, <2>5
<1> HIDE DEF a, r
<1>3. b \in Seq(S) /\ Len(b) = n /\ \A i \in 1 .. n : b[i] = s[k + i]
  <2>1. \A i \in 1 .. n : r[i] \in S
    BY <1>1, <1>2, ElementOfSeq
  <2>2. b \in Seq(S) /\ Len(b) = n /\ \A i \in 1 .. n : b[i] = r[i]
    BY <1>1, <1>2, <2>1, SubSeqProperties
  <2> QED
    BY <1>1, <1>2, <2>2
<1> HIDE DEF b
<1>4. Max({Len(a), k + Len(b)}) = k + n
  BY <1>1, <1>2, <1>3 DEF Max
<1>5. /\ SubSeq(s, 1, k + n) \in Seq(S) /\ Len(SubSeq(s, 1, k + n)) = k + n
      /\ \A i \in 1 .. k + n : SubSeq(s, 1, k + n)[i] = s[i]
  <2>1. \A i \in 1 .. k + n : s[i] \in S
    BY <1>1, ElementOfSeq
  <2> QED
    BY <1>1, <2>1, SubSeqProperties
<1>6. Overlay(a, k, b) = [i \in 1 .. k + n |-> s[i]]
  <2>1. Overlay(a, k, b)
          = [i \in 1 .. k + n |-> CASE i > k /\ i <= k + n -> b[i - k]
                                    [] i <= k -> a[i] [] OTHER -> "0"]
    BY <1>2, <1>3, <1>4 DEF Overlay
  <2>2. ASSUME NEW i \in 1 .. k + n
        PROVE  (CASE i > k /\ i <= k + n -> b[i - k] [] i <= k -> a[i] [] OTHER -> "0") = s[i]
    BY <1>1, <1>2, <1>3
  <2> QED
    BY <2>1, <2>2
<1>7. SubSeq(s, 1, k + n) = [i \in 1 .. k + n |-> s[i]]
  BY <1>1, <1>5, LenProperties
<1>8. SubSeq(r, n + 1, Len(r)) = SubSeq(s, k + n + 1, Len(s))
  <2> DEFINE x == SubSeq(r, n + 1, Len(r))
             y == SubSeq(s, k + n + 1, Len(s))
  <2>1. n \in 0 .. Len(r) /\ k + n \in 0 .. Len(s)
    BY <1>1, <1>2
  <2>2. x \in Seq(S) /\ Len(x) = Len(r) - n /\ \A i \in 1 .. Len(r) - n : x[i] = r[n + i]
    <3>1. r \in Seq(S) /\ n \in 0 .. Len(r)
      BY <1>2, <2>1
    <3> QED
      BY <3>1, Drop
  <2>3. /\ y \in Seq(S) /\ Len(y) = Len(s) - (k + n)
        /\ \A i \in 1 .. Len(s) - (k + n) : y[i] = s[k + n + i]
    <3> DEFINE m == k + n
    <3>1. m \in 0 .. Len(s)
      BY <2>1
    <3> HIDE DEF m
    <3>2. /\ SubSeq(s, m + 1, Len(s)) \in Seq(S) /\ Len(SubSeq(s, m + 1, Len(s))) = Len(s) - m
          /\ \A i \in 1 .. Len(s) - m : SubSeq(s, m + 1, Len(s))[i] = s[m + i]
      BY <3>1, Drop
    <3> QED
      BY <3>2 DEF m
  <2> HIDE DEF x, y
  <2>4. Len(r) - n = Len(s) - (k + n)
    BY <1>1, <1>2
  <2>5. ASSUME NEW i \in 1 .. Len(s) - (k + n) PROVE x[i] = y[i]
    <3> DEFINE l == Len(s) - (k + n)
    <3>0. l \in Int /\ l = Len(s) - (k + n)
      BY <1>1
    <3> HIDE DEF l
    <3>1. i \in Int /\ 1 <= i /\ i <= Len(s) - (k + n)
      BY <3>0
    <3>2. n + i \in 1 .. Len(s) - k /\ k + (n + i) = k + n + i
      BY <1>1, <3>1
    <3>3. r[n + i] = s[k + (n + i)]
      BY <1>2, <3>2
    <3> QED
      BY <2>2, <2>3, <2>4, <3>2, <3>3
  <2>6. x = y
    BY <2>2, <2>3, <2>4, <2>5, SeqEqual
  <2> QED
    BY <2>6 DEF x, y
<1> QED
  BY <1>6, <1>7, <1>8 DEF a, b, r

LEMMA WholeText ==
  ASSUME NEW S, NEW s \in Seq(S)
  PROVE  SubSeq(s, 1, Len(s)) = s /\ SubSeq(s, 1, 0) = << >>
BY SubSeqFull, SubSeqEmpty

LEMMA NothingLeft ==
  ASSUME NEW S, NEW s \in Seq(S), NEW k \in 0 .. Len(s), SubSeq(s, k + 1, Len(s)) = << >>
  PROVE  k = Len(s)
<1>1. Len(s) \in Nat
  BY LenProperties
<1>2. Len(SubSeq(s, k + 1, Len(s))) = Len(s) - k /\ k \in Nat
  BY <1>1, Drop
<1>3. Len(<< >>) = 0
  OBVIOUS
<1> QED
  BY <1>1, <1>2, <1>3

(* A step of a thread that saves nothing before it or after it.             *)
Quiet(t) ==
  /\ UNCHANGED << files, saved >> /\ SaveTyped'
  /\ pc[t] # "write" /\ pc'[t] # "write" /\ (pc'[t] # "idle" => call'[t] \in Menu)
  /\ \A u \in Thread \ {t} :
       /\ pc'[u] = pc[u] /\ call'[u] = call[u] /\ pending'[u] = pending[u] /\ offset'[u] = offset[u]
       /\ failed'[u] = failed[u] /\ alone'[u] = alone[u]

LEMMA QuietSaves == ASSUME SaveInv, NEW t \in Thread, Quiet(t) PROVE SaveInv'
<1>1. SavedWhole'
  BY DEF Quiet, SaveInv, SavedWhole
<1>2. ASSUME NEW u \in Thread PROVE Saving(u)'
  <2>1. CASE u = t
    BY <2>1 DEF Quiet, Saving
  <2>2. CASE u # t
    <3>1. \A v \in Thread, p \in Path : Writes(v, p)' => Writes(v, p)
      BY DEF Quiet, Writes
    <3>2. /\ pc'[u] = pc[u] /\ call'[u] = call[u] /\ pending'[u] = pending[u]
          /\ offset'[u] = offset[u] /\ failed'[u] = failed[u] /\ alone'[u] = alone[u]
          /\ UNCHANGED << files, saved >>
      BY <2>2 DEF Quiet
    <3>3. pc[u] # "idle" => call[u].path \in Path
      BY MenuFacts DEF SaveInv, Saving
    <3>4. Holds(TextOf(call[u]), u) => Holds(TextOf(call[u]), u)'
      BY <3>2 DEF Holds
    <3> QED
      BY <3>1, <3>2, <3>3, <3>4 DEF SaveInv, Saving
  <2> QED
    BY <2>1, <2>2
<1> QED
  BY <1>1, <1>2 DEF Quiet, SaveInv

LEMMA QuietSteps ==
  ASSUME SaveInv, NEW t \in Thread,
         \/ CantOpenToSave(t) \/ CantOpenToLoad(t) \/ OpenToLoad(t) \/ Read(t) \/ EndOfFile(t)
         \/ ReadError(t)
         \/ \E c \in Menu : Call(t, c)
  PROVE  Quiet(t)
<1> USE DEF SaveInv, SaveTyped, Saving, Quiet
<1>1. CASE CantOpenToSave(t)
  BY <1>1 DEF CantOpenToSave
<1>2. CASE CantOpenToLoad(t)
  BY <1>2 DEF CantOpenToLoad
<1>3. CASE OpenToLoad(t)
  BY <1>3 DEF OpenToLoad
<1>4. CASE Read(t)
  BY <1>4 DEF Read, Reads
<1>5. CASE EndOfFile(t) \/ ReadError(t)
  <2>1. /\ pc[t] = "read" /\ pc' = [pc EXCEPT ![t] = "idle"]
        /\ \E broken \in BOOLEAN : failed' = [failed EXCEPT ![t] = broken]
        /\ UNCHANGED << files, call, pending, offset, alone, saved >>
    BY <1>5 DEF EndOfFile, ReadError, Reads, Return
  <2> QED
    BY <2>1
<1>6. ASSUME NEW c \in Menu, Call(t, c) PROVE Quiet(t)
  BY <1>6 DEF Call
<1> QED
  BY <1>1, <1>2, <1>3, <1>4, <1>5, <1>6

LEMMA OpenSaves == ASSUME SaveInv, NEW t \in Thread, OpenToSave(t) PROVE SaveInv'
<1> DEFINE c == call[t]
           p == c.path
<1>1. /\ pc[t] = "open" /\ c.op = "save" /\ saved' = [saved EXCEPT ![p] = NoCall] /\ call' = call
      /\ files' = [files EXCEPT ![p] = << >>]
      /\ alone' = [u \in Thread |-> IF u = t THEN Writers(p) = {}
                                    ELSE alone[u] /\ ~(pc[u] \in {"write", "read"} /\ call[u].path = p)]
      /\ \/ pc' = [pc EXCEPT ![t] = "idle"] /\ UNCHANGED << pending, offset, failed >>
         \/ /\ Rejected(c) = 0 /\ pc' = [pc EXCEPT ![t] = "write"]
            /\ pending' = [pending EXCEPT ![t] = TextOf(c)] /\ offset' = [offset EXCEPT ![t] = 0]
            /\ failed' = [failed EXCEPT ![t] = FALSE]
  BY DEF OpenToSave, Truncated
<1>2. c \in Menu /\ p \in Path
  BY <1>1, MenuFacts DEF SaveInv, Saving
<1>3. SaveTyped'
  BY <1>1, Zenon DEF SaveInv, SaveTyped
<1>4. SavedWhole'
  BY <1>1, <1>2 DEF SaveInv, SaveTyped, SavedWhole
<1>5. Saving(t)'
  <2>1. CASE pc'[t] = "idle"
    BY <2>1 DEF Saving
  <2>2. CASE pc'[t] # "idle"
    <3>1. /\ Rejected(c) = 0 /\ pc' = [pc EXCEPT ![t] = "write"] /\ pending'[t] = TextOf(c)
          /\ offset'[t] = 0 /\ files'[p] = << >> /\ saved'[p] = NoCall /\ call'[t] = c
      BY <1>1, <1>2, <2>2 DEF SaveInv, SaveTyped
    <3>2. alone'[t] => \A u \in Thread \ {t} : ~Writes(u, p)'
      BY <1>1, <3>1 DEF Writes, Writers, SaveInv, SaveTyped
    <3>3. TextOf(c) \in Seq(STRING)
      BY <1>1, <1>2, <3>1, MenuFacts
    <3>4. PICK s \in Seq(STRING) : s = TextOf(c)
      BY <3>3
    <3>5. Holds(s, t)'
      <4>1. pending'[t] = s /\ offset'[t] = 0 /\ files'[call'[t].path] = << >>
        BY <3>1, <3>4
      <4> HIDE DEF c, p
      <4>2. Len(s) \in Nat /\ SubSeq(s, 1, Len(s)) = s /\ SubSeq(s, 1, 0) = << >>
        BY WholeText, LenProperties
      <4> QED
        BY <4>1, <4>2 DEF Holds
    <3>6. TextOf(call[t])' = s
      BY <3>1, <3>4
    <3> QED
      BY <1>1, <1>2, <3>1, <3>2, <3>5, <3>6 DEF Saving
  <2> QED
    BY <2>1, <2>2
<1>6. ASSUME NEW u \in Thread \ {t} PROVE Saving(u)'
  <2>1. /\ pc'[u] = pc[u] /\ call'[u] = call[u] /\ pending'[u] = pending[u]
        /\ offset'[u] = offset[u] /\ failed'[u] = failed[u]
    BY <1>1 DEF SaveInv, SaveTyped
  <2>2. pc[u] # "idle" => call[u] \in Menu /\ call[u].path \in Path
    BY MenuFacts DEF SaveInv, Saving
  <2>3. pc[u] = "write" => saved'[call[u].path] = NoCall
    BY <1>1, <1>2, <2>2 DEF SaveInv, SaveTyped, Saving
  <2>4. ASSUME pc[u] = "write", alone'[u]
        PROVE  /\ alone[u] /\ call[u].path # p /\ files'[call[u].path] = files[call[u].path]
               /\ \A v \in Thread \ {u} : ~Writes(v, call[u].path)'
    <3>1. alone[u] /\ call[u].path # p
      BY <1>1, <2>4
    <3>2. \A v \in Thread : Writes(v, call[u].path)' => Writes(v, call[u].path)
      BY <1>1, <3>1 DEF Writes, SaveInv, SaveTyped
    <3> QED
      BY <1>1, <1>2, <2>2, <2>4, <3>1, <3>2 DEF SaveInv, SaveTyped, Saving
  <2> HIDE DEF c, p
  <2> QED
    BY <2>1, <2>2, <2>3, <2>4 DEF SaveInv, Saving, Holds, Writes
<1> QED
  BY <1>3, <1>4, <1>5, <1>6 DEF SaveInv

LEMMA FlushSaves == ASSUME SaveInv, NEW t \in Thread, Flush(t) PROVE SaveInv'
<1> DEFINE c == call[t]
           p == c.path
           s == TextOf(c)
<1>1. PICK n \in DOMAIN pending[t] :
        /\ files' = [files EXCEPT ![p] = Overlay(@, offset[t], SubSeq(pending[t], 1, n))]
        /\ pending' = [pending EXCEPT ![t] = SubSeq(@, n + 1, Len(@))]
        /\ offset' = [offset EXCEPT ![t] = @ + n]
  BY DEF Flush
<1>2. pc[t] = "write" /\ UNCHANGED << pc, call, failed, alone, saved >>
  BY DEF Flush
<1>3. c \in Menu /\ p \in Path /\ s \in Seq(STRING) /\ saved[p] = NoCall
  BY <1>2, MenuFacts DEF SaveInv, Saving
<1>4. SaveTyped'
  BY <1>1, <1>2, Zenon DEF SaveInv, SaveTyped
<1>5. SavedWhole'
  BY <1>1, <1>2, <1>3 DEF SaveInv, SaveTyped, SavedWhole
<1>6. ASSUME alone[t], ~failed[t] PROVE Holds(TextOf(c), t)'
  <2> DEFINE k == offset[t]
  <2>1. PICK w \in Seq(STRING) : w = TextOf(c)
    BY <1>3
  <2>2. /\ k \in 0 .. Len(w) /\ files[p] = SubSeq(w, 1, k)
        /\ pending[t] = SubSeq(w, k + 1, Len(w))
    BY <1>2, <1>6, <2>1 DEF SaveInv, Saving, Holds
  <2>3. /\ files'[p] = Overlay(files[p], k, SubSeq(pending[t], 1, n)) /\ call'[t].path = p
        /\ pending'[t] = SubSeq(pending[t], n + 1, Len(pending[t])) /\ offset'[t] = k + n
    BY <1>1, <1>2, <1>3 DEF SaveInv, SaveTyped
  <2> HIDE DEF c, p, k
  <2>4. Len(w) \in Nat /\ Len(pending[t]) = Len(w) - k /\ pending[t] \in Seq(STRING)
    BY <2>2, Drop, LenProperties
  <2>5. n \in 1 .. Len(w) - k
    BY <2>4, LenProperties
  <2>6. /\ files'[p] = SubSeq(w, 1, k + n)
        /\ pending'[t] = SubSeq(w, k + n + 1, Len(w))
    <3> DEFINE m == k
    <3>1. m \in 0 .. Len(w) /\ n \in 1 .. Len(w) - m
      BY <2>2, <2>5
    <3> HIDE DEF m
    <3>2. /\ Overlay(SubSeq(w, 1, m), m, SubSeq(SubSeq(w, m + 1, Len(w)), 1, n)) = SubSeq(w, 1, m + n)
          /\ SubSeq(SubSeq(w, m + 1, Len(w)), n + 1, Len(SubSeq(w, m + 1, Len(w))))
               = SubSeq(w, m + n + 1, Len(w))
      BY <3>1, OverlayGrows
    <3> QED
      BY <2>2, <2>3, <3>2, Zenon DEF m
  <2>7. k + n \in 0 .. Len(w)
    <3> DEFINE m == k
               l == Len(w)
    <3>1. m \in 0 .. l /\ n \in 1 .. l - m /\ l \in Nat
      BY <2>2, <2>4, <2>5
    <3> HIDE DEF m, l
    <3>2. m \in Int /\ l - m \in Int
      BY <3>1
    <3>3. m + n \in 0 .. l
      BY <3>1, <3>2
    <3> QED
      BY <3>3 DEF m, l
  <2>8. Holds(w, t)'
    BY <2>3, <2>6, <2>7 DEF Holds
  <2>9. TextOf(c)' = w
    BY <1>2, <2>1 DEF c
  <2> QED
    BY <2>8, <2>9 DEF Holds
<1>7. ASSUME NEW u \in Thread PROVE Saving(u)'
  <2>1. CASE u = t
    BY <1>2, <1>6, <2>1 DEF SaveInv, Saving, Writes
  <2>2. CASE u # t
    <3>1. pending'[u] = pending[u] /\ offset'[u] = offset[u]
      BY <1>1, <2>2 DEF SaveInv, SaveTyped
    <3>2. pc[u] = "write" /\ alone[u] => call[u].path # p
      BY <1>2, <2>2 DEF SaveInv, Saving, Writes
    <3>3. pc[u] = "write" => call[u].path \in Path
      BY MenuFacts DEF SaveInv, Saving
    <3>4. pc[u] = "write" /\ alone[u] => files'[call[u].path] = files[call[u].path]
      BY <1>1, <3>2, <3>3 DEF SaveInv, SaveTyped
    <3> HIDE DEF c, p, s
    <3> QED
      BY <1>2, <3>1, <3>4 DEF SaveInv, Saving, Writes, Holds
  <2> QED
    BY <2>1, <2>2
<1> QED
  BY <1>4, <1>5, <1>7 DEF SaveInv

LEMMA CloseSaves == ASSUME SaveInv, NEW t \in Thread, Close(t) PROVE SaveInv'
<1> DEFINE c == call[t]
           p == c.path
           s == TextOf(c)
<1>1. /\ pc[t] = "write" /\ pending[t] = << >> /\ pc' = [pc EXCEPT ![t] = "idle"]
      /\ pending' = [pending EXCEPT ![t] = << >>] /\ UNCHANGED << files, call, offset, failed, alone >>
      /\ saved' = [saved EXCEPT ![p] = IF alone[t] /\ ~failed[t] THEN c ELSE NoCall]
  BY DEF Close, Done
<1>2. c \in Menu /\ p \in Path /\ s \in Seq(STRING)
  BY <1>1, MenuFacts DEF SaveInv, Saving
<1>3. SaveTyped'
  BY <1>1, Zenon DEF SaveInv, SaveTyped
<1>4. alone[t] /\ ~failed[t] => files[p] = s
  <2> SUFFICES ASSUME alone[t], ~failed[t] PROVE files[p] = s
    OBVIOUS
  <2> DEFINE k == offset[t]
  <2>1. k \in 0 .. Len(s) /\ files[p] = SubSeq(s, 1, k) /\ SubSeq(s, k + 1, Len(s)) = << >>
    BY <1>1 DEF SaveInv, Saving, Holds
  <2> HIDE DEF c, p, s, k
  <2>2. SubSeq(s, 1, Len(s)) = s /\ k = Len(s)
    BY <1>2, <2>1, WholeText, NothingLeft
  <2> QED
    BY <2>1, <2>2
<1>5. SavedWhole'
  <2>1. ASSUME NEW q \in Path, saved'[q] # NoCall PROVE files'[q] = TextOf(saved'[q])
    BY <1>1, <1>2, <1>4, <2>1 DEF SaveInv, SaveTyped, SavedWhole
  <2> QED
    BY <2>1 DEF SavedWhole
<1>6. ASSUME NEW u \in Thread PROVE Saving(u)'
  <2>1. CASE u = t
    BY <1>1, <2>1 DEF SaveInv, SaveTyped, Saving
  <2>2. CASE u # t
    <3>1. pc'[u] = pc[u] /\ pending'[u] = pending[u]
      BY <1>1, <2>2 DEF SaveInv, SaveTyped
    <3>2. pc[u] = "write" => saved'[call[u].path] = NoCall
      BY <1>1, <1>2, <2>2, MenuFacts DEF SaveInv, SaveTyped, Saving, Writes
    <3>3. \A v \in Thread : \A q : Writes(v, q)' => Writes(v, q)
      BY <1>1 DEF Writes, SaveInv, SaveTyped
    <3> HIDE DEF c, p, s
    <3> QED
      BY <1>1, <3>1, <3>2, <3>3 DEF SaveInv, Saving, Holds
  <2> QED
    BY <2>1, <2>2
<1> QED
  BY <1>3, <1>5, <1>6 DEF SaveInv

LEMMA DiskSaves == ASSUME SaveInv, NEW t \in Thread, DiskFull(t) PROVE SaveInv'
<1>1. /\ failed' = [failed EXCEPT ![t] = TRUE] /\ pending' = [pending EXCEPT ![t] = << >>]
      /\ UNCHANGED << files, pc, call, offset, alone, saved >>
  BY DEF DiskFull
<1>2. SaveTyped' /\ SavedWhole'
  BY <1>1 DEF SaveInv, SaveTyped, SavedWhole
<1>3. ASSUME NEW u \in Thread PROVE Saving(u)'
  <2>1. failed'[u] \/ (failed'[u] = failed[u] /\ pending'[u] = pending[u])
    BY <1>1 DEF SaveInv, SaveTyped
  <2> QED
    BY <1>1, <2>1 DEF SaveInv, Saving, Writes, Holds
<1> QED
  BY <1>2, <1>3 DEF SaveInv

LEMMA SaveStep == SaveInv /\ [Next]_vars => SaveInv'
<1> SUFFICES ASSUME SaveInv, [Next]_vars PROVE SaveInv'
  OBVIOUS
<1>1. CASE UNCHANGED fvars
  BY <1>1 DEF fvars, SaveInv, SaveTyped, SavedWhole, Saving, Writes, Holds
<1>2. CASE FilesNext
  <2>1. PICK t \in Thread : FilesStep(t) \/ DiskFull(t) \/ ReadError(t) \/ \E c \in Menu : Call(t, c)
    BY <1>2 DEF FilesNext
  <2> QED
    BY <2>1, QuietSteps, QuietSaves, OpenSaves, FlushSaves, CloseSaves, DiskSaves DEF FilesStep
<1>3. CASE Crash
  <2>1. UNCHANGED << files, saved >> /\ \A t \in Thread : pc'[t] = "idle"
    BY <1>3 DEF Crash, FilesCrash
  <2>2. SaveTyped'
    BY <1>3 DEF Crash, FilesCrash, SaveInv, SaveTyped
  <2> QED
    BY <2>1, <2>2 DEF SaveInv, SavedWhole, Saving
<1> QED
  BY <1>1, <1>2, <1>3 DEF Next, vars, OthersOpen

(* Whatever else the threads do, however the writes are cut and whenever    *)
(* the process ends: a file that a save has returned 1 of, alone in it and  *)
(* the disk having taken everything, holds what was saved.                  *)
THEOREM SavesAreWhole == Spec => []SavedWhole
<1>1. SaveInv => SavedWhole
  BY DEF SaveInv
<1> QED
  BY SaveInit, SaveStep, <1>1, PTL DEF Spec

-----------------------------------------------------------------------------
(* A set of numbers has a least, and if it has a bound a largest one.       *)
LEMMA Least ==
  ASSUME NEW T \in SUBSET Nat, T # {}
  PROVE \E x \in T : \A y \in T : x <= y
<1>1. PICK x \in T : \A y \in T : <<y, x>> \notin OpToRel(<, Nat)
  BY WFMin, NatLessThanWellFounded, Zenon
<1>2. \A y \in T : ~(y < x)
  BY <1>1, Zenon DEF OpToRel
<1>3. \A y \in T : y \in Int /\ x \in Int
  OBVIOUS
<1> QED
  BY <1>2, <1>3

LEMMA Largest ==
  ASSUME NEW n \in Nat, NEW K \in SUBSET (0 .. n), K # {}
  PROVE  Max(K) \in K /\ \A k \in K : k <= Max(K)
<1>1. \A k \in K : k \in Nat /\ k <= n
  OBVIOUS
<1> DEFINE T == {m \in Nat : \A k \in K : k <= m}
<1>2. T \in SUBSET Nat /\ T # {}
  <2>1. n \in T
    BY <1>1
  <2> QED
    BY <2>1
<1> HIDE DEF T
<1>3. PICK m \in T : \A y \in T : m <= y
  BY <1>2, Least
<1>4. m \in Nat /\ \A k \in K : k <= m
  BY <1>3 DEF T
<1>5. m \in K
  <2> SUFFICES ASSUME m \notin K PROVE FALSE
    OBVIOUS
  <2>1. \A k \in K : k <= m - 1
    BY <1>1, <1>4
  <2>2. m - 1 \in Nat
    <3>1. PICK k \in K : TRUE
      OBVIOUS
    <3> QED
      BY <1>1, <1>4, <2>1, <3>1
  <2>3. m - 1 \in T
    BY <2>1, <2>2 DEF T
  <2> QED
    BY <1>3, <1>4, <2>3
<1>6. Max(K) \in K /\ \A k \in K : Max(K) >= k
  <2>1. \E x \in K : \A y \in K : x >= y
    BY <1>1, <1>4, <1>5
  <2> QED
    BY <2>1, Zenon DEF Max
<1> QED
  BY <1>1, <1>6

(* A beginning of a beginning.                                              *)
CutAgain(s, k, n) == n \in 1 .. k /\ SubSeq(SubSeq(s, 1, k), 1, n) = SubSeq(s, 1, n)
LEMMA CutOfBeginning ==
  ASSUME NEW S, NEW s \in Seq(S), NEW k \in 0 .. Len(s), NEW n \in DOMAIN SubSeq(s, 1, k)
  PROVE  CutAgain(s, k, n)
<1>1. PICK l \in Nat : l = Len(s) /\ k \in 0 .. l
  BY LenProperties
<1>2. PICK t : t = SubSeq(s, 1, k)
  OBVIOUS
<1>3. \A i \in 1 .. k : s[i] \in S
  BY <1>1, ElementOfSeq
<1>4. /\ t \in Seq(S) /\ Len(t) = (IF 1 <= k THEN k - 1 + 1 ELSE 0) /\ \A i \in 1 .. k - 1 + 1 : t[i] = s[1 + i - 1]
  BY <1>1, <1>2, <1>3, SubSeqProperties
<1>5. Len(t) = k /\ \A i \in 1 .. k : t[i] = s[i]
  BY <1>1, <1>4
<1>6. n \in 1 .. k
  BY <1>2, <1>4, <1>5, LenProperties
<1>7. \A i \in 1 .. n : t[i] = s[i] /\ s[i] \in S
  BY <1>1, <1>3, <1>5, <1>6
<1>8. PICK a, b : a = SubSeq(t, 1, n) /\ b = SubSeq(s, 1, n)
  OBVIOUS
<1>9. /\ a \in Seq(S) /\ Len(a) = n /\ \A i \in 1 .. n : a[i] = t[i]
      /\ b \in Seq(S) /\ Len(b) = n /\ \A i \in 1 .. n : b[i] = s[i]
  <2>1. 1 <= n /\ n - 1 + 1 = n /\ \A i \in 1 .. n : 1 + i - 1 = i
    BY <1>1, <1>6
  <2>2. a \in Seq(S) /\ Len(a) = (IF 1 <= n THEN n - 1 + 1 ELSE 0) /\ \A i \in 1 .. n - 1 + 1 : a[i] = t[1 + i - 1]
    BY <1>6, <1>7, <1>8, SubSeqProperties
  <2>3. b \in Seq(S) /\ Len(b) = (IF 1 <= n THEN n - 1 + 1 ELSE 0) /\ \A i \in 1 .. n - 1 + 1 : b[i] = s[1 + i - 1]
    BY <1>6, <1>7, <1>8, SubSeqProperties
  <2> QED
    BY <2>1, <2>2, <2>3
<1>10. a = b
  BY <1>6, <1>7, <1>9, SeqEqual
<1> QED
  BY <1>2, <1>6, <1>8, <1>10, Zenon DEF CutAgain

-----------------------------------------------------------------------------
(* What a load has by the place it has come to: a file that nobody writes   *)
(* has been read up to there, and buffer_data is what it was.               *)
Sym == STRING \cup {"0"}     \* the provers do not know that "0" is a string
Texts ==
  /\ pc \in [Thread -> {"idle", "open", "write", "read"}] /\ call = [t \in Thread |-> call[t]]
  /\ status = [t \in Thread |-> status[t]] /\ alone \in [Thread -> BOOLEAN]
  /\ loaded = [t \in Thread |-> loaded[t]] /\ failed = [t \in Thread |-> failed[t]]
  /\ files \in [Path -> Seq(Sym)] /\ pending \in [Thread -> Seq(Sym)]
  /\ offset \in [Thread -> Nat]
  /\ buffer \in [Thread -> Seq(Sym)] /\ before \in [Thread -> Seq(Sym)]
Reading(t) ==
  /\ pc[t] # "idle" => call[t] \in Menu /\ status[t] = 0
  /\ pc[t] = "open" => buffer[t] = before[t] /\ loaded[t] = Nothing
  /\ pc[t] = "read" => /\ loaded[t] = [kind |-> "none", text |-> loaded[t].text]
                       /\ loaded[t].text \in Seq(Sym) /\ buffer[t] = before[t]
  /\ pc[t] = "read" /\ alone[t] =>
       /\ \A u \in Thread : ~Writes(u, call[t].path)
       /\ offset[t] <= Len(files[call[t].path])
       /\ loaded[t].text = SubSeq(files[call[t].path], 1, offset[t])
ReadInv == Texts /\ \A t \in Thread : Reading(t)

LEMMA SavedIsText ==
  ASSUME NEW c \in Menu, c.op = "save", Rejected(c) = 0 PROVE TextOf(c) \in Seq(Sym)
<1>1. \A s \in Seq(STRING) : s \in Seq(Sym)
  BY DEF Sym
<1> QED
  BY <1>1, MenuFacts

LEMMA ReadInit == Init => ReadInv
<1> SUFFICES ASSUME Init PROVE ReadInv
  OBVIOUS
<1>1. << >> \in Seq(Sym) /\ << "0" >> \in Seq(Sym)
  BY DEF Sym
<1>2. files \in [Path -> Seq(Sym)]
  BY <1>1, SavedIsText, ZenonT(30) DEF Init, FilesInit
<1>3. Texts
  BY <1>1, <1>2 DEF Init, FilesInit, Texts
<1> QED
  BY <1>3 DEF Init, FilesInit, ReadInv, Reading

LEMMA OverlayText ==
  ASSUME NEW file \in Seq(Sym), NEW k \in Nat, NEW s \in Seq(Sym)
  PROVE  Overlay(file, k, s) \in Seq(Sym)
<1> DEFINE m == Max({Len(file), k + Len(s)})
<1>1. Len(file) \in Nat /\ Len(s) \in Nat
  BY LenProperties
<1>2. m \in Nat
  BY <1>1 DEF Max
<1> DEFINE SymAt(i) == IF i > k /\ i <= k + Len(s) THEN s[i - k] ELSE IF i <= Len(file) THEN file[i] ELSE "0"
<1>3. Overlay(file, k, s) = [i \in 1 .. m |-> SymAt(i)]
  BY DEF Overlay
<1> HIDE DEF m
<1>4. ASSUME NEW i \in 1 .. m PROVE SymAt(i) \in Sym
  <2>1. i \in Nat /\ 1 <= i
    BY <1>2
  <2>2. CASE i > k /\ i <= k + Len(s)
    <3>1. i - k \in 1 .. Len(s)
      BY <1>1, <2>1, <2>2
    <3> QED
      BY <2>2, <3>1, ElementOfSeq
  <2>3. CASE ~(i > k /\ i <= k + Len(s)) /\ i <= Len(file)
    <3>1. i \in 1 .. Len(file)
      BY <1>1, <2>1, <2>3
    <3>2. SymAt(i) = file[i]
      BY <2>3
    <3> QED
      BY <3>1, <3>2, ElementOfSeq
  <2>4. CASE ~(i > k /\ i <= k + Len(s)) /\ ~(i <= Len(file))
    <3>1. SymAt(i) = "0"
      BY <2>4
    <3> QED
      BY <3>1 DEF Sym
  <2> QED
    BY <2>2, <2>3, <2>4
<1> HIDE DEF SymAt
<1> QED
  BY <1>2, <1>3, <1>4

(* How much a read gets, of a file of l characters from position k on.      *)
LEMMA RestFacts ==
  ASSUME NEW l \in Nat, NEW k \in Nat
  PROVE  LET rest == Max({l - k, 0}) IN
         /\ \A n \in 1 .. rest : n \in Nat \ {0} /\ k + n <= l
         /\ rest = 0 => l <= k
<1> DEFINE rest == Max({l - k, 0})
<1>1. rest \in Nat /\ (k <= l => rest = l - k) /\ (k > l => rest = 0)
  BY DEF Max
<1> HIDE DEF rest
<1> QED
  BY <1>1 DEF rest

LEMMA PieceIsText ==
  ASSUME NEW s \in Seq(Sym), NEW k \in Nat, NEW n \in Nat, n = 0 \/ k + n <= Len(s)
  PROVE  SubSeq(s, k + 1, k + n) \in Seq(Sym)
<1>1. Len(s) \in Nat
  BY LenProperties
<1>2. ASSUME NEW i \in k + 1 .. k + n PROVE s[i] \in Sym
  <2>1. i \in 1 .. Len(s)
    BY <1>1
  <2> QED
    BY <2>1, ElementOfSeq
<1>3. k + 1 \in Int /\ k + n \in Int
  OBVIOUS
<1> QED
  BY <1>2, <1>3, SubSeqProperties

(* A step that leaves u and the file it reads alone.                        *)
AsItWas(u) ==
  /\ pc'[u] = pc[u] /\ call'[u] = call[u] /\ status'[u] = status[u] /\ offset'[u] = offset[u]
  /\ buffer'[u] = buffer[u] /\ before'[u] = before[u] /\ loaded'[u] = loaded[u]
  /\ alone'[u] => alone[u]
  /\ pc[u] = "read" /\ alone'[u] =>
       /\ files'[call[u].path] = files[call[u].path]
       /\ \A v \in Thread : Writes(v, call[u].path)' => Writes(v, call[u].path)

LEMMA StillReads == ASSUME NEW u \in Thread, Reading(u), AsItWas(u) PROVE Reading(u)'
<1> DEFINE p == call[u].path
<1>1. /\ pc'[u] # "idle" => call'[u] \in Menu /\ status'[u] = 0
      /\ pc'[u] = "open" => buffer'[u] = before'[u] /\ loaded'[u] = Nothing
      /\ pc'[u] = "read" => /\ loaded'[u] = [kind |-> "none", text |-> loaded'[u].text]
                            /\ loaded'[u].text \in Seq(Sym) /\ buffer'[u] = before'[u]
  BY DEF Reading, AsItWas
<1>2. ASSUME pc'[u] = "read", alone'[u]
      PROVE  /\ \A v \in Thread : ~Writes(v, p)' /\ files'[p] = files[p]
             /\ offset[u] <= Len(files[p]) /\ loaded[u].text = SubSeq(files[p], 1, offset[u])
  BY <1>2 DEF Reading, AsItWas
<1>3. call'[u] = call[u] /\ offset'[u] = offset[u] /\ loaded'[u] = loaded[u]
  BY DEF AsItWas
<1> QED
  BY <1>1, <1>2, <1>3 DEF Reading, Writes

LEMMA OpenReads == ASSUME ReadInv, NEW t \in Thread, OpenToSave(t) PROVE ReadInv'
<1> DEFINE c == call[t]
           p == c.path
<1>1. /\ pc[t] = "open" /\ c.op = "save" /\ UNCHANGED << call, buffer, before, loaded >>
      /\ files' = [files EXCEPT ![p] = << >>]
      /\ alone' = [u \in Thread |-> IF u = t THEN Writers(p) = {}
                                    ELSE alone[u] /\ ~(pc[u] \in {"write", "read"} /\ call[u].path = p)]
      /\ \/ /\ pc' = [pc EXCEPT ![t] = "idle"] /\ UNCHANGED << pending, offset >>
            /\ status' = [status EXCEPT ![t] = Rejected(c)]
            /\ failed' = failed
         \/ /\ Rejected(c) = 0 /\ pc' = [pc EXCEPT ![t] = "write"] /\ UNCHANGED status
            /\ failed' = [failed EXCEPT ![t] = FALSE]
            /\ pending' = [pending EXCEPT ![t] = TextOf(c)] /\ offset' = [offset EXCEPT ![t] = 0]
  BY DEF OpenToSave, Truncated
<1>2. c \in Menu /\ p \in Path /\ status[t] = 0
  BY <1>1, MenuFacts DEF ReadInv, Reading
<1>3. Texts'
  <2>1. Rejected(c) = 0 => TextOf(c) \in Seq(Sym)
    BY <1>1, <1>2, SavedIsText
  <2>2. << >> \in Seq(Sym)
    OBVIOUS
  <2> HIDE DEF c, p
  <2>3. files' \in [Path -> Seq(Sym)]
    BY <1>1, <2>2 DEF ReadInv, Texts
  <2>4. pending' \in [Thread -> Seq(Sym)] /\ offset' \in [Thread -> Nat]
    <3>1. ASSUME Rejected(c) = 0, pending' = [pending EXCEPT ![t] = TextOf(c)]
          PROVE  pending' \in [Thread -> Seq(Sym)]
      <4>1. PICK s \in Seq(Sym) : s = TextOf(c)
        BY <2>1, <3>1
      <4> QED
        BY <3>1, <4>1 DEF ReadInv, Texts
    <3>2. pending' = pending => pending' \in [Thread -> Seq(Sym)]
      BY DEF ReadInv, Texts
    <3>3. offset' \in [Thread -> Nat]
      <4>1. offset' = offset \/ offset' = [offset EXCEPT ![t] = 0]
        BY <1>1
      <4>2. offset \in [Thread -> Nat]
        BY DEF ReadInv, Texts
      <4> QED
        BY <4>1, <4>2
    <3> QED
      BY <1>1, <3>1, <3>2, <3>3
  <2>5. alone' \in [Thread -> BOOLEAN]
    BY <1>1, Zenon DEF ReadInv, Texts
  <2>6. /\ pc' \in [Thread -> {"idle", "open", "write", "read"}] /\ call' = [u \in Thread |-> call'[u]]
        /\ status' = [u \in Thread |-> status'[u]] /\ failed' = [u \in Thread |-> failed'[u]]
    BY <1>1 DEF ReadInv, Texts
  <2> QED
    BY <1>1, <2>3, <2>4, <2>5, <2>6 DEF ReadInv, Texts
<1>4. Reading(t)'
  BY <1>1, <1>2 DEF ReadInv, Texts, Reading
<1>5. ASSUME NEW u \in Thread \ {t} PROVE Reading(u)'
  <2>1. /\ pc'[u] = pc[u] /\ status'[u] = status[u] /\ offset'[u] = offset[u]
        /\ (alone'[u] => alone[u] /\ ~(pc[u] = "read" /\ call[u].path = p))
    BY <1>1 DEF ReadInv, Texts
  <2>2. pc[u] # "idle" => call[u].path \in Path
    BY MenuFacts DEF ReadInv, Reading
  <2>3. pc[u] = "read" /\ alone'[u] => files'[call[u].path] = files[call[u].path]
    BY <1>1, <2>1, <2>2 DEF ReadInv, Texts
  <2>4. pc[u] = "read" /\ alone'[u] =>
          \A v \in Thread : Writes(v, call[u].path)' => Writes(v, call[u].path)
    BY <1>1, <2>1 DEF ReadInv, Texts, Writes
  <2>5. AsItWas(u)
    BY <1>1, <2>1, <2>3, <2>4 DEF AsItWas
  <2> QED
    BY <2>5, StillReads DEF ReadInv
<1> QED
  BY <1>3, <1>4, <1>5 DEF ReadInv

LEMMA FlushReads == ASSUME ReadInv, NEW t \in Thread, Flush(t) PROVE ReadInv'
<1> DEFINE p == call[t].path
<1>1. PICK n \in DOMAIN pending[t] :
        /\ files' = [files EXCEPT ![p] = Overlay(@, offset[t], SubSeq(pending[t], 1, n))]
        /\ pending' = [pending EXCEPT ![t] = SubSeq(@, n + 1, Len(@))]
        /\ offset' = [offset EXCEPT ![t] = @ + n]
  BY DEF Flush
<1>2. pc[t] = "write" /\ UNCHANGED << pc, call, status, buffer, before, alone, loaded, failed >>
  BY DEF Flush
<1>3. p \in Path /\ call[t] \in Menu
  BY <1>2, MenuFacts DEF ReadInv, Reading
<1>4. Texts'
  <2>1. PICK s \in Seq(Sym) : s = pending[t]
    BY DEF ReadInv, Texts
  <2>2. n \in 1 .. Len(s) /\ Len(s) \in Nat
    BY <2>1, LenProperties
  <2>3. SubSeq(s, n + 1, Len(s)) \in Seq(Sym)
    BY <2>2, Drop
  <2>4. SubSeq(s, 1, n) \in Seq(Sym)
    <3>1. \A i \in 1 .. n : s[i] \in Sym
      BY <2>2, ElementOfSeq
    <3> QED
      BY <2>2, <3>1, SubSeqProperties
  <2>5. Overlay(files[p], offset[t], SubSeq(s, 1, n)) \in Seq(Sym)
    BY <1>3, <2>4, OverlayText DEF ReadInv, Texts
  <2>6. files' \in [Path -> Seq(Sym)]
    BY <1>1, <1>3, <2>1, <2>5 DEF ReadInv, Texts
  <2>7. pending' \in [Thread -> Seq(Sym)]
    BY <1>1, <2>1, <2>3 DEF ReadInv, Texts
  <2>8. offset' \in [Thread -> Nat]
    BY <1>1, <2>2 DEF ReadInv, Texts
  <2> QED
    BY <1>2, <2>6, <2>7, <2>8 DEF ReadInv, Texts
<1>5. ASSUME NEW u \in Thread PROVE Reading(u)'
  <2>1. CASE u = t
    BY <1>2, <2>1 DEF ReadInv, Reading
  <2>2. CASE u # t
    <3>1. offset'[u] = offset[u]
      BY <1>1, <2>2 DEF ReadInv, Texts
    <3>2. CASE pc[u] = "read" /\ alone[u]
      <4>1. call[u].path # p /\ call[u].path \in Path
        BY <1>2, <3>2, MenuFacts DEF ReadInv, Reading, Writes
      <4>2. files'[call[u].path] = files[call[u].path]
        BY <1>1, <4>1 DEF ReadInv, Texts
      <4>3. AsItWas(u)
        BY <1>2, <3>1, <4>2 DEF AsItWas, Writes
      <4> QED
        BY <4>3, StillReads DEF ReadInv
    <3>3. CASE ~(pc[u] = "read" /\ alone[u])
      BY <1>2, <3>3 DEF ReadInv, Reading
    <3> QED
      BY <3>2, <3>3
  <2> QED
    BY <2>1, <2>2
<1> QED
  BY <1>4, <1>5 DEF ReadInv

(* A step of t that opens no file and writes none.                          *)
LEMMA OwnStep ==
  ASSUME ReadInv, NEW t \in Thread, Texts', Reading(t)', UNCHANGED files,
         \A u \in Thread \ {t} :
           /\ pc'[u] = pc[u] /\ call'[u] = call[u] /\ status'[u] = status[u] /\ offset'[u] = offset[u]
           /\ buffer'[u] = buffer[u] /\ before'[u] = before[u] /\ alone'[u] = alone[u]
           /\ loaded'[u] = loaded[u],
         pc'[t] = "write" => pc[t] = "write" /\ call'[t] = call[t]
  PROVE  ReadInv'
<1>1. ASSUME NEW u \in Thread \ {t} PROVE Reading(u)'
  <2>1. \A v \in Thread : Writes(v, call[u].path)' => Writes(v, call[u].path)
    BY DEF Writes
  <2>2. AsItWas(u)
    BY <2>1 DEF AsItWas
  <2> QED
    BY <2>2, StillReads DEF ReadInv
<1> QED
  BY <1>1 DEF ReadInv

LEMMA ReadReads == ASSUME ReadInv, NEW t \in Thread, Read(t) PROVE ReadInv'
<1> DEFINE c == call[t]
           f == files[c.path]
           k == offset[t]
<1>1. PICK n \in 1 .. Rest(t) :
        /\ loaded' = [loaded EXCEPT ![t].text = @ \o SubSeq(f, k + 1, k + n)]
        /\ offset' = [offset EXCEPT ![t] = @ + n]
  BY DEF Read
<1>2. /\ pc[t] = "read"
      /\ UNCHANGED << files, pc, call, status, pending, failed, buffer, before, alone >>
  BY DEF Read, Reads
<1>3. c \in Menu /\ c.path \in Path
  BY <1>2, MenuFacts DEF ReadInv, Reading
<1>4. f \in Seq(Sym) /\ Len(f) \in Nat /\ k \in Nat
  BY <1>3, LenProperties DEF ReadInv, Texts
<1>5. n \in Nat /\ k + n <= Len(f)
  BY <1>4, RestFacts DEF Rest
<1> DEFINE b == SubSeq(f, k + 1, k + n)
           text == loaded[t].text
<1>6. b \in Seq(Sym) /\ text \in Seq(Sym) /\ loaded[t] = [kind |-> "none", text |-> text]
  <2>1. b \in Seq(Sym)
    BY <1>4, <1>5, PieceIsText
  <2> QED
    BY <1>2, <2>1 DEF ReadInv, Reading
<1>7. loaded'[t] = [kind |-> "none", text |-> text \o b] /\ offset'[t] = k + n
  <2>1. PICK y : y = text \o b
    OBVIOUS
  <2>2. loaded' = [loaded EXCEPT ![t] = [loaded[t] EXCEPT !.text = y]]
    BY <1>1, <2>1
  <2> HIDE DEF b, text
  <2>3. [loaded[t] EXCEPT !.text = y] = [kind |-> "none", text |-> y]
    BY <1>6
  <2>4. loaded'[t] = [kind |-> "none", text |-> y]
    BY <2>2, <2>3 DEF ReadInv, Texts
  <2>5. offset'[t] = k + n
    BY <1>1 DEF ReadInv, Texts
  <2> QED
    BY <2>1, <2>4, <2>5
<1>8. text \o b \in Seq(Sym)
  BY <1>6, ConcatProperties
<1>9. alone[t] => /\ \A u \in Thread : ~Writes(u, c.path)
                  /\ text \o b = SubSeq(f, 1, k + n)
  <2> SUFFICES ASSUME alone[t]
               PROVE (\A u \in Thread : ~Writes(u, c.path)) /\ text \o b = SubSeq(f, 1, k + n)
    OBVIOUS
  <2>1. (\A u \in Thread : ~Writes(u, c.path)) /\ text = SubSeq(f, 1, k) /\ k <= Len(f)
    BY <1>2 DEF ReadInv, Reading
  <2>2. 1 \in 1 .. Len(f) + 1 /\ k \in 1 - 1 .. Len(f) /\ k + n \in k .. Len(f)
    BY <1>4, <1>5, <2>1
  <2> HIDE DEF c, f, k, text
  <2>3. SubSeq(f, 1, k) \o SubSeq(f, k + 1, k + n) = SubSeq(f, 1, k + n)
    BY <1>4, <2>2, ConcatAdjacentSubSeq
  <2> QED
    BY <2>1, <2>3
<1> HIDE DEF b, text
<1>10. Texts'
  <2>1. offset' \in [Thread -> Nat]
    BY <1>1, <1>4, <1>5 DEF ReadInv, Texts
  <2>2. loaded' = [u \in Thread |-> loaded'[u]]
    BY <1>1 DEF ReadInv, Texts
  <2> QED
    BY <1>2, <2>1, <2>2 DEF ReadInv, Texts
<1>11. Reading(t)'
  <2>1. /\ pc'[t] = "read" /\ call'[t] = c /\ status'[t] = 0 /\ buffer'[t] = before'[t]
        /\ files'[c.path] = f /\ alone' = alone
    BY <1>2 DEF ReadInv, Reading
  <2>2. \A u \in Thread : ~Writes(u, c.path) => ~(pc'[u] = "write" /\ call'[u].path = c.path)
    BY <1>2 DEF Writes
  <2> HIDE DEF c, f, k
  <2>3. loaded'[t].text = text \o b
    BY <1>7
  <2>4. alone'[t] => /\ \A u \in Thread : ~(pc'[u] = "write" /\ call'[u].path = c.path)
                     /\ offset'[t] <= Len(files'[c.path])
                     /\ loaded'[t].text = SubSeq(files'[c.path], 1, offset'[t])
    BY <1>5, <1>7, <1>9, <2>1, <2>2, <2>3
  <2>5. loaded'[t] = [kind |-> "none", text |-> loaded'[t].text] /\ loaded'[t].text \in Seq(Sym)
    BY <1>7, <1>8, <2>3
  <2> QED
    BY <1>3, <2>1, <2>4, <2>5 DEF Reading, Writes
<1>12. \A u \in Thread \ {t} : offset'[u] = offset[u] /\ loaded'[u] = loaded[u]
  BY <1>1 DEF ReadInv, Texts
<1> QED
  BY <1>2, <1>10, <1>11, <1>12, OwnStep

(* What a read error leaves of a text is a beginning of it, for a buffer    *)
(* one of whole chunks.                                                     *)
LEMMA KeptBegins ==
  ASSUME NEW c \in Menu, NEW text \in Seq(Sym), c.lib = "file" => c.chunk > 0
  PROVE  \E n \in 0 .. Len(text) :
           /\ Kept(c, text) = SubSeq(text, 1, n)
           /\ c.lib = "file" => n % c.chunk = 0
           /\ c.lib # "file" /\ c.ext = "csv" => n = 0 \/ text[n] = NewLine
           /\ c.lib # "file" /\ c.ext # "csv" => Kept(c, text) = text
<1>1. Len(text) \in Nat /\ c.chunk \in Nat
  BY LenProperties, MenuAssumption DEF CallType
<1>2. CASE c.lib = "file"
  <2> DEFINE K == {n \in 0 .. Len(text) : n % c.chunk = 0}
  <2>1. 0 \in K
    BY <1>1, <1>2
  <2>2. K \in SUBSET (0 .. Len(text))
    OBVIOUS
  <2>3. Max(K) \in K
    <3> HIDE DEF K
    <3> QED
      BY <1>1, <2>1, <2>2, Largest
  <2>4. Kept(c, text) = SubSeq(text, 1, Max(K))
    <3>1. c.ext # "csv"
      BY <1>2, MenuAssumption
    <3> QED
      BY <1>2, <3>1, Zenon DEF Kept
  <2>5. Max(K) \in 0 .. Len(text) /\ Max(K) % c.chunk = 0
    BY <2>3
  <2> HIDE DEF K
  <2> QED
    BY <1>2, <2>4, <2>5
<1>3. CASE c.lib # "file" /\ c.ext = "csv"
  <2> DEFINE K == {0} \cup Ends(text, NewLine)
  <2>1. K \in SUBSET (0 .. Len(text)) /\ 0 \in K /\ \A n \in K : n = 0 \/ text[n] = NewLine
    <3>1. DOMAIN text = 1 .. Len(text)
      BY LenProperties
    <3> QED
      BY <1>1, <3>1 DEF Ends
  <2> HIDE DEF K
  <2>2. Max(K) \in K
    BY <1>1, <2>1, Largest
  <2>3. Kept(c, text) = SubSeq(text, 1, Max(K))
    BY <1>3 DEF Kept, K
  <2> QED
    BY <1>3, <2>1, <2>2, <2>3
<1>4. CASE c.lib # "file" /\ c.ext # "csv"
  <2>1. Kept(c, text) = text
    BY <1>4 DEF Kept
  <2>2. SubSeq(text, 1, Len(text)) = text /\ Len(text) \in 0 .. Len(text)
    BY <1>1, WholeText
  <2> QED
    BY <1>4, <2>1, <2>2
<1> QED
  BY <1>2, <1>3, <1>4

(* What file_to_buffer has appended when it returns.                        *)
Gets(t) ==
  LET c    == call[t]
      file == files[c.path]
  IN /\ c.chunk > 0
     /\ alone[t] => \E n \in 0 .. Len(file) :
          /\ buffer'[t] = before[t] \o SubSeq(file, 1, n)
          /\ IF failed'[t] THEN n % c.chunk = 0 ELSE n = Len(file)
LEMMA ReturnReads ==
  ASSUME ReadInv, NEW t \in Thread, Reads(t), NEW broken \in BOOLEAN, Return(t, broken),
         broken \/ AtEnd(t)
  PROVE  ReadInv' /\ (call[t].lib = "file" => Gets(t))
<1> DEFINE c == call[t]
           f == files[c.path]
           k == offset[t]
           text == loaded[t].text
           left == IF broken THEN Kept(c, text) ELSE text
<1>1. /\ pc' = [pc EXCEPT ![t] = "idle"] /\ failed' = [failed EXCEPT ![t] = broken]
      /\ UNCHANGED << files, call, pending, offset, before, alone >>
  BY DEF Return
<1>2. IF c.lib = "file"
      THEN /\ buffer' = [buffer EXCEPT ![t] = @ \o left] /\ status' = [status EXCEPT ![t] = 1]
           /\ loaded' = [loaded EXCEPT ![t] = Nothing]
      ELSE /\ loaded' = [loaded EXCEPT ![t] = [kind |-> Kind(c, left, broken), text |-> left]]
           /\ UNCHANGED << buffer, status >>
  BY DEF Return
<1>3. /\ pc[t] = "read" /\ c \in Menu /\ c.path \in Path /\ (c.lib = "file" => c.chunk > 0)
      /\ text \in Seq(Sym) /\ buffer[t] = before[t] /\ before[t] \in Seq(Sym)
  BY MenuFacts DEF Reads, ReadInv, Reading, Texts
<1>4. f \in Seq(Sym) /\ Len(f) \in Nat /\ k \in Nat
  BY <1>3, LenProperties DEF ReadInv, Texts
<1>5. alone[t] => k <= Len(f) /\ text = SubSeq(f, 1, k)
  BY <1>3 DEF ReadInv, Reading
<1>6. AtEnd(t) => Len(f) <= k
  BY <1>4, RestFacts DEF AtEnd, Rest
<1> HIDE DEF c, f, k, text
<1>7. PICK n \in 0 .. Len(text) :
        /\ left = SubSeq(text, 1, n) /\ (~broken => n = Len(text))
        /\ broken /\ c.lib = "file" => n % c.chunk = 0
  <2>1. CASE broken
    BY <1>3, <2>1, KeptBegins, Zenon
  <2>2. CASE ~broken
    <3>1. Len(text) \in 0 .. Len(text) /\ SubSeq(text, 1, Len(text)) = text
      BY <1>3, WholeText, LenProperties
    <3> QED
      BY <2>2, <3>1
  <2> QED
    BY <2>1, <2>2
<1> HIDE DEF left
<1>8. left \in Seq(Sym)
  <2>1. 0 + 1 = 1 /\ 0 + n = n /\ n \in Nat /\ n <= Len(text)
    BY <1>3, LenProperties
  <2>2. SubSeq(text, 0 + 1, 0 + n) \in Seq(Sym)
    <3>1. 0 + n <= Len(text)
      BY <2>1
    <3> QED
      BY <1>3, <2>1, <3>1, PieceIsText
  <2> QED
    BY <1>7, <2>1, <2>2
<1>9. Texts'
  <2>1. before[t] \o left \in Seq(Sym)
    BY <1>3, <1>8, ConcatProperties
  <2>2. buffer' \in [Thread -> Seq(Sym)]
    <3>1. PICK y \in Seq(Sym) : y = before[t] \o left
      BY <2>1
    <3>2. buffer' = buffer \/ buffer' = [buffer EXCEPT ![t] = y]
      BY <1>2, <1>3, <3>1
    <3> QED
      BY <3>1, <3>2 DEF ReadInv, Texts
  <2>3. loaded' = [u \in Thread |-> loaded'[u]] /\ status' = [u \in Thread |-> status'[u]]
    BY <1>2 DEF ReadInv, Texts
  <2> QED
    BY <1>1, <2>2, <2>3 DEF ReadInv, Texts
<1>10. Reading(t)' /\ \A u \in Thread \ {t} :
         /\ pc'[u] = pc[u] /\ status'[u] = status[u] /\ buffer'[u] = buffer[u] /\ loaded'[u] = loaded[u]
  BY <1>1, <1>2 DEF ReadInv, Texts, Reading
<1>11. ReadInv'
  BY <1>1, <1>9, <1>10, OwnStep DEF ReadInv, Texts
<1>12. ASSUME c.lib = "file" PROVE Gets(t)
  <2>1. buffer'[t] = before[t] \o left /\ failed'[t] = broken
    BY <1>1, <1>2, <1>3, <1>12 DEF ReadInv, Texts
  <2>2. ASSUME alone[t]
        PROVE  /\ n \in 0 .. Len(f) /\ left = SubSeq(f, 1, n)
               /\ IF broken THEN n % c.chunk = 0 ELSE n = Len(f)
    <3>1. k \in 0 .. Len(f) /\ text = SubSeq(f, 1, k)
      BY <1>4, <1>5, <2>2
    <3>2. Len(text) = k
      <4>1. \A i \in 1 .. k : f[i] \in Sym
        BY <1>4, <3>1, ElementOfSeq
      <4> QED
        BY <1>4, <3>1, <4>1, SubSeqProperties
    <3>3. n \in 0 .. Len(f)
      BY <1>4, <3>1, <3>2
    <3>4. SubSeq(text, 1, n) = SubSeq(f, 1, n)
      <4>1. CASE n = 0
        BY <1>3, <1>4, <4>1, WholeText
      <4>2. CASE n # 0
        <5>1. n \in DOMAIN SubSeq(f, 1, k)
          <6>1. n \in 1 .. Len(text)
            BY <1>4, <3>1, <3>2, <4>2
          <6> QED
            BY <1>3, <3>1, <6>1, LenProperties
        <5>2. CutAgain(f, k, n)
          BY <1>4, <3>1, <5>1, CutOfBeginning, Zenon
        <5> QED
          BY <3>1, <5>2, Zenon DEF CutAgain
      <4> QED
        BY <4>1, <4>2
    <3>5. IF broken THEN n % c.chunk = 0 ELSE n = Len(f)
      <4>1. ~broken => Len(f) <= k
        BY <1>6
      <4> QED
        BY <1>4, <1>7, <1>12, <3>1, <3>2, <4>1
    <3> QED
      BY <1>7, <3>3, <3>4, <3>5
  <2> QED
    BY <1>3, <1>12, <2>1, <2>2 DEF Gets, c, f
<1> QED
  BY <1>11, <1>12 DEF c

LEMMA OtherReads ==
  ASSUME ReadInv, NEW t \in Thread,
         \/ CantOpenToSave(t) \/ DiskFull(t) \/ Close(t) \/ CantOpenToLoad(t) \/ OpenToLoad(t)
         \/ \E c \in Menu : Call(t, c)
  PROVE  ReadInv'
<1>1. << >> \in Seq(Sym)
  OBVIOUS
<1>2. CASE CantOpenToSave(t)
  <2>1. Texts' /\ Reading(t)'
    BY <1>2 DEF CantOpenToSave, ReadInv, Texts, Reading
  <2> QED
    BY <1>2, <2>1, OwnStep DEF CantOpenToSave, ReadInv, Texts
<1>3. CASE DiskFull(t)
  <2>1. Texts' /\ Reading(t)'
    BY <1>1, <1>3 DEF DiskFull, ReadInv, Texts, Reading
  <2> QED
    BY <1>3, <2>1, OwnStep DEF DiskFull, ReadInv, Texts
<1>4. CASE Close(t)
  <2>1. Texts' /\ Reading(t)'
    BY <1>1, <1>4 DEF Close, Done, ReadInv, Texts, Reading
  <2> QED
    BY <1>4, <2>1, OwnStep DEF Close, ReadInv, Texts
<1>5. CASE CantOpenToLoad(t)
  <2>1. /\ UNCHANGED << files, call, pending, offset, before, alone, failed >>
        /\ pc' = [pc EXCEPT ![t] = "idle"]
        /\ loaded' = loaded \/ loaded' = [loaded EXCEPT ![t].kind = "null"]
        /\ buffer' = buffer \/ buffer' = [buffer EXCEPT ![t] = << >>]
        /\ status' = status \/ status' = [status EXCEPT ![t] = -1]
    BY <1>5 DEF CantOpenToLoad
  <2>2. buffer' \in [Thread -> Seq(Sym)]
    BY <1>1, <2>1 DEF ReadInv, Texts
  <2>3. Texts' /\ Reading(t)'
    BY <2>1, <2>2 DEF ReadInv, Texts, Reading
  <2> QED
    BY <2>1, <2>3, OwnStep DEF ReadInv, Texts
<1>6. CASE OpenToLoad(t)
  <2> DEFINE p == call[t].path
  <2>1. /\ pc[t] = "open" /\ pc' = [pc EXCEPT ![t] = "read"] /\ offset' = [offset EXCEPT ![t] = 0]
        /\ alone' = [alone EXCEPT ![t] = Writers(p) = {}]
        /\ failed' = [failed EXCEPT ![t] = FALSE]
        /\ UNCHANGED << files, call, status, pending, buffer, before, loaded >>
    BY <1>6 DEF OpenToLoad
  <2>2. Texts'
    BY <2>1, Zenon DEF ReadInv, Texts
  <2>3. /\ call[t] \in Menu /\ p \in Path /\ status[t] = 0 /\ buffer[t] = before[t]
        /\ files[p] \in Seq(Sym) /\ loaded[t] = [kind |-> "none", text |-> << >>]
    BY <2>1, MenuFacts DEF ReadInv, Texts, Reading, Nothing
  <2>4. SubSeq(files[p], 1, 0) = << >> /\ << >> \in Seq(Sym) /\ 0 <= Len(files[p])
    BY <2>3, WholeText, LenProperties
  <2>5. alone'[t] => \A u \in Thread : ~Writes(u, p)'
    BY <2>1 DEF ReadInv, Texts, Writes, Writers
  <2>6. Reading(t)'
    <3>1. /\ pc'[t] = "read" /\ call'[t] = call[t] /\ offset'[t] = 0 /\ files'[p] = files[p]
          /\ status'[t] = 0 /\ buffer'[t] = before'[t] /\ loaded'[t] = [kind |-> "none", text |-> << >>]
      BY <2>1, <2>3 DEF ReadInv, Texts
    <3>2. loaded'[t].text = << >>
      BY <3>1
    <3> QED
      BY <2>3, <2>4, <2>5, <3>1, <3>2, Zenon DEF Reading
  <2> QED
    BY <2>1, <2>2, <2>6, OwnStep DEF ReadInv, Texts
<1>7. ASSUME NEW c \in Menu, Call(t, c) PROVE ReadInv'
  <2>1. Texts' /\ Reading(t)'
    BY <1>7, ZenonT(30) DEF Call, ReadInv, Texts, Reading
  <2> QED
    BY <1>7, <2>1, OwnStep DEF Call, ReadInv, Texts
<1> QED
  BY <1>2, <1>3, <1>4, <1>5, <1>6, <1>7

LEMMA ReadStep == ReadInv /\ [Next]_vars => ReadInv'
<1> SUFFICES ASSUME ReadInv, [Next]_vars PROVE ReadInv'
  OBVIOUS
<1>1. CASE UNCHANGED fvars
  BY <1>1 DEF fvars, ReadInv, Texts, Reading, Writes
<1>2. CASE FilesNext
  BY <1>2, OpenReads, FlushReads, ReadReads, ReturnReads, OtherReads
     DEF FilesNext, FilesStep, EndOfFile, ReadError
<1>3. CASE Crash
  <2>1. << >> \in Seq(Sym)
    OBVIOUS
  <2>2. Texts'
    BY <1>3, <2>1 DEF Crash, FilesCrash, ReadInv, Texts
  <2>3. \A t \in Thread : pc'[t] = "idle"
    BY <1>3 DEF Crash, FilesCrash
  <2> QED
    BY <2>2, <2>3 DEF ReadInv, Reading
<1> QED
  BY <1>1, <1>2, <1>3 DEF Next, vars, OthersOpen

(* The status is 1 after the step of a read only if the read took it.       *)
LEMMA OnlyTheRead ==
  ASSUME ReadInv, Next, NEW t \in Thread, pc[t] = "read", call[t].lib = "file", status'[t] = 1
  PROVE  EndOfFile(t) \/ ReadError(t)
<1>1. status[t] = 0
  BY DEF ReadInv, Reading
<1>2. CASE UNCHANGED fvars
  BY <1>1, <1>2 DEF fvars
<1>3. CASE Crash
  BY <1>3 DEF Crash, FilesCrash
<1>4. CASE FilesNext
  <2>1. PICK u \in Thread : FilesStep(u) \/ DiskFull(u) \/ ReadError(u) \/ \E c \in Menu : Call(u, c)
    BY <1>4 DEF FilesNext
  <2>2. CASE u = t
    BY <1>1, <2>1, <2>2 DEF FilesStep, CantOpenToSave, OpenToSave, Flush, Close, Done, DiskFull,
                            CantOpenToLoad, OpenToLoad, Read, Call
  <2>3. CASE u # t
    <3>1. status'[t] = status[t]
      <4>1. status' = status \/ \E x : status' = [status EXCEPT ![u] = x]
        <5>1. CASE CantOpenToSave(u) \/ OpenToSave(u) \/ Flush(u) \/ Close(u)
          BY <5>1, Zenon DEF CantOpenToSave, OpenToSave, Flush, Close
        <5>2. CASE CantOpenToLoad(u) \/ OpenToLoad(u) \/ Read(u) \/ EndOfFile(u) \/ ReadError(u)
          BY <5>2, Zenon DEF CantOpenToLoad, OpenToLoad, Read, EndOfFile, ReadError, Return
        <5>3. CASE DiskFull(u) \/ \E c \in Menu : Call(u, c)
          BY <5>3, Zenon DEF DiskFull, Call
        <5> QED
          BY <2>1, <5>1, <5>2, <5>3, Zenon DEF FilesStep
      <4>2. status = [v \in Thread |-> status[v]]
        BY DEF ReadInv, Texts
      <4> QED
        BY <2>3, <4>1, <4>2
    <3> QED
      BY <1>1, <3>1, SMTT(30)
  <2> QED
    BY <2>2, <2>3
<1> QED
  BY <1>2, <1>3, <1>4 DEF Next, OthersOpen

(* file_to_buffer returns of chunks that are not empty; and however saves   *)
(* and reads interleave and reads fail, if no save was in the file it has   *)
(* then appended all of it to what the buffer held, or, if a read failed,   *)
(* the whole chunks that were read before that.                             *)
THEOREM BuffersAreFull == Spec => BufferGetsFile
<1> DEFINE Got(t) == pc[t] = "read" /\ call[t].lib = "file" /\ status'[t] = 1 => Gets(t)
<1>1. ReadInv /\ [Next]_vars => [\A t \in Thread : Got(t)]_fvars
  <2> SUFFICES ASSUME ReadInv, Next, NEW t \in Thread PROVE Got(t)
    BY DEF vars
  <2> QED
    BY OnlyTheRead, ReturnReads DEF EndOfFile, ReadError
<1> QED
  BY ReadInit, ReadStep, <1>1, PTL DEF Spec, BufferGetsFile, Gets

-----------------------------------------------------------------------------
(* A save that is alone in its file has written the beginning of its text,  *)
(* a failed write included.                                                 *)
Begun(t) ==
  pc[t] = "write" /\ alone[t] =>
    (failed[t] => pending[t] = << >>) /\ Begins(files[call[t].path], TextOf(call[t]))
BegunInv == SaveInv /\ \A t \in Thread : Begun(t)

(* What a save that has lost nothing has in its file is a beginning.        *)
LEMMA HoldsBegins ==
  ASSUME NEW t \in Thread, SaveInv', pc'[t] = "write", alone'[t], ~failed'[t]
  PROVE  Begins(files[call[t].path], TextOf(call[t]))'
BY DEF SaveInv, Saving, Holds, Begins

(* Nothing comes into the file after a write has failed.                    *)
Stuck(t) ==
  pc'[t] = "write" /\ alone'[t] /\ failed'[t] =>
    /\ pc[t] = "write" /\ alone[t] /\ pending'[t] = << >> /\ call'[t] = call[t]
    /\ files'[call[t].path] = files[call[t].path]
LEMMA StuckBegins == ASSUME BegunInv, SaveInv', NEW t \in Thread, Stuck(t) PROVE Begun(t)'
<1> SUFFICES ASSUME pc'[t] = "write", alone'[t]
             PROVE /\ failed'[t] => pending'[t] = << >>
                   /\ Begins(files[call[t].path], TextOf(call[t]))'
  BY DEF Begun
<1>1. CASE ~failed'[t]
  BY <1>1, HoldsBegins
<1>2. CASE failed'[t]
  <2>1. /\ pc[t] = "write" /\ alone[t] /\ pending'[t] = << >> /\ call'[t] = call[t]
        /\ files'[call[t].path] = files[call[t].path]
    BY <1>2 DEF Stuck
  <2>2. Begins(files[call[t].path], TextOf(call[t]))
    BY <2>1 DEF BegunInv, Begun
  <2>3. TextOf(call[t])' = TextOf(call[t]) /\ files[call[t].path]' = files[call[t].path]
    BY <2>1 DEF TextOf
  <2> QED
    BY <2>1, <2>2, <2>3, Zenon DEF Begins
<1> QED
  BY <1>1, <1>2

LEMMA QuietStuck ==
  ASSUME BegunInv, NEW t \in Thread, Quiet(t), NEW u \in Thread PROVE Stuck(u)
BY DEF Quiet, Stuck, BegunInv, Begun

LEMMA OpenStuck == ASSUME BegunInv, NEW t \in Thread, OpenToSave(t), NEW u \in Thread PROVE Stuck(u)
<1>1. /\ pc[t] = "open" /\ call' = call
      /\ files' = [files EXCEPT ![call[t].path] = << >>]
      /\ alone' = [v \in Thread |-> IF v = t THEN Writers(call[t].path) = {}
                     ELSE alone[v] /\ ~(pc[v] \in {"write", "read"} /\ call[v].path = call[t].path)]
      /\ \/ pc' = [pc EXCEPT ![t] = "idle"] /\ UNCHANGED << pending, offset, failed >>
         \/ /\ pc' = [pc EXCEPT ![t] = "write"] /\ pending' = [pending EXCEPT ![t] = TextOf(call[t])]
            /\ failed' = [failed EXCEPT ![t] = FALSE]
  BY DEF OpenToSave, Truncated
<1>2. CASE u = t
  BY <1>1, <1>2 DEF Stuck, BegunInv, SaveInv, SaveTyped
<1>3. CASE u # t
  <2> SUFFICES ASSUME pc'[u] = "write", alone'[u], failed'[u]
               PROVE /\ pc[u] = "write" /\ alone[u] /\ pending'[u] = << >>
                     /\ files'[call[u].path] = files[call[u].path]
    BY <1>1 DEF Stuck
  <2>1. pc[u] = "write" /\ failed[u] /\ pending'[u] = pending[u]
    BY <1>1, <1>3 DEF BegunInv, SaveInv, SaveTyped
  <2>2. alone[u] /\ call[u].path # call[t].path
    BY <1>1, <1>3, <2>1
  <2>3. pending[u] = << >>
    BY <2>1, <2>2 DEF BegunInv, Begun
  <2>4. call[u].path \in Path
    BY <2>1, MenuFacts DEF BegunInv, SaveInv, Saving
  <2>5. files'[call[u].path] = files[call[u].path]
    BY <1>1, <2>2, <2>4 DEF BegunInv, SaveInv, SaveTyped
  <2> QED
    BY <2>1, <2>2, <2>3, <2>5
<1> QED
  BY <1>2, <1>3

LEMMA FlushStuck == ASSUME BegunInv, NEW t \in Thread, Flush(t), NEW u \in Thread PROVE Stuck(u)
<1>1. PICK n \in DOMAIN pending[t] :
        /\ files' = [files EXCEPT ![call[t].path] = Overlay(@, offset[t], SubSeq(pending[t], 1, n))]
        /\ pending' = [pending EXCEPT ![t] = SubSeq(@, n + 1, Len(@))]
  BY DEF Flush
<1>2. pc[t] = "write" /\ UNCHANGED << pc, call, failed, alone >>
  BY DEF Flush
<1> SUFFICES ASSUME pc[u] = "write", alone[u], failed[u]
             PROVE pending'[u] = << >> /\ files'[call[u].path] = files[call[u].path]
  BY <1>2 DEF Stuck
<1>3. pending[u] = << >>
  BY DEF BegunInv, Begun
<1>4. u # t
  <2>1. DOMAIN << >> = {}
    OBVIOUS
  <2> QED
    BY <1>1, <1>3, <2>1
<1>5. call[u].path # call[t].path /\ call[u].path \in Path
  BY <1>2, <1>4, MenuFacts DEF BegunInv, SaveInv, Saving, Writes
<1>6. pending'[u] = pending[u]
  BY <1>1, <1>4 DEF BegunInv, SaveInv, SaveTyped
<1>7. files'[call[u].path] = files[call[u].path]
  BY <1>1, <1>5 DEF BegunInv, SaveInv, SaveTyped
<1> QED
  BY <1>3, <1>6, <1>7

LEMMA CloseStuck == ASSUME BegunInv, NEW t \in Thread, Close(t), NEW u \in Thread PROVE Stuck(u)
BY DEF Close, Done, Stuck, BegunInv, SaveInv, SaveTyped, Begun

LEMMA DiskStuck == ASSUME BegunInv, NEW t \in Thread, DiskFull(t), NEW u \in Thread PROVE Stuck(u)
BY DEF DiskFull, Stuck, BegunInv, SaveInv, SaveTyped, Begun

LEMMA BegunStep == BegunInv /\ [Next]_vars => BegunInv'
<1> SUFFICES ASSUME BegunInv, [Next]_vars PROVE BegunInv'
  OBVIOUS
<1>1. SaveInv'
  BY SaveStep DEF BegunInv
<1>2. CASE UNCHANGED fvars
  BY <1>1, <1>2 DEF fvars, BegunInv, Begun, TextOf
<1>3. CASE Crash
  BY <1>1, <1>3 DEF Crash, FilesCrash, BegunInv, Begun
<1>4. CASE FilesNext
  <2>1. PICK t \in Thread : FilesStep(t) \/ DiskFull(t) \/ ReadError(t) \/ \E c \in Menu : Call(t, c)
    BY <1>4 DEF FilesNext
  <2>2. \A u \in Thread : Stuck(u)
    BY <2>1, QuietSteps, QuietStuck, OpenStuck, FlushStuck, CloseStuck, DiskStuck DEF FilesStep, BegunInv
  <2> QED
    BY <1>1, <2>2, StuckBegins DEF BegunInv
<1> QED
  BY <1>2, <1>3, <1>4 DEF Next, vars, OthersOpen

-----------------------------------------------------------------------------
(* Who opened a file last, if nobody else was in it: who writes it, if      *)
(* anybody does, and who has saved it, if it is saved.                      *)
IsSave(c) == c \in Menu /\ c.op = "save" /\ Rejected(c) = 0
Opener(p) ==
  /\ opened[p] # NoCall => opened[p] \in Menu /\ opened[p].op = "save"
  /\ saved[p] # NoCall => opened[p] = saved[p] /\ IsSave(saved[p])
  /\ \A t \in Thread : Writes(t, p) =>
       /\ opened[p] # NoCall => alone[t]
       /\ alone[t] => opened[p] = call[t]
Beginning(p) ==
  LET c == opened[p] IN
  c # NoCall => IF Rejected(c) # 0 THEN files[p] = << >> ELSE Begins(files[p], TextOf(c))
HoldInv ==
  /\ BegunInv /\ opened = [p \in Path |-> opened[p]]
  /\ \A p \in Path : Opener(p) /\ Beginning(p)

LEMMA SaveText ==
  ASSUME NEW c, IsSave(c)
  PROVE  /\ TextOf(c) \in Seq(STRING) /\ Begins(TextOf(c), TextOf(c)) /\ Begins(<< >>, TextOf(c))
         /\ c # NoCall
<1>1. c \in Menu /\ TextOf(c) \in Seq(STRING)
  BY MenuFacts DEF IsSave
<1>2. PICK s \in Seq(STRING) : s = TextOf(c)
  BY <1>1
<1>3. Begins(s, s) /\ Begins(<< >>, s)
  <2>1. SubSeq(s, 1, Len(s)) = s /\ SubSeq(s, 1, 0) = << >>
    BY WholeText
  <2>2. Len(s) \in 0 .. Len(s) /\ 0 \in 0 .. Len(s)
    BY LenProperties
  <2> QED
    BY <2>1, <2>2 DEF Begins
<1>4. c # NoCall
  BY <1>1, MenuAssumption DEF NoCall, CallType
<1> QED
  BY <1>1, <1>2, <1>3, <1>4

LEMMA HoldInit == Init => HoldInv
<1> SUFFICES ASSUME Init PROVE HoldInv
  OBVIOUS
<1>1. BegunInv /\ opened = [p \in Path |-> opened[p]]
  BY SaveInit DEF Init, FilesInit, BegunInv, Begun
<1>2. ASSUME NEW p \in Path PROVE Opener(p) /\ Beginning(p)
  <2>1. opened[p] = saved[p] /\ \A t \in Thread : ~Writes(t, p)
    BY DEF Init, FilesInit, Writes
  <2>2. CASE saved[p] = NoCall
    BY <2>1, <2>2 DEF Opener, Beginning
  <2>3. CASE saved[p] # NoCall
    <3>1. PICK c \in Menu : /\ c.op = "save" /\ Rejected(c) = 0 /\ p = c.path
                            /\ files[p] = TextOf(c) /\ saved[p] = c
      BY <2>3 DEF Init, FilesInit
    <3>2. IsSave(c)
      BY <3>1 DEF IsSave
    <3>3. Begins(TextOf(c), TextOf(c))
      BY <3>2, SaveText
    <3> QED
      BY <2>1, <3>1, <3>2, <3>3 DEF Opener, Beginning
  <2> QED
    BY <2>2, <2>3
<1> QED
  BY <1>1, <1>2 DEF HoldInv

(* A step that changes no file.                                             *)
LEMMA FilesKept ==
  ASSUME HoldInv, BegunInv', UNCHANGED << files, opened, saved >>,
         \A t \in Thread, p \in Path :
           Writes(t, p)' => Writes(t, p) /\ alone'[t] = alone[t] /\ call'[t] = call[t]
  PROVE  HoldInv'
<1>1. ASSUME NEW p \in Path PROVE Opener(p)' /\ Beginning(p)'
  <2>1. Opener(p) /\ Beginning(p)
    BY DEF HoldInv
  <2> QED
    BY <2>1 DEF Opener, Beginning
<1> QED
  BY <1>1 DEF HoldInv

LEMMA OpenHolds == ASSUME HoldInv, BegunInv', NEW t \in Thread, OpenToSave(t) PROVE HoldInv'
<1> DEFINE c == call[t]
           p == c.path
<1>1. /\ pc[t] = "open" /\ c.op = "save" /\ saved' = [saved EXCEPT ![p] = NoCall] /\ call' = call
      /\ files' = [files EXCEPT ![p] = << >>]
      /\ opened' = [opened EXCEPT ![p] = IF Writers(p) = {} THEN c ELSE NoCall]
      /\ alone' = [u \in Thread |-> IF u = t THEN Writers(p) = {}
                                    ELSE alone[u] /\ ~(pc[u] \in {"write", "read"} /\ call[u].path = p)]
      /\ \/ pc' = [pc EXCEPT ![t] = "idle"] \/ pc' = [pc EXCEPT ![t] = "write"]
  BY DEF OpenToSave, Truncated
<1>2. c \in Menu /\ p \in Path
  BY <1>1, MenuFacts DEF HoldInv, BegunInv, SaveInv, Saving
<1>3. pc \in [Thread -> {"idle", "open", "write", "read"}] /\ files = [q \in Path |-> files[q]]
      /\ saved = [q \in Path |-> saved[q]] /\ opened = [q \in Path |-> opened[q]]
  BY DEF HoldInv, BegunInv, SaveInv, SaveTyped
<1>4. ASSUME NEW q \in Path, q # p PROVE Opener(q)' /\ Beginning(q)'
  <2>1. opened'[q] = opened[q] /\ saved'[q] = saved[q] /\ files'[q] = files[q]
    BY <1>1, <1>2, <1>3, <1>4
  <2>2. ASSUME NEW u \in Thread, Writes(u, q)'
        PROVE  Writes(u, q) /\ alone'[u] = alone[u] /\ call'[u] = call[u]
    <3>1. u # t
      BY <1>1, <1>4, <2>2 DEF Writes
    <3>2. Writes(u, q)
      BY <1>1, <1>3, <2>2, <3>1 DEF Writes
    <3>3. alone'[u] = alone[u]
      BY <1>1, <1>4, <3>1, <3>2 DEF Writes, HoldInv, BegunInv, SaveInv, SaveTyped
    <3> QED
      BY <1>1, <3>2, <3>3
  <2>3. Opener(q) /\ Beginning(q)
    BY DEF HoldInv
  <2> HIDE DEF c, p
  <2> QED
    BY <2>1, <2>2, <2>3 DEF Opener, Beginning
<1>5. Opener(p)' /\ Beginning(p)'
  <2>1. /\ files'[p] = << >> /\ saved'[p] = NoCall
        /\ opened'[p] = IF Writers(p) = {} THEN c ELSE NoCall
    BY <1>1, <1>2, <1>3
  <2>2. ASSUME NEW u \in Thread, pc'[u] = "write", call'[u].path = p
        PROVE  /\ opened'[p] # NoCall => alone'[u]
               /\ alone'[u] => opened'[p] = call'[u]
    <3>1. CASE u = t
      BY <1>1, <2>1, <3>1
    <3>2. CASE u # t
      <4>1. u \in Writers(p)
        BY <1>1, <1>3, <2>2, <3>2 DEF Writers
      <4>2. ~alone'[u]
        BY <1>1, <3>2, <4>1 DEF Writers
      <4> QED
        BY <2>1, <4>1, <4>2
    <3> QED
      BY <3>1, <3>2
  <2>3. Rejected(c) = 0 => Begins(<< >>, TextOf(c))
    BY <1>1, <1>2, SaveText DEF IsSave
  <2>4. opened'[p] # NoCall => /\ opened'[p] \in Menu /\ opened'[p].op = "save"
                              /\ IF Rejected(opened'[p]) # 0 THEN TRUE
                                 ELSE Begins(<< >>, TextOf(opened'[p]))
    BY <1>1, <1>2, <2>1, <2>3
  <2>5. PICK q : q = p
    OBVIOUS
  <2> HIDE DEF c, p
  <2>6. Opener(q)' /\ Beginning(q)'
    BY <2>1, <2>2, <2>4, <2>5 DEF Opener, Beginning, Writes
  <2>7. p' = p
    BY <1>1 DEF c, p
  <2> QED
    BY <2>5, <2>6, <2>7
<1>6. opened' = [q \in Path |-> opened'[q]]
  BY <1>1, <1>3
<1> HIDE DEF c, p
<1>7. p' = p
  BY <1>1 DEF c, p
<1> QED
  BY <1>4, <1>5, <1>6, <1>7 DEF HoldInv

LEMMA FlushHolds == ASSUME HoldInv, BegunInv', NEW t \in Thread, Flush(t) PROVE HoldInv'
<1> DEFINE p == call[t].path
<1>1. PICK x : files' = [files EXCEPT ![p] = x]
  BY DEF Flush
<1>2. pc[t] = "write" /\ UNCHANGED << pc, call, alone, saved, opened >>
  BY DEF Flush
<1>3. p \in Path /\ Rejected(call[t]) = 0
  BY <1>2, MenuFacts DEF HoldInv, BegunInv, SaveInv, Saving
<1>4. ASSUME NEW q \in Path PROVE Opener(q)' /\ Beginning(q)'
  <2>1. Opener(q) /\ Beginning(q)
    BY DEF HoldInv
  <2>2. Opener(q)'
    BY <1>2, <2>1 DEF Opener, Writes
  <2>3. CASE q # p
    <3>1. files'[q] = files[q]
      BY <1>1, <2>3 DEF HoldInv, BegunInv, SaveInv, SaveTyped
    <3> QED
      BY <1>2, <2>1, <2>2, <3>1 DEF Beginning
  <2>4. CASE q = p
    <3> SUFFICES ASSUME opened[p] # NoCall PROVE Beginning(q)'
      BY <1>2, <2>2, <2>4 DEF Beginning
    <3>1. alone[t] /\ opened[p] = call[t]
      BY <1>2, <2>1, <2>4 DEF Opener, Writes
    <3>2. Begins(files[call[t].path], TextOf(call[t]))'
      BY <1>2, <3>1 DEF BegunInv, Begun
    <3>3. files[call[t].path]' = files'[q] /\ TextOf(call[t])' = TextOf(opened'[q]) /\ Rejected(opened'[q]) = 0
      BY <1>2, <1>3, <2>4, <3>1
    <3> QED
      BY <3>2, <3>3 DEF Beginning, Begins
  <2> QED
    BY <2>3, <2>4
<1> QED
  BY <1>2, <1>4 DEF HoldInv

LEMMA CloseHolds == ASSUME HoldInv, BegunInv', NEW t \in Thread, Close(t) PROVE HoldInv'
<1> DEFINE c == call[t]
           p == c.path
<1>1. /\ pc[t] = "write" /\ pc' = [pc EXCEPT ![t] = "idle"] /\ UNCHANGED << files, call, alone, opened >>
      /\ saved' = [saved EXCEPT ![p] = IF alone[t] /\ ~failed[t] THEN c ELSE NoCall]
  BY DEF Close, Done
<1>2. c \in Menu /\ p \in Path /\ IsSave(c)
  BY <1>1, MenuFacts DEF HoldInv, BegunInv, SaveInv, Saving, IsSave
<1>3. \A u \in Thread : \A q : Writes(u, q)' => Writes(u, q)
  BY <1>1 DEF Writes, HoldInv, BegunInv, SaveInv, SaveTyped
<1>4. ASSUME NEW q \in Path PROVE Opener(q)' /\ Beginning(q)'
  <2>1. Opener(q) /\ Beginning(q)
    BY DEF HoldInv
  <2>2. saved'[q] = saved[q] \/ saved'[q] = NoCall \/ (q = p /\ alone[t] /\ saved'[q] = c)
    BY <1>1, <1>2 DEF HoldInv, BegunInv, SaveInv, SaveTyped
  <2>3. q = p /\ alone[t] => opened[q] = c
    BY <1>1, <2>1 DEF Opener, Writes
  <2>4. saved'[q] # NoCall => opened[q] = saved'[q] /\ IsSave(saved'[q])
    BY <1>2, <2>1, <2>2, <2>3 DEF Opener
  <2> HIDE DEF c, p
  <2> QED
    BY <1>1, <1>3, <2>1, <2>4 DEF Opener, Beginning
<1> QED
  BY <1>1, <1>4 DEF HoldInv

LEMMA HoldStep == HoldInv /\ [Next]_vars => HoldInv'
<1> SUFFICES ASSUME HoldInv, [Next]_vars PROVE HoldInv'
  OBVIOUS
<1>1. BegunInv'
  BY BegunStep DEF HoldInv
<1>2. CASE UNCHANGED fvars
  BY <1>1, <1>2, FilesKept DEF fvars, Writes
<1>3. CASE Crash
  BY <1>1, <1>3, FilesKept DEF Crash, FilesCrash, Writes
<1>4. CASE FilesNext
  <2>1. PICK t \in Thread : FilesStep(t) \/ DiskFull(t) \/ ReadError(t) \/ \E c \in Menu : Call(t, c)
    BY <1>4 DEF FilesNext
  <2>2. CASE OpenToSave(t) \/ Flush(t) \/ Close(t)
    BY <1>1, <2>2, OpenHolds, FlushHolds, CloseHolds
  <2>3. CASE DiskFull(t)
    BY <1>1, <2>3, FilesKept DEF DiskFull, Writes
  <2>4. CASE \/ CantOpenToSave(t) \/ CantOpenToLoad(t) \/ OpenToLoad(t) \/ Read(t) \/ EndOfFile(t)
             \/ ReadError(t) \/ \E c \in Menu : Call(t, c)
    <3>1. Quiet(t)
      BY <2>4, QuietSteps DEF HoldInv, BegunInv
    <3>2. opened' = opened
      BY <2>4 DEF CantOpenToSave, CantOpenToLoad, OpenToLoad, Read, EndOfFile, ReadError, Return, Call
    <3> QED
      BY <1>1, <3>1, <3>2, FilesKept DEF Quiet, Writes
  <2> QED
    BY <2>1, <2>2, <2>3, <2>4 DEF FilesStep
<1> QED
  BY <1>2, <1>3, <1>4 DEF Next, vars, OthersOpen

(* However saves overlap, writes fail and processes end: a file holds a     *)
(* beginning of what the last save that opened it had to write, nothing if  *)
(* that refused its value, unless another save was in it at the time.       *)
THEOREM FilesHoldBeginnings == Spec => []HoldsBeginning
<1>1. HoldInv => HoldsBeginning
  BY DEF HoldInv, Beginning, HoldsBeginning
<1> QED
  BY HoldInit, HoldStep, <1>1, PTL DEF Spec

-----------------------------------------------------------------------------
(* What a load has of the text of the save it reads: what it has come to,   *)
(* and when it has returned all of that but a line without an end, if a     *)
(* read failed.                                                             *)
Returned(c, s, l, whole, broken) ==
  /\ \E n \in 0 .. Len(s) : /\ l.text = SubSeq(s, 1, n)
                            /\ broken /\ c.ext = "csv" => n = 0 \/ s[n] = NewLine
  /\ l = [kind |-> Kind(c, l.text, broken), text |-> l.text]
  /\ whole /\ ~broken => l.text = s
Loading(t) ==
  source[t] # NoCall =>
    /\ IsSave(source[t]) /\ call[t] \in Menu /\ pc[t] \in {"idle", "read"}
    /\ pc[t] = "read" =>
         /\ opened[call[t].path] = source[t] /\ (alone[t] => saved[call[t].path] = source[t])
         /\ offset[t] <= Len(files[call[t].path])
         /\ loaded[t].text = SubSeq(TextOf(source[t]), 1, offset[t])
    /\ pc[t] = "idle" /\ call[t].lib # "file" =>
         Returned(call[t], TextOf(source[t]), loaded[t], alone[t], failed[t])
LoadInv ==
  /\ ReadInv /\ HoldInv /\ source = [t \in Thread |-> source[t]]
  /\ \A t \in Thread : Loading(t)

LEMMA LoadInit == Init => LoadInv
BY ReadInit, HoldInit DEF Init, FilesInit, LoadInv, Loading

(* A step that leaves u and what it has read alone.                         *)
LoadKept(u) ==
  source'[u] # NoCall =>
    /\ source'[u] = source[u] /\ pc'[u] = pc[u] /\ call'[u] = call[u] /\ loaded'[u] = loaded[u]
    /\ alone'[u] = alone[u] /\ offset'[u] = offset[u] /\ failed'[u] = failed[u]
    /\ pc[u] = "read" =>
         /\ opened'[call[u].path] = opened[call[u].path]
         /\ alone[u] => saved'[call[u].path] = saved[call[u].path]
         /\ Len(files[call[u].path]) <= Len(files'[call[u].path])
LEMMA KeptLoads == ASSUME LoadInv, ReadInv', NEW u \in Thread, LoadKept(u) PROVE Loading(u)'
<1> SUFFICES ASSUME source'[u] # NoCall PROVE Loading(u)'
  BY DEF Loading
<1>1. /\ source'[u] = source[u] /\ pc'[u] = pc[u] /\ call'[u] = call[u] /\ loaded'[u] = loaded[u]
      /\ alone'[u] = alone[u] /\ offset'[u] = offset[u] /\ failed'[u] = failed[u]
  BY DEF LoadKept
<1>2. Loading(u) /\ source[u] # NoCall
  BY <1>1 DEF LoadInv
<1>3. ASSUME pc[u] = "read"
      PROVE  /\ opened'[call[u].path] = source[u] /\ (alone[u] => saved'[call[u].path] = source[u])
             /\ offset[u] <= Len(files'[call[u].path])
  <2>1. call[u].path \in Path
    BY <1>2, MenuFacts DEF Loading
  <2>2. Len(files[call[u].path]) \in Nat /\ Len(files'[call[u].path]) \in Nat /\ offset[u] \in Nat
    BY <2>1, LenProperties DEF LoadInv, ReadInv, Texts
  <2> QED
    BY <1>2, <1>3, <2>2 DEF Loading, LoadKept
<1> QED
  BY <1>1, <1>2, <1>3 DEF Loading

(* What is written over a file is no shorter.                               *)
LEMMA OverlayLonger ==
  ASSUME NEW file \in Seq(Sym), NEW k \in Nat, NEW s \in Seq(Sym)
  PROVE  Len(file) <= Len(Overlay(file, k, s))
<1> DEFINE m == Max({Len(file), k + Len(s)})
<1>1. m \in Nat /\ Len(file) <= m
  BY LenProperties DEF Max
<1> HIDE DEF m
<1>2. DOMAIN Overlay(file, k, s) = 1 .. m
  BY DEF Overlay, m
<1>3. PICK l \in Nat : l = Len(Overlay(file, k, s)) /\ 1 .. l = 1 .. m
  BY <1>2, OverlayText, LenProperties
<1>4. m \in 1 .. m => m <= l
  BY <1>1, <1>3
<1>5. m <= l
  BY <1>1, <1>4
<1> QED
  BY <1>1, <1>3, <1>5, LenProperties

LEMMA SavesKeepLoads ==
  ASSUME LoadInv, NEW t \in Thread,
         \/ CantOpenToSave(t) \/ OpenToSave(t) \/ Flush(t) \/ Close(t) \/ DiskFull(t)
         \/ CantOpenToLoad(t) \/ \E c \in Menu : Call(t, c),
         NEW u \in Thread
  PROVE  LoadKept(u)
<1> SUFFICES ASSUME source'[u] # NoCall PROVE LoadKept(u)
  BY DEF LoadKept
<1> USE DEF LoadInv, ReadInv, Texts
<1>1. source[u] # NoCall => pc[u] \in {"idle", "read"} /\ call[u].path \in Path
  BY MenuFacts DEF Loading
<1>2. source[u] # NoCall => Len(files[call[u].path]) \in Nat
  BY <1>1, LenProperties
<1>3. CASE CantOpenToSave(t)
  BY <1>1, <1>2, <1>3 DEF CantOpenToSave, LoadKept
<1>4. CASE OpenToSave(t)
  <2>1. /\ pc[t] = "open" /\ UNCHANGED << call, loaded >>
        /\ files' = [files EXCEPT ![call[t].path] = << >>]
        /\ saved' = [saved EXCEPT ![call[t].path] = NoCall]
        /\ \E x : opened' = [opened EXCEPT ![call[t].path] = x]
        /\ alone' = [v \in Thread |-> IF v = t THEN Writers(call[t].path) = {}
                      ELSE alone[v] /\ ~(pc[v] \in {"write", "read"} /\ call[v].path = call[t].path)]
        /\ source' = [v \in Thread |-> IF pc[v] = "read" /\ call[v].path = call[t].path THEN NoCall ELSE source[v]]
        /\ \/ pc' = [pc EXCEPT ![t] = "idle"] /\ UNCHANGED << pending, offset, failed >>
           \/ /\ pc' = [pc EXCEPT ![t] = "write"]
              /\ failed' = [failed EXCEPT ![t] = FALSE] /\ offset' = [offset EXCEPT ![t] = 0]
    BY <1>4 DEF OpenToSave, Truncated
  <2>2. source'[u] = source[u] /\ ~(pc[u] = "read" /\ call[u].path = call[t].path)
    BY <2>1
  <2>3. u # t /\ pc'[u] = pc[u] /\ offset'[u] = offset[u] /\ failed'[u] = failed[u] /\ alone'[u] = alone[u]
    BY <1>1, <2>1, <2>2
  <2>4. pc[u] = "read" =>
          /\ files'[call[u].path] = files[call[u].path]
          /\ opened'[call[u].path] = opened[call[u].path] /\ saved'[call[u].path] = saved[call[u].path]
    BY <1>1, <2>1, <2>2 DEF HoldInv, BegunInv, SaveInv, SaveTyped
  <2> QED
    BY <1>2, <2>1, <2>2, <2>3, <2>4 DEF LoadKept
<1>5. CASE Flush(t)
  <2> DEFINE p == call[t].path
  <2>1. PICK n \in DOMAIN pending[t] :
          /\ files' = [files EXCEPT ![p] = Overlay(@, offset[t], SubSeq(pending[t], 1, n))]
          /\ offset' = [offset EXCEPT ![t] = @ + n]
    BY <1>5 DEF Flush
  <2>2. pc[t] = "write" /\ UNCHANGED << pc, call, failed, loaded, alone, opened, saved, source >>
    BY <1>5 DEF Flush
  <2>3. u # t /\ offset'[u] = offset[u]
    BY <1>1, <2>1, <2>2
  <2>4. SubSeq(pending[t], 1, n) \in Seq(Sym)
    <3>1. PICK s \in Seq(Sym) : s = pending[t]
      OBVIOUS
    <3>2. Len(s) \in Nat /\ n \in 1 .. Len(s) /\ 0 + 1 = 1 /\ 0 + n = n
      BY <2>1, <3>1, LenProperties
    <3>3. SubSeq(s, 0 + 1, 0 + n) \in Seq(Sym)
      BY <3>2, PieceIsText
    <3> QED
      BY <3>1, <3>2, <3>3
  <2>5. ASSUME pc[u] = "read" PROVE Len(files[call[u].path]) <= Len(files'[call[u].path])
    <3>1. CASE call[u].path = p
      <4>1. Len(files[p]) <= Len(Overlay(files[p], offset[t], SubSeq(pending[t], 1, n)))
        BY <1>1, <2>2, <2>4, <3>1, OverlayLonger
      <4> QED
        BY <1>1, <2>1, <2>2, <3>1, <4>1
    <3>2. CASE call[u].path # p
      BY <1>1, <1>2, <2>1, <2>2, <3>2
    <3> QED
      BY <3>1, <3>2
  <2> QED
    BY <2>2, <2>3, <2>5 DEF LoadKept
<1>6. CASE Close(t)
  <2>1. /\ pc[t] = "write" /\ pc' = [pc EXCEPT ![t] = "idle"]
        /\ UNCHANGED << files, call, offset, failed, loaded, alone, opened, source >>
        /\ \E x : saved' = [saved EXCEPT ![call[t].path] = x]
    BY <1>6 DEF Close, Done
  <2>2. u # t /\ pc'[u] = pc[u]
    BY <1>1, <2>1
  <2>3. ASSUME pc[u] = "read", alone[u] PROVE saved'[call[u].path] = saved[call[u].path]
    <3>1. call[t].path # call[u].path
      BY <2>1, <2>3 DEF Reading, Writes
    <3> QED
      BY <1>1, <2>1, <3>1 DEF HoldInv, BegunInv, SaveInv, SaveTyped
  <2> QED
    BY <1>2, <2>1, <2>2, <2>3 DEF LoadKept
<1>7. CASE DiskFull(t)
  <2>1. /\ pc[t] = "write" /\ failed' = [failed EXCEPT ![t] = TRUE]
        /\ UNCHANGED << files, pc, call, offset, loaded, alone, opened, saved, source >>
    BY <1>7 DEF DiskFull
  <2>2. u # t /\ failed'[u] = failed[u]
    BY <1>1, <2>1
  <2> QED
    BY <1>2, <2>1, <2>2 DEF LoadKept
<1>8. CASE CantOpenToLoad(t)
  <2>1. /\ pc[t] = "open" /\ pc' = [pc EXCEPT ![t] = "idle"]
        /\ UNCHANGED << files, call, offset, failed, alone, opened, saved, source >>
        /\ loaded' = loaded \/ loaded' = [loaded EXCEPT ![t].kind = "null"]
    BY <1>8 DEF CantOpenToLoad
  <2>2. u # t /\ pc'[u] = pc[u] /\ loaded'[u] = loaded[u]
    BY <1>1, <2>1
  <2> QED
    BY <1>2, <2>1, <2>2 DEF LoadKept
<1>9. ASSUME NEW c \in Menu, Call(t, c) PROVE LoadKept(u)
  <2>1. /\ source' = [source EXCEPT ![t] = NoCall] /\ call' = [call EXCEPT ![t] = c]
        /\ \E x : pc' = [pc EXCEPT ![t] = x]
        /\ \E x : loaded' = [loaded EXCEPT ![t] = x]
        /\ alone' = [alone EXCEPT ![t] = TRUE]
        /\ UNCHANGED << files, offset, failed, opened, saved >>
    BY <1>9 DEF Call
  <2>2. u # t
    BY <2>1
  <2>3. /\ source'[u] = source[u] /\ pc'[u] = pc[u] /\ call'[u] = call[u] /\ loaded'[u] = loaded[u]
        /\ alone'[u] = alone[u]
    BY <2>1, <2>2
  <2>4. UNCHANGED << files, offset, failed, opened, saved >>
    BY <2>1
  <2>5. Len(files[call[u].path]) <= Len(files'[call[u].path])
    BY <1>2, <2>3, <2>4
  <2> QED
    BY <2>3, <2>4, <2>5, Zenon DEF LoadKept
<1> QED
  BY <1>3, <1>4, <1>5, <1>6, <1>7, <1>8, <1>9

(* The save whose text is in a file that is opened to be read.              *)
LEMMA OpenLoads ==
  ASSUME LoadInv, ReadInv', NEW t \in Thread, OpenToLoad(t), NEW u \in Thread PROVE Loading(u)'
<1> DEFINE p == call[t].path
<1>1. /\ pc[t] = "open" /\ pc' = [pc EXCEPT ![t] = "read"] /\ offset' = [offset EXCEPT ![t] = 0]
      /\ failed' = [failed EXCEPT ![t] = FALSE] /\ alone' = [alone EXCEPT ![t] = Writers(p) = {}]
      /\ source' = [source EXCEPT ![t] = IF Writers(p) = {} THEN saved[p] ELSE opened[p]]
      /\ UNCHANGED << files, call, loaded, opened, saved >>
  BY DEF OpenToLoad
<1>2. call[t] \in Menu /\ p \in Path /\ loaded[t] = Nothing /\ Len(files[p]) \in Nat
  BY <1>1, MenuFacts, LenProperties DEF LoadInv, ReadInv, Reading, Texts
<1>3. CASE u # t
  <2>1. /\ source'[u] = source[u] /\ pc'[u] = pc[u] /\ alone'[u] = alone[u] /\ offset'[u] = offset[u]
        /\ failed'[u] = failed[u]
    BY <1>1, <1>3 DEF LoadInv, ReadInv, Texts
  <2>2. source[u] # NoCall => Len(files[call[u].path]) \in Nat
    BY MenuFacts, LenProperties DEF LoadInv, Loading, ReadInv, Texts
  <2>3. Len(files[call[u].path]) <= Len(files'[call[u].path]) \/ source[u] = NoCall
    BY <1>1, <2>2
  <2>4. LoadKept(u)
    BY <1>1, <2>1, <2>3 DEF LoadKept
  <2> QED
    BY <2>4, KeptLoads
<1>4. CASE u = t
  <2> DEFINE d == source'[t]
  <2>1. d = (IF Writers(p) = {} THEN saved[p] ELSE opened[p]) /\ (alone'[t] <=> Writers(p) = {})
    BY <1>1 DEF LoadInv, ReadInv, Texts
  <2> SUFFICES ASSUME d # NoCall PROVE Loading(t)'
    BY <1>4 DEF Loading
  <2>2. IsSave(d) /\ opened[p] = d /\ (alone'[t] => saved[p] = d)
    <3>1. Opener(p)
      BY <1>2 DEF LoadInv, HoldInv
    <3>2. CASE Writers(p) = {}
      BY <2>1, <3>1, <3>2 DEF Opener
    <3>3. CASE Writers(p) # {}
      <4>1. PICK w \in Thread : Writes(w, p)
        BY <3>3 DEF Writers, Writes
      <4>2. opened[p] = call[w] /\ IsSave(call[w])
        BY <2>1, <3>1, <3>3, <4>1
           DEF Opener, IsSave, Writes, LoadInv, HoldInv, BegunInv, SaveInv, Saving
      <4> QED
        BY <2>1, <3>3, <4>2
    <3> QED
      BY <3>2, <3>3
  <2>3. SubSeq(TextOf(d), 1, 0) = << >>
    <3>1. PICK s \in Seq(STRING) : s = TextOf(d)
      BY <2>2, SaveText
    <3> QED
      BY <3>1, WholeText
  <2>4. /\ pc'[t] = "read" /\ offset'[t] = 0 /\ call'[t] = call[t] /\ loaded'[t].text = << >>
        /\ opened'[p] = d /\ (alone'[t] => saved'[p] = d) /\ files' = files
    BY <1>1, <1>2, <2>2 DEF LoadInv, ReadInv, Texts, Nothing
  <2>5. offset'[t] <= Len(files'[p])
    BY <1>2, <2>4
  <2> HIDE DEF d
  <2>6. source'[t] = d /\ SubSeq(TextOf(source'[t]), 1, offset'[t]) = << >>
    BY <2>3, <2>4 DEF d
  <2> QED
    BY <1>2, <2>2, <2>4, <2>5, <2>6 DEF Loading
<1> QED
  BY <1>3, <1>4

(* What of the save that a load reads is in the file.                       *)
LEMMA SourceBegins ==
  ASSUME LoadInv, NEW t \in Thread, pc[t] = "read", source[t] # NoCall,
         NEW s, s = TextOf(source[t])
  PROVE  LET f == files[call[t].path] IN
         /\ s \in Seq(STRING) /\ f \in Seq(Sym)
         /\ \E m \in 0 .. Len(s) : f = SubSeq(s, 1, m) /\ Len(f) = m
         /\ alone[t] => f = s
<1> DEFINE p == call[t].path
           f == files[p]
<1>1. /\ IsSave(source[t]) /\ p \in Path /\ opened[p] = source[t]
      /\ alone[t] => saved[p] = source[t]
  BY MenuFacts DEF LoadInv, Loading
<1>2. s \in Seq(STRING) /\ f \in Seq(Sym)
  BY <1>1, SaveText DEF LoadInv, ReadInv, Texts
<1>3. Begins(f, s)
  BY <1>1 DEF IsSave, LoadInv, HoldInv, Beginning
<1>4. alone[t] => f = s
  BY <1>1 DEF LoadInv, HoldInv, BegunInv, SaveInv, SavedWhole
<1> HIDE DEF p, f
<1>5. PICK m \in 0 .. Len(s) : f = SubSeq(s, 1, m)
  BY <1>3 DEF Begins
<1>6. Len(f) = m
  <2>1. Len(s) \in Nat /\ m \in Nat
    BY <1>2, LenProperties
  <2>2. \A i \in 1 .. m : s[i] \in STRING
    BY <1>2, <2>1, ElementOfSeq
  <2> QED
    BY <1>5, <2>1, <2>2, SubSeqProperties
<1> QED
  BY <1>2, <1>4, <1>5, <1>6 DEF p, f

LEMMA ReadLoads ==
  ASSUME LoadInv, ReadInv', NEW t \in Thread, Read(t), NEW u \in Thread PROVE Loading(u)'
<1> DEFINE p == call[t].path
           f == files[p]
           k == offset[t]
           text == loaded[t].text
<1>1. PICK n \in 1 .. Rest(t) :
        /\ loaded' = [loaded EXCEPT ![t].text = @ \o SubSeq(f, k + 1, k + n)]
        /\ offset' = [offset EXCEPT ![t] = @ + n]
  BY DEF Read
<1>2. /\ pc[t] = "read"
      /\ UNCHANGED << files, pc, call, failed, alone, opened, saved, source >>
  BY DEF Read, Reads
<1>3. CASE u # t
  <2>1. loaded'[u] = loaded[u] /\ offset'[u] = offset[u]
    BY <1>1, <1>3 DEF LoadInv, ReadInv, Texts
  <2>2. source[u] # NoCall => Len(files[call[u].path]) \in Nat
    BY MenuFacts, LenProperties DEF LoadInv, Loading, ReadInv, Texts
  <2>3. Len(files[call[u].path]) <= Len(files'[call[u].path]) \/ source[u] = NoCall
    BY <1>2, <2>2
  <2>4. LoadKept(u)
    BY <1>2, <2>1, <2>3 DEF LoadKept
  <2> QED
    BY <2>4, KeptLoads
<1>4. CASE u = t
  <2> SUFFICES ASSUME source[t] # NoCall PROVE Loading(t)'
    BY <1>2, <1>4 DEF Loading
  <2>1. PICK s : s = TextOf(source[t])
    OBVIOUS
  <2>2. s \in Seq(STRING) /\ f \in Seq(Sym)
    BY <1>2, <2>1, SourceBegins
  <2>3. PICK m \in 0 .. Len(s) : f = SubSeq(s, 1, m) /\ Len(f) = m
    BY <1>2, <2>1, SourceBegins
  <2>4. Len(s) \in Nat /\ m \in Nat /\ k \in Nat
    BY <2>2, <2>3, LenProperties DEF LoadInv, ReadInv, Texts
  <2>5. n \in Nat \ {0} /\ k + n <= m
    BY <2>3, <2>4, RestFacts DEF Rest
  <2>6. text = SubSeq(s, 1, k)
    BY <1>2, <2>1 DEF LoadInv, Loading
  <2>7. loaded'[t].text = text \o SubSeq(f, k + 1, k + n) /\ offset'[t] = k + n
    <3>1. PICK y : y = text \o SubSeq(f, k + 1, k + n)
      OBVIOUS
    <3>2. loaded' = [loaded EXCEPT ![t] = [loaded[t] EXCEPT !.text = y]]
      BY <1>1, <3>1
    <3>3. loaded[t] = [kind |-> "none", text |-> loaded[t].text]
      BY <1>2 DEF LoadInv, ReadInv, Reading
    <3> HIDE DEF text
    <3>4. [loaded[t] EXCEPT !.text = y].text = y
      BY <3>3
    <3>5. loaded'[t].text = y
      BY <3>2, <3>4 DEF LoadInv, ReadInv, Texts
    <3>6. offset'[t] = k + n
      BY <1>1 DEF LoadInv, ReadInv, Texts
    <3> QED
      BY <3>1, <3>5, <3>6
  <2> HIDE DEF f, k, text
  <2>8. SubSeq(f, k + 1, k + n) = SubSeq(s, k + 1, k + n)
    <3> DEFINE a == SubSeq(f, k + 1, k + n)
               b == SubSeq(s, k + 1, k + n)
    <3>1. \A i \in 1 .. m : s[i] \in STRING
      BY <2>2, <2>4, <2>3, ElementOfSeq
    <3>2. \A i \in 1 .. m : f[i] = s[i]
      BY <2>3, <2>4, <3>1, SubSeqProperties
    <3>3. \A i \in k + 1 .. k + n : s[i] \in STRING /\ f[i] \in STRING /\ f[i] = s[i]
      BY <2>4, <2>5, <3>1, <3>2
    <3>4. k + 1 \in Int /\ k + n \in Int /\ k + 1 <= k + n /\ (k + n) - (k + 1) + 1 = n
      BY <2>4, <2>5
    <3>5. /\ a \in Seq(STRING) /\ Len(a) = n
          /\ \A i \in 1 .. n : a[i] = f[(k + 1) + i - 1]
      BY <3>3, <3>4, SubSeqProperties
    <3>6. /\ b \in Seq(STRING) /\ Len(b) = n
          /\ \A i \in 1 .. n : b[i] = s[(k + 1) + i - 1]
      BY <3>3, <3>4, SubSeqProperties
    <3>7. ASSUME NEW i \in 1 .. n PROVE a[i] = b[i]
      <4>1. (k + 1) + i - 1 \in k + 1 .. k + n
        BY <2>4, <2>5
      <4> QED
        BY <3>3, <3>5, <3>6, <4>1
    <3> HIDE DEF a, b
    <3>8. a = b
      BY <3>5, <3>6, <3>7, SeqEqual
    <3> QED
      BY <3>8 DEF a, b
  <2>9. SubSeq(s, 1, k) \o SubSeq(s, k + 1, k + n) = SubSeq(s, 1, k + n)
    <3>1. 1 \in 1 .. Len(s) + 1 /\ k \in 1 - 1 .. Len(s) /\ k + n \in k .. Len(s)
      BY <2>3, <2>4, <2>5
    <3> QED
      BY <2>2, <3>1, ConcatAdjacentSubSeq
  <2>10. loaded'[t].text = SubSeq(s, 1, offset'[t])
    BY <2>6, <2>7, <2>8, <2>9
  <2>11. offset'[t] <= Len(f) /\ TextOf(source'[t]) = s /\ files'[call'[t].path] = f
    BY <1>2, <2>1, <2>3, <2>4, <2>5, <2>7 DEF f
  <2> QED
    BY <1>2, <2>1, <2>10, <2>11 DEF LoadInv, Loading
<1> QED
  BY <1>3, <1>4

LEMMA ReturnLoads ==
  ASSUME LoadInv, ReadInv', NEW t \in Thread, Reads(t), NEW broken \in BOOLEAN, Return(t, broken),
         broken \/ AtEnd(t), NEW u \in Thread
  PROVE  Loading(u)'
<1> DEFINE c == call[t]
           f == files[c.path]
           k == offset[t]
           text == loaded[t].text
           left == IF broken THEN Kept(c, text) ELSE text
<1>1. /\ pc' = [pc EXCEPT ![t] = "idle"] /\ failed' = [failed EXCEPT ![t] = broken]
      /\ UNCHANGED << files, call, offset, alone, opened, saved, source >>
  BY DEF Return
<1>2. /\ c.lib # "file" => loaded' = [loaded EXCEPT ![t] = [kind |-> Kind(c, left, broken), text |-> left]]
      /\ c.lib = "file" => loaded' = [loaded EXCEPT ![t] = Nothing]
  BY DEF Return
<1>3. /\ pc[t] = "read" /\ c \in Menu /\ c.path \in Path /\ (c.lib = "file" => c.chunk > 0)
      /\ text \in Seq(Sym) /\ f \in Seq(Sym) /\ k \in Nat /\ Len(f) \in Nat
  BY MenuFacts, LenProperties DEF Reads, LoadInv, ReadInv, Reading, Texts
<1>4. CASE u # t
  <2>1. loaded'[u] = loaded[u] /\ pc'[u] = pc[u] /\ failed'[u] = failed[u]
    BY <1>1, <1>2, <1>4 DEF LoadInv, ReadInv, Texts
  <2>2. source[u] # NoCall => Len(files[call[u].path]) \in Nat
    BY MenuFacts, LenProperties DEF LoadInv, Loading, ReadInv, Texts
  <2>3. Len(files[call[u].path]) <= Len(files'[call[u].path]) \/ source[u] = NoCall
    BY <1>1, <2>2
  <2>4. LoadKept(u)
    BY <1>1, <2>1, <2>3 DEF LoadKept
  <2> QED
    BY <2>4, KeptLoads
<1>5. CASE u = t
  <2>1. pc'[t] = "idle" /\ call'[t] = c /\ failed'[t] = broken /\ source'[t] = source[t] /\ alone'[t] = alone[t]
    BY <1>1 DEF LoadInv, ReadInv, Texts
  <2> SUFFICES ASSUME source[t] # NoCall, c.lib # "file"
               PROVE Returned(c, TextOf(source[t]), loaded'[t], alone[t], broken)
    BY <1>3, <1>5, <2>1 DEF LoadInv, Loading
  <2>2. loaded'[t] = [kind |-> Kind(c, left, broken), text |-> left]
    BY <1>2 DEF LoadInv, ReadInv, Texts
  <2>3. PICK s : s = TextOf(source[t])
    OBVIOUS
  <2>4. /\ s \in Seq(STRING) /\ (alone[t] => f = s)
        /\ \E m \in 0 .. Len(s) : f = SubSeq(s, 1, m) /\ Len(f) = m
    BY <1>3, <2>3, SourceBegins
  <2>5. text = SubSeq(s, 1, k) /\ k <= Len(f)
    BY <1>3, <2>3 DEF LoadInv, Loading
  <2>6. AtEnd(t) => Len(f) <= k
    BY <1>3, RestFacts DEF AtEnd, Rest
  <2> HIDE DEF c, f, k, text
  <2>7. k \in 0 .. Len(s) /\ Len(s) \in Nat
    BY <1>3, <2>4, <2>5, LenProperties
  <2>8. Len(text) = k /\ \A i \in 1 .. k : text[i] = s[i]
    <3>1. \A i \in 1 .. k : s[i] \in STRING
      BY <2>4, <2>7, ElementOfSeq
    <3> QED
      BY <2>5, <2>7, <3>1, SubSeqProperties
  <2>9. PICK n \in 0 .. k : /\ left = SubSeq(text, 1, n) /\ (~broken => n = k)
                            /\ broken /\ c.ext = "csv" => n = 0 \/ text[n] = NewLine
    <3>1. CASE broken
      <4>1. PICK n \in 0 .. Len(text) : /\ Kept(c, text) = SubSeq(text, 1, n)
                                        /\ c.lib # "file" /\ c.ext = "csv" => n = 0 \/ text[n] = NewLine
        BY <1>3, KeptBegins
      <4> QED
        BY <2>8, <3>1, <4>1
    <3>2. CASE ~broken
      <4>1. SubSeq(text, 1, Len(text)) = text
        BY <1>3, WholeText
      <4>2. left = SubSeq(text, 1, k) /\ k \in 0 .. k
        BY <2>7, <2>8, <3>2, <4>1
      <4> QED
        BY <3>2, <4>2
    <3> QED
      BY <3>1, <3>2
  <2> HIDE DEF left
  <2>10. SubSeq(text, 1, n) = SubSeq(s, 1, n) /\ n \in 0 .. Len(s) /\ (n = 0 \/ text[n] = s[n])
    <3>1. n \in 0 .. Len(s) /\ (n # 0 => n \in 1 .. k)
      BY <2>7, <2>9
    <3>2. CASE n = 0
      BY <1>3, <2>4, <3>1, <3>2, WholeText
    <3>3. CASE n # 0
      <4>1. n \in DOMAIN SubSeq(s, 1, k)
        BY <1>3, <2>5, <2>8, <3>1, <3>3, LenProperties
      <4>2. CutAgain(s, k, n)
        BY <2>4, <2>7, <4>1, CutOfBeginning, Zenon
      <4> QED
        BY <2>5, <2>8, <3>1, <3>3, <4>2 DEF CutAgain
    <3> QED
      BY <3>2, <3>3
  <2>11. alone[t] /\ ~broken => left = s
    <3> SUFFICES ASSUME alone[t], ~broken PROVE left = s
      OBVIOUS
    <3>1. f = s /\ Len(f) <= k
      BY <2>4, <2>6
    <3>2. n = Len(s)
      BY <2>7, <2>9, <3>1
    <3> QED
      BY <2>4, <2>9, <2>10, <3>2, WholeText
  <2>12. PICK l : l = loaded'[t]
    OBVIOUS
  <2>13. l.text = left /\ l = [kind |-> Kind(c, l.text, broken), text |-> l.text]
    BY <2>2, <2>12
  <2>14. n \in 0 .. Len(s) /\ l.text = SubSeq(s, 1, n) /\ (broken /\ c.ext = "csv" => n = 0 \/ s[n] = NewLine)
    BY <2>9, <2>10, <2>13
  <2>15. Returned(c, s, l, alone[t], broken)
    BY <2>11, <2>13, <2>14 DEF Returned
  <2> QED
    BY <2>3, <2>12, <2>15
<1> QED
  BY <1>4, <1>5

LEMMA LoadStep == LoadInv /\ [Next]_vars => LoadInv'
<1> SUFFICES ASSUME LoadInv, [Next]_vars PROVE LoadInv'
  OBVIOUS
<1>1. ReadInv' /\ HoldInv'
  BY ReadStep, HoldStep DEF LoadInv
<1>2. CASE UNCHANGED fvars
  BY <1>1, <1>2 DEF fvars, LoadInv, Loading
<1>3. CASE Crash
  BY <1>1, <1>3 DEF Crash, FilesCrash, LoadInv, Loading
<1>4. CASE FilesNext
  <2>1. PICK t \in Thread : FilesStep(t) \/ DiskFull(t) \/ ReadError(t) \/ \E c \in Menu : Call(t, c)
    BY <1>4 DEF FilesNext
  <2>2. source' = [u \in Thread |-> source'[u]]
    BY <2>1 DEF FilesStep, CantOpenToSave, OpenToSave, Flush, Close, DiskFull, CantOpenToLoad,
                OpenToLoad, Read, EndOfFile, ReadError, Return, Call, LoadInv
  <2>3. \A u \in Thread : Loading(u)'
    <3>1. CASE \/ CantOpenToSave(t) \/ OpenToSave(t) \/ Flush(t) \/ Close(t) \/ DiskFull(t)
               \/ CantOpenToLoad(t) \/ \E c \in Menu : Call(t, c)
      BY <1>1, <3>1, SavesKeepLoads, KeptLoads
    <3>2. CASE OpenToLoad(t) \/ Read(t)
      BY <1>1, <3>2, OpenLoads, ReadLoads
    <3>3. CASE EndOfFile(t) \/ ReadError(t)
      BY <1>1, <3>3, ReturnLoads DEF EndOfFile, ReadError
    <3> QED
      BY <2>1, <3>1, <3>2, <3>3 DEF FilesStep
  <2> QED
    BY <1>1, <2>2, <2>3, Zenon DEF LoadInv
<1> QED
  BY <1>2, <1>3, <1>4 DEF Next, vars, OthersOpen

-----------------------------------------------------------------------------
(* The closing bracket of a JSON text is its last character and no other.   *)
Closed(s, n) == n = Len(s) /\ n \in Nat \ {0} /\ s[n] = "}" /\ \A i \in 1 .. n - 1 : s[i] # "}"
Marks == STRING \cup {"{", "}"}
LEMMA JsonIsClosed ==
  ASSUME NEW d \in Doc
  PROVE  JsonText(d) \in Seq(Marks) /\ Closed(JsonText(d), Len(JsonText(d)))
<1>1. d \in Marks /\ d # "}" /\ Tables[d] \in Seq(Range(Tables[d])) /\ "{" # "}"
  BY DocsAssumption, Zenon DEF Marks, IsTable
<1>2. PICK n \in Nat : DOMAIN Tables[d] = 1 .. n
  <2>1. PICK S : Tables[d] \in Seq(S)
    BY <1>1
  <2> QED
    BY <2>1, LenProperties
<1>3. PICK a, b, c, x, y : /\ a = << x >> /\ b = [k \in 1 .. n |-> d] /\ c = << y >>
                           /\ x = "{" /\ y = "}"
  OBVIOUS
<1>4. /\ a \in Seq(Marks) /\ b \in Seq(Marks) /\ c \in Seq(Marks)
      /\ Len(a) = 1 /\ Len(b) = n /\ Len(c) = 1 /\ a[1] = "{" /\ c[1] = "}"
      /\ \A k \in 1 .. n : b[k] = d
  <2>1. x \in Marks /\ y \in Marks
    BY <1>3 DEF Marks
  <2>2. << x >> \in Seq(Marks) /\ Len(<< x >>) = 1 /\ << x >>[1] = x
    BY <2>1
  <2>3. << y >> \in Seq(Marks) /\ Len(<< y >>) = 1 /\ << y >>[1] = y
    BY <2>1
  <2>4. b \in Seq(Marks) /\ Len(b) = n /\ \A k \in 1 .. n : b[k] = d
    <3>1. DOMAIN b = 1 .. n /\ b \in [1 .. n -> Marks] /\ \A k \in 1 .. n : b[k] = d
      BY <1>1, <1>3
    <3>2. b \in Seq(Marks)
      BY <3>1, SeqDef
    <3>3. Len(b) = n
      BY <3>1, <3>2, LenProperties
    <3> QED
      BY <3>1, <3>2, <3>3
  <2> QED
    BY <1>3, <2>2, <2>3, <2>4, Zenon
<1>5. PICK ab : ab = a \o b
  OBVIOUS
<1>6. /\ ab \in Seq(Marks) /\ Len(ab) = 1 + n /\ ab[1] = "{" /\ \A k \in 1 .. n : ab[1 + k] = d
  <2>1. /\ ab \in Seq(Marks) /\ Len(ab) = Len(a) + Len(b)
        /\ \A i \in 1 .. Len(a) + Len(b) : ab[i] = IF i <= Len(a) THEN a[i] ELSE b[i - Len(a)]
    BY <1>4, <1>5, ConcatProperties, Zenon
  <2>2. \A i \in 1 .. 1 + n : ab[i] = IF i <= 1 THEN a[i] ELSE b[i - 1]
    BY <1>4, <2>1, Zenon
  <2>3. 1 \in 1 .. 1 + n /\ \A k \in 1 .. n : 1 + k \in 1 .. 1 + n /\ (1 + k) - 1 = k /\ ~(1 + k <= 1)
    BY <1>2
  <2>4. ab[1] = "{" /\ \A k \in 1 .. n : ab[1 + k] = d
    <3>1. ab[1] = a[1]
      BY <2>2, <2>3
    <3>2. ASSUME NEW k \in 1 .. n PROVE ab[1 + k] = d
      <4>1. 1 + k \in 1 .. 1 + n /\ (1 + k) - 1 = k /\ ~(1 + k <= 1)
        BY <2>3
      <4>2. ab[1 + k] = b[(1 + k) - 1]
        BY <2>2, <4>1, Zenon
      <4> QED
        BY <1>4, <4>1, <4>2, Zenon
    <3> QED
      BY <1>4, <3>1, <3>2, Zenon
  <2> QED
    BY <1>4, <2>1, <2>4, Zenon
<1>7. \A i \in 1 .. 1 + n : ab[i] # "}"
  <2> SUFFICES ASSUME NEW i \in 1 .. 1 + n PROVE ab[i] # "}"
    OBVIOUS
  <2>1. i = 1 \/ (i - 1 \in 1 .. n /\ i = 1 + (i - 1))
    BY <1>2
  <2> QED
    BY <1>1, <1>6, <2>1
<1>8. PICK s : s = ab \o c
  OBVIOUS
<1>9. s \in Seq(Marks) /\ Len(s) = n + 2 /\ s[n + 2] = "}" /\ \A i \in 1 .. 1 + n : s[i] = ab[i]
  <2>1. /\ s \in Seq(Marks) /\ Len(s) = Len(ab) + Len(c)
        /\ \A i \in 1 .. Len(ab) + Len(c) : s[i] = IF i <= Len(ab) THEN ab[i] ELSE c[i - Len(ab)]
    BY <1>4, <1>6, <1>8, ConcatProperties, Zenon
  <2>2. PICK m \in Nat : m = 1 + n /\ m + 1 = n + 2 /\ (m + 1) - m = 1
    BY <1>2
  <2>3. \A i \in 1 .. m + 1 : s[i] = IF i <= m THEN ab[i] ELSE c[i - m]
    BY <1>4, <1>6, <2>1, <2>2, Zenon
  <2>4. Len(s) = n + 2
    BY <1>4, <1>6, <2>1, <2>2, Zenon
  <2>5. s[m + 1] = c[1] /\ \A i \in 1 .. m : s[i] = ab[i]
    BY <2>2, <2>3
  <2>6. c[1] = "}"
    BY <1>3, <1>4
  <2> QED
    BY <2>1, <2>2, <2>4, <2>5, <2>6, Zenon
<1>10. JsonText(d) = s
  <2>1. b = [k \in DOMAIN Tables[d] |-> d]
    BY <1>2, <1>3
  <2>2. a = << "{" >> /\ c = << "}" >>
    BY <1>3
  <2> QED
    BY <1>5, <1>8, <2>1, <2>2, Zenon DEF JsonText
<1>11. Closed(s, n + 2)
  <2>1. n + 2 \in Nat \ {0} /\ (n + 2) - 1 = 1 + n
    BY <1>2
  <2> QED
    BY <1>7, <1>9, <2>1 DEF Closed
<1> QED
  BY <1>9, <1>10, <1>11

(* The beginning of a JSON text that is one itself is all of it.            *)
LEMMA JsonHasNoBeginning ==
  ASSUME NEW d \in Doc, NEW s, s = JsonText(d), NEW k \in 0 .. Len(s), IsJson(SubSeq(s, 1, k))
  PROVE  k = Len(s)
<1>1. PICK e \in Doc : SubSeq(s, 1, k) = JsonText(e)
  BY DEF IsJson
<1>2. PICK t : t = JsonText(e)
  OBVIOUS
<1>3. s \in Seq(Marks) /\ Closed(s, Len(s)) /\ Closed(t, Len(t)) /\ Len(s) \in Nat
  BY <1>2, JsonIsClosed, LenProperties
<1>4. Len(t) = k /\ \A i \in 1 .. k : t[i] = s[i]
  <2>1. \A i \in 1 .. k : s[i] \in Marks
    BY <1>3, ElementOfSeq
  <2>2. t = SubSeq(s, 1, k)
    BY <1>1, <1>2
  <2>3. PICK l \in Nat : l = Len(s) /\ k \in 0 .. l
    BY <1>3
  <2>4. Len(t) = (IF 1 <= k THEN k - 1 + 1 ELSE 0) /\ \A i \in 1 .. k - 1 + 1 : t[i] = s[1 + i - 1]
    BY <2>1, <2>2, <2>3, SubSeqProperties
  <2> QED
    BY <2>3, <2>4
<1>5. PICK l \in Nat, m \in Nat : l = Len(s) /\ m = k /\ m <= l
  BY <1>3
<1>6. Closed(t, m) /\ Closed(s, l)
  BY <1>3, <1>4, <1>5, Zenon
<1>7. m # 0 /\ t[m] = "}"
  BY <1>6 DEF Closed
<1>8. m \in 1 .. m
  <2>1. m # 0
    BY <1>7
  <2> QED
    BY <2>1
<1>9. s[m] = "}"
  BY <1>4, <1>5, <1>7, <1>8, Zenon
<1>10. m \notin 1 .. l - 1
  <2>1. \A i \in 1 .. l - 1 : s[i] # "}"
    BY <1>6, Zenon DEF Closed
  <2> QED
    BY <1>9, <2>1, Zenon
<1>11. m = l
  <2>1. m <= l /\ m # 0
    BY <1>5, <1>7
  <2> QED
    BY <1>10, <2>1
<1> QED
  BY <1>5, <1>11, Zenon

LEMMA LoadedJson ==
  ASSUME NEW t \in Thread, Loading(t), HasRead(t, "json")
  PROVE  /\ loaded[t].kind = "text" => loaded[t].text = TextOf(source[t])
         /\ alone[t] /\ ~failed[t] => loaded[t].kind = "text"
<1> DEFINE c == call[t]
           d == source[t].doc
           l == loaded[t]
<1>1. PICK s : s = JsonText(d)
  OBVIOUS
<1>2. d \in Doc /\ TextOf(source[t]) = s
  BY <1>1, MenuAssumption DEF HasRead, Loading, IsSave, TextOf, CallType
<1>3. /\ l.kind = "text" => Parses(c, l.text)
      /\ ~failed[t] /\ Parses(c, l.text) => l.kind = "text"
      /\ Begins(l.text, s) /\ (alone[t] /\ ~failed[t] => l.text = s)
  <2>1. c.lib # "file" /\ c.ext # "csv"
    BY MenuAssumption DEF HasRead, Loading
  <2>2. Returned(c, s, l, alone[t], failed[t])
    BY <1>2, <2>1 DEF HasRead, Loading
  <2>3. l.kind = Kind(c, l.text, failed[t])
    BY <2>2 DEF Returned
  <2> HIDE DEF c, d, l
  <2> QED
    BY <2>1, <2>2, <2>3, Zenon DEF Returned, Kind, Begins
<1>4. s \in Seq(Marks) /\ Len(s) \in Nat \ {0} /\ SubSeq(s, 1, Len(s)) = s /\ DOMAIN s = 1 .. Len(s)
  <2>1. s \in Seq(Marks) /\ Closed(s, Len(s))
    BY <1>1, <1>2, JsonIsClosed, Zenon
  <2>2. SubSeq(s, 1, Len(s)) = s /\ DOMAIN s = 1 .. Len(s)
    BY <2>1, WholeText, LenProperties
  <2>3. Len(s) \in Nat \ {0}
    BY <2>1 DEF Closed
  <2> QED
    BY <2>1, <2>2, <2>3, Zenon
<1> HIDE DEF c, d, l
<1>5. Parses(c, s)
  <2>1. IsJson(s)
    BY <1>1, <1>2 DEF IsJson
  <2>2. Len(s) \in DOMAIN s
    <3>1. PICK m \in Nat \ {0} : m = Len(s)
      BY <1>4
    <3>2. m \in 1 .. m
      BY <3>1
    <3> QED
      BY <1>4, <3>1, <3>2, Zenon
  <2>3. IsJson(SubSeq(s, 1, Len(s)))
    BY <1>4, <2>1
  <2> QED
    BY <2>1, <2>2, <2>3 DEF Parses
<1>6. ASSUME l.kind = "text" PROVE l.text = s
  <2>1. Parses(c, l.text)
    BY <1>3, <1>6
  <2>2. PICK k \in 0 .. Len(s) : l.text = SubSeq(s, 1, k)
    BY <1>3 DEF Begins
  <2>3. CASE IsJson(l.text)
    <3>1. k = Len(s)
      BY <1>1, <1>2, <2>2, <2>3, JsonHasNoBeginning
    <3> QED
      BY <1>4, <2>2, <3>1
  <2>4. CASE \E n \in DOMAIN l.text : IsJson(SubSeq(l.text, 1, n))
    <3>1. PICK n \in DOMAIN SubSeq(s, 1, k) : IsJson(SubSeq(SubSeq(s, 1, k), 1, n))
      BY <2>2, <2>4
    <3>2. n \in 1 .. k /\ IsJson(SubSeq(s, 1, n))
      <4>1. CutAgain(s, k, n)
        BY <1>4, <3>1, CutOfBeginning, Zenon
      <4> QED
        BY <3>1, <4>1, Zenon DEF CutAgain
    <3>3. n \in 0 .. Len(s)
      BY <1>4, <3>2
    <3>4. n = Len(s)
      BY <1>1, <1>2, <3>2, <3>3, JsonHasNoBeginning
    <3>5. k = Len(s)
      <4>1. PICK m \in Nat, h \in Nat : m = Len(s) /\ h = k /\ h <= m
        <5>1. Len(s) \in Nat
          BY <1>4
        <5>2. k \in Nat /\ k <= Len(s)
          BY <5>1
        <5> QED
          BY <5>1, <5>2, Zenon
      <4>2. m \in 1 .. h
        BY <3>2, <3>4, <4>1, Zenon
      <4>3. h = m
        BY <4>1, <4>2
      <4> QED
        BY <4>1, <4>3, Zenon
    <3> QED
      BY <1>4, <2>2, <3>5
  <2> QED
    BY <2>1, <2>3, <2>4 DEF Parses
<1>7. alone[t] /\ ~failed[t] => l.kind = "text"
  BY <1>3, <1>5
<1> QED
  BY <1>2, <1>6, <1>7 DEF l

-----------------------------------------------------------------------------
(* CSV.  The elements of a finite set in an order: each has a place of its  *)
(* own, and there is one at every place.                                    *)
Ordered(S, r) ==
  IsFiniteSet(S) /\ r \in [S -> Nat] /\ \A e, f \in S : r[e] = r[f] => e = f
UpTo(S, r, e) == {f \in S : r[f] <= r[e]}
Place(S, r, e) == Cardinality(UpTo(S, r, e))

LEMMA PlaceGrows ==
  ASSUME NEW S, NEW r, Ordered(S, r), NEW e \in S, NEW f \in S
  PROVE  /\ Place(S, r, e) \in 1 .. Cardinality(S)
         /\ r[e] < r[f] => Place(S, r, e) < Place(S, r, f)
         /\ Place(S, r, e) = Place(S, r, f) => e = f
<1> USE DEF Ordered
<1>0. Cardinality(S) \in Nat
  BY FS_CardinalityType
<1>1. ASSUME NEW x \in S
      PROVE  /\ IsFiniteSet(UpTo(S, r, x)) /\ Place(S, r, x) \in Nat
             /\ Place(S, r, x) <= Cardinality(S) /\ Place(S, r, x) # 0
  <2>1. UpTo(S, r, x) \in SUBSET S /\ x \in UpTo(S, r, x)
    BY DEF UpTo
  <2>2. IsFiniteSet(UpTo(S, r, x)) /\ Cardinality(UpTo(S, r, x)) <= Cardinality(S)
    BY <2>1, FS_Subset
  <2>3. Cardinality(UpTo(S, r, x)) \in Nat
    BY <2>2, FS_CardinalityType
  <2>4. Cardinality(UpTo(S, r, x)) # 0
    BY <2>1, <2>2, FS_EmptySet
  <2> QED
    BY <2>2, <2>3, <2>4 DEF Place
<1>2. ASSUME NEW x \in S, NEW y \in S, r[x] < r[y]
      PROVE  Place(S, r, x) < Place(S, r, y)
  <2>1. UpTo(S, r, x) \in SUBSET UpTo(S, r, y) /\ y \in UpTo(S, r, y) /\ y \notin UpTo(S, r, x)
    BY <1>2 DEF UpTo
  <2>2. /\ Cardinality(UpTo(S, r, x)) <= Cardinality(UpTo(S, r, y))
        /\ Cardinality(UpTo(S, r, x)) # Cardinality(UpTo(S, r, y))
    <3>1. IsFiniteSet(UpTo(S, r, y))
      BY <1>1
    <3> QED
      BY <2>1, <3>1, FS_Subset
  <2>3. Place(S, r, x) \in Nat /\ Place(S, r, y) \in Nat
    BY <1>1
  <2> QED
    BY <2>2, <2>3 DEF Place
<1>3. r[e] < r[f] \/ r[f] < r[e] \/ e = f
  OBVIOUS
<1>4. Place(S, r, e) \in Nat /\ Place(S, r, f) \in Nat /\ Place(S, r, e) <= Cardinality(S) /\ Place(S, r, e) # 0
  BY <1>1
<1>5. Place(S, r, e) = Place(S, r, f) => e = f
  BY <1>2, <1>3, <1>4
<1>6. r[e] < r[f] => Place(S, r, e) < Place(S, r, f)
  BY <1>2
<1> QED
  BY <1>0, <1>4, <1>5, <1>6

LEMMA EveryPlace ==
  ASSUME NEW S, NEW r, Ordered(S, r), NEW k \in 1 .. Cardinality(S)
  PROVE  \E e \in S : Place(S, r, e) = k
<1> DEFINE n == Cardinality(S)
           p == [e \in S |-> Place(S, r, e)]
<1>1. n \in Nat
  BY FS_CardinalityType DEF Ordered
<1>2. p \in [S -> 1 .. n] /\ \A e, f \in S : p[e] = p[f] => e = f
  BY PlaceGrows
<1>3. p \in Injection(S, 1 .. n)
  BY <1>2, Zenon DEF Injection, IsInjective
<1>4. IsFiniteSet(1 .. n) /\ Cardinality(1 .. n) = n
  BY <1>1, FS_Interval
<1>5. p \in Surjection(S, 1 .. n)
  BY <1>3, <1>4, FS_Injection
<1>6. PICK e \in S : p[e] = k
  BY <1>5 DEF Surjection
<1> QED
  BY <1>6

-----------------------------------------------------------------------------
(* Where the parts of a cut end, in their order, and the beginning of it.   *)
CutEnd(E, k) == IF k = 0 THEN 0 ELSE CHOOSE e \in E : Cardinality({f \in E : f <= e}) = k
Positions(E) == IsFiniteSet(E) /\ \A e \in E : e \in Nat /\ e > 0

LEMMA EndIsPlace ==
  ASSUME NEW E, Positions(E)
  PROVE  /\ Ordered(E, [e \in E |-> e]) /\ Cardinality(E) \in Nat
         /\ \A e \in E : Place(E, [x \in E |-> x], e) = Cardinality({f \in E : f <= e})
<1>1. \A e \in E : UpTo(E, [x \in E |-> x], e) = {f \in E : f <= e}
  BY DEF UpTo
<1>2. \A e \in E : Place(E, [x \in E |-> x], e) = Cardinality({f \in E : f <= e})
  BY <1>1 DEF Place
<1>3. Ordered(E, [e \in E |-> e])
  BY DEF Ordered, Positions
<1> QED
  BY <1>2, <1>3, FS_CardinalityType DEF Positions

IsEnd(E, k) ==
  /\ CutEnd(E, k) \in E /\ Cardinality({f \in E : f <= CutEnd(E, k)}) = k
  /\ \A e \in E : Cardinality({f \in E : f <= e}) = k => e = CutEnd(E, k)
LEMMA EndFacts ==
  ASSUME NEW E, Positions(E), NEW k \in 1 .. Cardinality(E)
  PROVE  IsEnd(E, k)
<1> DEFINE r == [e \in E |-> e]
<1>1. PICK e \in E : Place(E, r, e) = k
  BY EndIsPlace, EveryPlace, Zenon
<1>2. Cardinality({f \in E : f <= e}) = k
  BY <1>1, EndIsPlace
<1>3. k # 0
  BY EndIsPlace
<1>4. CutEnd(E, k) \in E /\ Cardinality({f \in E : f <= CutEnd(E, k)}) = k
  BY <1>2, <1>3, Zenon DEF CutEnd
<1>5. ASSUME NEW x \in E, Cardinality({f \in E : f <= x}) = k PROVE x = CutEnd(E, k)
  <2>1. Place(E, r, x) = Place(E, r, CutEnd(E, k))
    BY <1>4, <1>5, EndIsPlace, Zenon
  <2>2. Ordered(E, r) /\ CutEnd(E, k) \in E
    BY <1>4, EndIsPlace, Zenon
  <2> HIDE DEF r
  <2> QED
    BY <2>1, <2>2, PlaceGrows, Zenon
<1> QED
  BY <1>4, <1>5 DEF IsEnd

(* They grow, and none is left out.                                         *)
Grows(E, n) ==
  /\ n = Cardinality(E) /\ n \in Nat /\ \A k \in 0 .. n : CutEnd(E, k) \in Nat
  /\ \A j, k \in 0 .. n : j < k => CutEnd(E, j) < CutEnd(E, k)
  /\ \A e \in E : \E k \in 1 .. n : e = CutEnd(E, k)
LEMMA EndsGrow == ASSUME NEW E, Positions(E) PROVE \E n \in Nat : Grows(E, n)
<1> DEFINE r == [e \in E |-> e]
<1>1. PICK n \in Nat : n = Cardinality(E)
  BY EndIsPlace
<1>2. \A k \in 1 .. n : IsEnd(E, k)
  BY <1>1, EndFacts
<1>3. CutEnd(E, 0) = 0
  BY DEF CutEnd
<1>4. \A k \in 1 .. n : CutEnd(E, k) \in E /\ CutEnd(E, k) \in Nat /\ CutEnd(E, k) > 0
  BY <1>2 DEF IsEnd, Positions
<1>5. ASSUME NEW j \in 1 .. n, NEW k \in 1 .. n, j < k PROVE CutEnd(E, j) < CutEnd(E, k)
  <2>1. Place(E, r, CutEnd(E, j)) = j /\ Place(E, r, CutEnd(E, k)) = k
    BY <1>2, <1>4, EndIsPlace DEF IsEnd
  <2>2. r[CutEnd(E, k)] = CutEnd(E, k) /\ r[CutEnd(E, j)] = CutEnd(E, j)
    BY <1>4
  <2>3. CutEnd(E, k) < CutEnd(E, j) => k < j
    BY <1>4, <2>1, <2>2, EndIsPlace, PlaceGrows
  <2>4. CutEnd(E, k) # CutEnd(E, j)
    BY <1>5, <2>1
  <2> QED
    BY <1>4, <1>5, <2>3, <2>4
<1>6. ASSUME NEW e \in E PROVE \E k \in 1 .. n : e = CutEnd(E, k)
  <2>1. PICK k : k = Place(E, r, e)
    OBVIOUS
  <2>2. k \in 1 .. n /\ Cardinality({f \in E : f <= e}) = k
    BY <1>1, <2>1, EndIsPlace, PlaceGrows
  <2> QED
    BY <1>2, <2>2 DEF IsEnd
<1>7. \A j, k \in 0 .. n : j < k => CutEnd(E, j) < CutEnd(E, k)
  BY <1>3, <1>4, <1>5
<1> QED
  BY <1>1, <1>3, <1>4, <1>6, <1>7 DEF Grows

(* Positions that come after all others change nothing before them.         *)
SameEnds(D, E) ==
  /\ Cardinality(D) \in Nat /\ Cardinality(E) \in Nat /\ Cardinality(D) <= Cardinality(E)
  /\ \A k \in 0 .. Cardinality(D) : CutEnd(D, k) = CutEnd(E, k)
LEMMA EarlyEnds ==
  ASSUME NEW E, Positions(E), NEW D \in SUBSET E, \A d \in D, e \in E \ D : d < e
  PROVE  SameEnds(D, E) /\ Positions(D) /\ (D # E => Cardinality(D) < Cardinality(E))
<1>1. /\ Positions(D) /\ Cardinality(D) \in Nat /\ Cardinality(E) \in Nat /\ Cardinality(D) <= Cardinality(E)
      /\ (D # E => Cardinality(D) # Cardinality(E))
  BY FS_Subset, FS_CardinalityType DEF Positions
<1>2. ASSUME NEW k \in 1 .. Cardinality(D) PROVE CutEnd(D, k) = CutEnd(E, k)
  <2>1. PICK x : x = CutEnd(D, k)
    OBVIOUS
  <2>2. IsEnd(D, k) /\ IsEnd(E, k)
    BY <1>1, EndFacts
  <2>3. x \in D /\ {f \in E : f <= x} = {f \in D : f <= x}
    BY <2>1, <2>2 DEF IsEnd, Positions
  <2> QED
    BY <2>1, <2>2, <2>3, Zenon DEF IsEnd
<1>3. CutEnd(D, 0) = CutEnd(E, 0)
  BY DEF CutEnd
<1> QED
  BY <1>1, <1>2, <1>3 DEF SameEnds

LEMMA AddedEnd ==
  ASSUME NEW E, Positions(E), NEW x \in Nat, x # 0, \A e \in E : e < x
  PROVE  /\ Positions(E \cup {x}) /\ SameEnds(E, E \cup {x})
         /\ Cardinality(E \cup {x}) = Cardinality(E) + 1
         /\ CutEnd(E \cup {x}, Cardinality(E) + 1) = x
<1> DEFINE F == E \cup {x}
<1>1. Positions(F) /\ x \notin E
  BY FS_AddElement DEF Positions
<1>2. Cardinality(F) = Cardinality(E) + 1 /\ Cardinality(E) \in Nat
  BY <1>1, FS_AddElement, FS_CardinalityType DEF Positions
<1>3. SameEnds(E, F)
  BY <1>1, EarlyEnds
<1>4. {f \in F : f <= x} = F
  BY <1>1 DEF Positions
<1>5. IsEnd(F, Cardinality(E) + 1)
  BY <1>1, <1>2, EndFacts
<1>6. CutEnd(F, Cardinality(E) + 1) = x
  BY <1>2, <1>4, <1>5 DEF IsEnd
<1> QED
  BY <1>1, <1>2, <1>3, <1>6

LEMMA LastEnd ==
  ASSUME NEW E, Positions(E), NEW x \in E, \A e \in E : e <= x
  PROVE  Cardinality(E) \in Nat \ {0} /\ CutEnd(E, Cardinality(E)) = x
<1>1. {f \in E : f <= x} = E
  OBVIOUS
<1>2. Cardinality(E) \in Nat \ {0}
  BY FS_CardinalityType, FS_EmptySet DEF Positions
<1>3. IsEnd(E, Cardinality(E))
  BY <1>2, EndFacts
<1> QED
  BY <1>1, <1>2, <1>3 DEF IsEnd

-----------------------------------------------------------------------------
(* The parts themselves.                                                    *)
CutIs(s, E) ==
  CutAt(s, E) = [k \in 1 .. Cardinality(E) |-> SubSeq(s, CutEnd(E, k - 1) + 1, CutEnd(E, k) - 1)]
LEMMA CutParts == ASSUME NEW s, NEW E PROVE CutIs(s, E)
BY DEF CutIs, CutAt, CutEnd

Free(s, c) == \A i \in DOMAIN s : s[i] # c
(* All pieces of s, an empty one at the end included.                       *)
Stops(s, c) == Ends(s, c) \cup {Len(s) + 1}
AllPieces(s, c) == CutAt(s, Stops(s, c))

LEMMA StopsFacts ==
  ASSUME NEW S, NEW s \in Seq(S), NEW c
  PROVE  /\ Positions(Ends(s, c)) /\ Positions(Stops(s, c)) /\ Len(s) \in Nat
         /\ \A e \in Ends(s, c) : e <= Len(s) /\ s[e] = c
         /\ \A e \in Stops(s, c) : e <= Len(s) + 1
<1>1. Len(s) \in Nat /\ DOMAIN s = 1 .. Len(s)
  BY LenProperties
<1>2. IsFiniteSet(1 .. Len(s))
  BY <1>1, FS_Interval
<1>3. Ends(s, c) \in SUBSET (1 .. Len(s)) /\ \A e \in Ends(s, c) : s[e] = c
  BY <1>1 DEF Ends
<1>4. IsFiniteSet(Ends(s, c))
  BY <1>2, <1>3, FS_Subset
<1>5. \A e \in Ends(s, c) : e \in Nat /\ e > 0 /\ e <= Len(s)
  BY <1>1, <1>3
<1>6. IsFiniteSet(Stops(s, c))
  BY <1>4, FS_AddElement DEF Stops
<1> QED
  BY <1>1, <1>3, <1>4, <1>5, <1>6 DEF Positions, Stops

(* Sequences that begin the same are cut the same there.                    *)
Agree(s, t, n) == n \in Nat /\ n <= Len(s) /\ n <= Len(t) /\ \A i \in 1 .. n : s[i] = t[i]
AlikeCut(s, t, a, b) == SubSeq(s, a + 1, b) = SubSeq(t, a + 1, b)
LEMMA AgreeCut ==
  ASSUME NEW S, NEW s \in Seq(S), NEW t \in Seq(S), NEW n, Agree(s, t, n),
         NEW a \in Nat, NEW b \in Int, b <= n
  PROVE  AlikeCut(s, t, a, b)
<1> USE DEF AlikeCut
<1>1. CASE b < a + 1
  BY <1>1, SubSeqEmpty
<1>2. CASE a + 1 <= b
  <2>1. Len(s) \in Nat /\ Len(t) \in Nat
    BY LenProperties
  <2>2. \A i \in a + 1 .. b : i \in 1 .. n /\ i \in 1 .. Len(s) /\ i \in 1 .. Len(t)
    BY <1>2, <2>1 DEF Agree
  <2>3. \A i \in a + 1 .. b : s[i] \in S /\ t[i] \in S /\ s[i] = t[i]
    BY <2>2, ElementOfSeq DEF Agree
  <2>4. PICK m \in Int : m = a + 1
    OBVIOUS
  <2>5. PICK x, y : x = SubSeq(s, m, b) /\ y = SubSeq(t, m, b)
    OBVIOUS
  <2>6. x \in Seq(S) /\ Len(x) = b - m + 1 /\ \A i \in 1 .. b - m + 1 : x[i] = s[m + i - 1]
    BY <1>2, <2>3, <2>4, <2>5, SubSeqProperties
  <2>7. y \in Seq(S) /\ Len(y) = b - m + 1 /\ \A i \in 1 .. b - m + 1 : y[i] = t[m + i - 1]
    BY <1>2, <2>3, <2>4, <2>5, SubSeqProperties
  <2>8. \A i \in 1 .. b - m + 1 : m + i - 1 \in a + 1 .. b
    BY <2>4
  <2>9. \A i \in 1 .. b - m + 1 : x[i] = y[i]
    BY <2>3, <2>6, <2>7, <2>8
  <2>10. x = y
    BY <2>6, <2>7, <2>9, SeqEqual
  <2> QED
    BY <2>4, <2>5, <2>10
<1> QED
  BY <1>1, <1>2

LEMMA CutAgrees ==
  ASSUME NEW S, NEW s \in Seq(S), NEW t \in Seq(S), NEW n, Agree(s, t, n),
         NEW D, NEW E, Positions(D), Positions(E), SameEnds(D, E), \A d \in D : d <= n + 1,
         NEW k \in 1 .. Cardinality(D)
  PROVE  k \in 1 .. Cardinality(E) /\ CutAt(s, D)[k] = CutAt(t, E)[k]
<1>1. PICK l \in Nat : Grows(D, l)
  BY EndsGrow
<1>2. l = Cardinality(D) /\ k \in 1 .. l /\ k - 1 \in 0 .. l /\ k \in 0 .. l
  BY <1>1 DEF Grows
<1>3. CutEnd(D, k - 1) = CutEnd(E, k - 1) /\ CutEnd(D, k) = CutEnd(E, k) /\ k \in 1 .. Cardinality(E)
  BY <1>2 DEF SameEnds
<1>4. CutEnd(D, k - 1) \in Nat /\ CutEnd(D, k) \in Nat /\ CutEnd(D, k) <= n + 1 /\ n \in Nat
  <2>1. IsEnd(D, k)
    BY <1>2, EndFacts, Zenon
  <2>2. CutEnd(D, k) <= n + 1
    BY <2>1, Zenon DEF IsEnd
  <2> QED
    BY <1>1, <1>2, <2>2 DEF Grows, Agree
<1>5. PICK a \in Nat, b \in Int : a = CutEnd(D, k - 1) /\ b = CutEnd(D, k) - 1 /\ b <= n
  BY <1>4
<1>6. SubSeq(s, a + 1, b) = SubSeq(t, a + 1, b)
  <2>1. AlikeCut(s, t, a, b)
    BY <1>5, AgreeCut, Zenon
  <2> QED
    BY <2>1, Zenon DEF AlikeCut
<1>7. CutAt(s, D)[k] = SubSeq(s, a + 1, b) /\ CutAt(t, E)[k] = SubSeq(t, a + 1, b)
  BY <1>3, <1>5, CutParts DEF CutIs
<1> QED
  BY <1>3, <1>6, <1>7

-----------------------------------------------------------------------------
(* s is cut into the first n elements of q.                                 *)
Consists(s, c, q, n) ==
  n \in Nat /\ Cardinality(Stops(s, c)) = n /\ \A k \in 1 .. n : AllPieces(s, c)[k] = q[k]

LEMMA OnePiece ==
  ASSUME NEW S, NEW s \in Seq(S), NEW c, Free(s, c), NEW q, q[1] = s
  PROVE  Consists(s, c, q, 1)
<1> DEFINE l == Len(s)
<1>1. l \in Nat /\ SubSeq(s, 1, l) = s
  BY LenProperties, SubSeqFull
<1>2. Stops(s, c) = {} \cup {l + 1}
  BY DEF Free, Ends, Stops
<1>3. Positions({}) /\ Cardinality({}) = 0
  BY FS_EmptySet DEF Positions
<1> HIDE DEF l
<1>4. Cardinality({} \cup {l + 1}) = 0 + 1 /\ CutEnd({} \cup {l + 1}, 0 + 1) = l + 1
  <2>1. PICK x \in Nat : x = l + 1 /\ x # 0 /\ \A e \in {} : e < x
    BY <1>1
  <2> QED
    BY <1>3, <2>1, AddedEnd
<1>5. Cardinality(Stops(s, c)) = 1 /\ CutEnd(Stops(s, c), 1) = l + 1 /\ CutEnd(Stops(s, c), 0) = 0
  BY <1>2, <1>4 DEF CutEnd
<1>6. AllPieces(s, c)[1] = SubSeq(s, 1, l)
  <2>1. CutIs(s, Stops(s, c)) /\ 1 \in 1 .. Cardinality(Stops(s, c))
    BY <1>5, CutParts
  <2>2. AllPieces(s, c)[1] = SubSeq(s, CutEnd(Stops(s, c), 1 - 1) + 1, CutEnd(Stops(s, c), 1) - 1)
    BY <2>1 DEF CutIs, AllPieces
  <2> QED
    BY <1>1, <1>5, <2>2
<1> QED
  BY <1>1, <1>5, <1>6 DEF Consists

(* s, a separator, and p.                                                   *)
Behind(s, c, p) == s \o (<< c >> \o p)
BehindIs(s, c, p, t, l, m) ==
  /\ l = Len(s) /\ m = Len(p) /\ l \in Nat /\ m \in Nat /\ Len(t) = l + 1 + m
  /\ \A i \in 1 .. l + 1 + m : t[i] = (IF i <= l THEN s[i] ELSE IF i = l + 1 THEN c ELSE p[i - l - 1])
LEMMA BehindFacts ==
  ASSUME NEW S, NEW s \in Seq(S), NEW c \in S, NEW p \in Seq(S)
  PROVE  /\ Behind(s, c, p) \in Seq(S) /\ BehindIs(s, c, p, Behind(s, c, p), Len(s), Len(p))
         /\ Behind(s, c, p) = (s \o << c >>) \o p
<1>1. PICK l \in Nat, m \in Nat : l = Len(s) /\ m = Len(p)
  BY LenProperties
<1>2. << c >> \in Seq(S) /\ Len(<< c >>) = 1 /\ << c >>[1] = c
  OBVIOUS
<1>3. PICK x : x = << c >> \o p
  OBVIOUS
<1>4. x \in Seq(S) /\ Len(x) = 1 + m /\ \A i \in 1 .. 1 + m : x[i] = (IF i <= 1 THEN << c >>[i] ELSE p[i - 1])
  BY <1>1, <1>2, <1>3, ConcatProperties
<1>5. PICK t : t = s \o x
  OBVIOUS
<1>6. t \in Seq(S) /\ Len(t) = l + (1 + m) /\ \A i \in 1 .. l + (1 + m) : t[i] = (IF i <= l THEN s[i] ELSE x[i - l])
  <2>1. PICK r \in Nat : r = 1 + m
    BY <1>1
  <2>2. t \in Seq(S) /\ Len(t) = l + r /\ \A i \in 1 .. l + r : t[i] = (IF i <= l THEN s[i] ELSE x[i - l])
    <3>1. Len(s) = l /\ Len(x) = r
      BY <1>1, <1>4, <2>1
    <3>2. /\ s \o x \in Seq(S) /\ Len(s \o x) = Len(s) + Len(x)
          /\ \A i \in 1 .. Len(s) + Len(x) : (s \o x)[i] = (IF i <= Len(s) THEN s[i] ELSE x[i - Len(s)])
      BY <1>4, ConcatProperties
    <3> QED
      BY <1>5, <3>1, <3>2
  <2> QED
    BY <2>1, <2>2
<1>7. ASSUME NEW i \in 1 .. l + 1 + m
      PROVE  t[i] = (IF i <= l THEN s[i] ELSE IF i = l + 1 THEN c ELSE p[i - l - 1])
  <2>1. CASE i <= l
    BY <1>6, <2>1
  <2>2. CASE i = l + 1
    <3>1. i \in 1 .. l + (1 + m) /\ ~(i <= l) /\ i - l = 1 /\ 1 \in 1 .. 1 + m
      BY <2>2
    <3>2. t[i] = x[1] /\ x[1] = c
      BY <1>2, <1>4, <1>6, <3>1
    <3> QED
      BY <2>2, <3>2
  <2>3. CASE i > l + 1
    <3>1. i \in 1 .. l + (1 + m) /\ ~(i <= l) /\ i - l \in 1 .. 1 + m /\ ~(i - l <= 1)
      BY <2>3
    <3>2. PICK j \in Int : j = i - l /\ j - 1 = i - l - 1
      OBVIOUS
    <3>3. t[i] = x[j] /\ x[j] = p[j - 1]
      BY <1>4, <1>6, <3>1, <3>2
    <3> QED
      BY <2>3, <3>2, <3>3
  <2> QED
    BY <2>1, <2>2, <2>3
<1>8. s \o x = (s \o << c >>) \o p
  BY <1>2, <1>3, ConcatAssociative, SMTT(30)
<1>9. Behind(s, c, p) = t
  BY <1>3, <1>5, Zenon DEF Behind
<1>10. BehindIs(s, c, p, t, l, m)
  <2>1. l + (1 + m) = l + 1 + m
    BY <1>1
  <2> QED
    BY <1>1, <1>6, <1>7, <2>1 DEF BehindIs
<1> QED
  BY <1>1, <1>3, <1>5, <1>6, <1>8, <1>9, <1>10, Zenon

LEMMA BehindStops ==
  ASSUME NEW S, NEW s \in Seq(S), NEW c \in S, NEW p \in Seq(S), Free(p, c)
  PROVE  Ends(Behind(s, c, p), c) = Stops(s, c)
<1> DEFINE t == Behind(s, c, p)
<1>1. PICK l, m : BehindIs(s, c, p, t, l, m)
  BY BehindFacts
<1>2. t \in Seq(S)
  BY BehindFacts
<1> HIDE DEF t
<1>3. DOMAIN s = 1 .. l /\ DOMAIN p = 1 .. m /\ DOMAIN t = 1 .. l + 1 + m /\ l \in Nat /\ m \in Nat /\ l = Len(s)
  BY <1>1, <1>2, LenProperties DEF BehindIs
<1>4. \A i \in 1 .. l + 1 + m : t[i] = (IF i <= l THEN s[i] ELSE IF i = l + 1 THEN c ELSE p[i - l - 1])
  BY <1>1 DEF BehindIs
<1>5. ASSUME NEW i \in 1 .. l + 1 + m PROVE t[i] = c <=> (i <= l /\ s[i] = c) \/ i = l + 1
  <2>1. CASE i <= l
    BY <1>3, <1>4, <2>1
  <2>2. CASE i = l + 1
    BY <1>3, <1>4, <2>2
  <2>3. CASE i > l + 1
    <3>1. i - l - 1 \in 1 .. m /\ ~(i <= l) /\ i # l + 1
      BY <1>3, <2>3
    <3>2. p[i - l - 1] # c
      BY <1>3, <3>1 DEF Free
    <3> QED
      BY <1>4, <3>1, <3>2
  <2> QED
    BY <1>3, <2>1, <2>2, <2>3
<1>6. Ends(t, c) = {i \in 1 .. l : s[i] = c} \cup {l + 1}
  <2>1. \A i \in 1 .. l + 1 + m : t[i] = c <=> (i <= l /\ s[i] = c) \/ i = l + 1
    BY <1>5
  <2>2. \A i : i \in 1 .. l \/ i = l + 1 => i \in 1 .. l + 1 + m
    BY <1>3
  <2>3. \A i \in 1 .. l + 1 + m : i <= l => i \in 1 .. l
    BY <1>3
  <2>4. \A i : i \in 1 .. l => i <= l
    BY <1>3
  <2> QED
    BY <1>3, <2>1, <2>2, <2>3, <2>4, Zenon DEF Ends
<1> QED
  BY <1>3, <1>6 DEF t, Stops, Ends

LEMMA NextPiece ==
  ASSUME NEW S, NEW s \in Seq(S), NEW c \in S, NEW p \in Seq(S), Free(p, c),
         NEW q, NEW n, Consists(s, c, q, n), q[n + 1] = p
  PROVE  Consists(Behind(s, c, p), c, q, n + 1)
<1> DEFINE t == Behind(s, c, p)
           D == Stops(s, c)
           E == Stops(t, c)
<1>1. PICK l, m : BehindIs(s, c, p, t, l, m)
  BY BehindFacts
<1>2. t \in Seq(S) /\ Ends(t, c) = D
  BY BehindFacts, BehindStops
<1>3. l = Len(s) /\ m = Len(p) /\ l \in Nat /\ m \in Nat /\ Len(t) = l + 1 + m
  BY <1>1 DEF BehindIs
<1>4. PICK x \in Nat : x = l + 1 + m + 1 /\ x # 0
  BY <1>3
<1>5. E = D \cup {x}
  BY <1>2, <1>3, <1>4 DEF Stops
<1>6. Positions(D) /\ Positions(E) /\ \A e \in D : e <= l + 1 /\ e \in Nat
  BY <1>2, <1>3, StopsFacts DEF Positions
<1>7. \A e \in D : e < x
  BY <1>3, <1>4, <1>6
<1>8. n \in Nat /\ n = Cardinality(D)
  BY DEF Consists
<1> HIDE DEF D, E, t
<1>9. SameEnds(D, E) /\ Cardinality(E) = n + 1 /\ CutEnd(E, n + 1) = x
  BY <1>4, <1>5, <1>6, <1>7, <1>8, AddedEnd
<1>10. Agree(s, t, l)
  BY <1>1 DEF Agree, BehindIs
<1>11. \A k \in 1 .. n : AllPieces(t, c)[k] = q[k]
  <2>1. \A k \in 1 .. n : CutAt(s, D)[k] = CutAt(t, E)[k]
    BY <1>2, <1>6, <1>8, <1>9, <1>10, CutAgrees
  <2> QED
    BY <2>1 DEF Consists, AllPieces, D, E
<1>12. CutEnd(E, n) = l + 1 /\ n \in 1 .. n
  <2>1. l + 1 \in D
    BY <1>3 DEF D, Stops
  <2>2. n # 0 /\ CutEnd(D, n) = l + 1
    BY <1>6, <1>8, <2>1, LastEnd
  <2> QED
    BY <1>8, <1>9, <2>2 DEF SameEnds
<1>13. AllPieces(t, c)[n + 1] = SubSeq(t, l + 2, l + 1 + m)
  <2>1. CutIs(t, E) /\ n + 1 \in 1 .. Cardinality(E) /\ n + 1 - 1 = n
    BY <1>8, <1>9, CutParts
  <2>2. PICK h : h = n + 1
    OBVIOUS
  <2>4. CutAt(t, E)[h] = SubSeq(t, CutEnd(E, h - 1) + 1, CutEnd(E, h) - 1)
    BY <2>1, <2>2, Zenon DEF CutIs
  <2>3. CutEnd(E, n) + 1 = l + 2 /\ CutEnd(E, n + 1) - 1 = l + 1 + m
    BY <1>3, <1>4, <1>9, <1>12
  <2> QED
    <3>1. AllPieces(t, c)[n + 1] = CutAt(t, E)[h]
      BY <2>2, Zenon DEF AllPieces, E
    <3>2. CutEnd(E, h - 1) + 1 = l + 2 /\ CutEnd(E, h) - 1 = l + 1 + m
      <4>1. h - 1 = n
        BY <1>8, <2>2
      <4> QED
        BY <2>2, <2>3, <4>1, Zenon
    <3> QED
      BY <2>4, <3>1, <3>2, Zenon
<1>14. SubSeq(t, l + 2, l + 1 + m) = p
  <2>1. PICK a \in Int, b \in Int : a = l + 2 /\ b = l + 1 + m
    BY <1>3
  <2>2. \A i \in a .. b : i \in 1 .. l + 1 + m /\ i - l - 1 \in 1 .. m /\ t[i] = p[i - l - 1]
    BY <1>1, <1>3, <2>1 DEF BehindIs
  <2>3. \A i \in a .. b : t[i] \in S
    BY <1>3, <2>2, ElementOfSeq
  <2>4. PICK y : y = SubSeq(t, a, b)
    OBVIOUS
  <2>5. /\ y \in Seq(S) /\ Len(y) = (IF a <= b THEN b - a + 1 ELSE 0)
        /\ \A i \in 1 .. b - a + 1 : y[i] = t[a + i - 1]
    BY <2>3, <2>4, SubSeqProperties
  <2>6. Len(y) = m /\ b - a + 1 = m /\ \A i \in 1 .. m : a + i - 1 \in a .. b /\ a + i - 1 - l - 1 = i
    BY <1>3, <2>1, <2>5
  <2>7. ASSUME NEW i \in 1 .. m PROVE y[i] = p[i]
    <3>1. PICK j \in Int : j = a + i - 1 /\ j \in a .. b /\ j - l - 1 = i
      BY <1>3, <2>1, <2>6, SMTT(30)
    <3>2. y[i] = t[j] /\ t[j] = p[i]
      <4>1. t[j] = p[j - l - 1]
        BY <2>2, <3>1, Zenon
      <4>2. i \in 1 .. b - a + 1
        BY <2>6, Zenon
      <4>3. y[i] = t[j]
        BY <2>5, <3>1, <4>2, Zenon
      <4> QED
        BY <3>1, <4>1, <4>3, Zenon
    <3> QED
      BY <3>2, Zenon
  <2>8. y = p
    BY <1>3, <2>5, <2>6, <2>7, SeqEqual
  <2> QED
    BY <2>1, <2>4, <2>8
<1>15. \A k \in 1 .. n + 1 : AllPieces(t, c)[k] = q[k]
  <2>1. \A k \in 1 .. n + 1 : k \in 1 .. n \/ k = n + 1
    BY <1>8
  <2> QED
    BY <1>11, <1>13, <1>14, <2>1, Zenon
<1> QED
  BY <1>8, <1>9, <1>15 DEF Consists, t, E

(* What getline makes of it.                                                *)
GivesPieces(s, c, q, n) == Pieces(s, c) = [k \in 1 .. n |-> q[k]]
LEMMA EndedPieces ==
  ASSUME NEW S, NEW s \in Seq(S), NEW c \in S, NEW q, NEW n, Consists(s, c, q, n)
  PROVE  GivesPieces(s \o << c >>, c, q, n)
<1> DEFINE t == Behind(s, c, << >>)
<1>1. << >> \in Seq(S) /\ Free(<< >>, c)
  BY DEF Free
<1>2. t \in Seq(S) /\ Ends(t, c) = Stops(s, c) /\ BehindIs(s, c, << >>, t, Len(s), 0)
  BY <1>1, BehindFacts, BehindStops, EmptySeq
<1>3. t = s \o << c >>
  <2>1. << c >> \o << >> = << c >>
    OBVIOUS
  <2> QED
    BY <2>1 DEF Behind
<1> HIDE DEF t
<1>4. PICK l \in Nat : l = Len(s) /\ Len(t) = l + 1 /\ t[l + 1] = c /\ Agree(s, t, l)
  BY <1>2 DEF BehindIs, Agree
<1>5. Last(t) = c
  BY <1>4 DEF Last
<1>6. Pieces(t, c) = CutAt(t, Stops(s, c))
  BY <1>2, <1>5 DEF Pieces
<1>7. Positions(Stops(s, c)) /\ \A e \in Stops(s, c) : e <= l + 1
  BY <1>4, StopsFacts
<1>8. n \in Nat /\ Cardinality(Stops(s, c)) = n /\ SameEnds(Stops(s, c), Stops(s, c))
  BY DEF Consists, SameEnds
<1>9. \A k \in 1 .. n : CutAt(s, Stops(s, c))[k] = CutAt(t, Stops(s, c))[k]
  BY <1>2, <1>4, <1>7, <1>8, CutAgrees
<1>10. CutAt(t, Stops(s, c)) = [k \in 1 .. n |-> CutAt(t, Stops(s, c))[k]]
  BY <1>8, CutParts DEF CutIs
<1> QED
  BY <1>3, <1>6, <1>9, <1>10 DEF Consists, AllPieces, GivesPieces

LEMMA OpenPieces ==
  ASSUME NEW S, NEW s \in Seq(S), NEW c, NEW q, NEW n, Consists(s, c, q, n),
         s # << >>, s[Len(s)] # c
  PROVE  GivesPieces(s, c, q, n)
<1>1. Pieces(s, c) = CutAt(s, Stops(s, c))
  BY DEF Pieces, Stops, Last
<1>2. CutAt(s, Stops(s, c)) = [k \in 1 .. n |-> CutAt(s, Stops(s, c))[k]]
  BY CutParts DEF CutIs, Consists
<1> QED
  BY <1>1, <1>2 DEF Consists, AllPieces, GivesPieces

-----------------------------------------------------------------------------
(* A piece is a part of s without a separator.                              *)
IsPiece(S, s, c, p) ==
  p \in Seq(S) /\ \A i \in DOMAIN p : p[i] # c /\ \E j \in DOMAIN s : p[i] = s[j]
ArePieces(S, s, c, n) ==
  /\ n \in Nat /\ Pieces(s, c) = [k \in 1 .. n |-> Pieces(s, c)[k]]
  /\ \A k \in 1 .. n : IsPiece(S, s, c, Pieces(s, c)[k])
LEMMA PieceFacts ==
  ASSUME NEW S, NEW s \in Seq(S), NEW c
  PROVE  \E n \in Nat : ArePieces(S, s, c, n)
<1>1. PICK l \in Nat : l = Len(s) /\ DOMAIN s = 1 .. l /\ \A i \in 1 .. l : s[i] \in S
  BY LenProperties, ElementOfSeq
<1>2. PICK E : /\ Pieces(s, c) = CutAt(s, E) /\ Positions(E) /\ Ends(s, c) \subseteq E
               /\ \A e \in E : e <= l + 1
  <2>1. CASE s = << >> \/ Last(s) = c
    <3>1. Pieces(s, c) = CutAt(s, Ends(s, c))
      BY <2>1 DEF Pieces
    <3>2. \A e \in Ends(s, c) : e <= l /\ e \in Nat
      BY <1>1, StopsFacts DEF Positions
    <3>3. \A e \in Ends(s, c) : e <= l + 1
      BY <1>1, <3>2
    <3> QED
      BY <3>1, <3>3, StopsFacts
  <2>2. CASE ~(s = << >> \/ Last(s) = c)
    <3>1. Pieces(s, c) = CutAt(s, Stops(s, c))
      BY <2>2 DEF Pieces, Stops
    <3> QED
      BY <1>1, <3>1, StopsFacts DEF Stops
  <2> QED
    BY <2>1, <2>2
<1>3. PICK n \in Nat : Grows(E, n)
  BY <1>2, EndsGrow
<1>4. Cardinality(E) = n
  BY <1>3 DEF Grows
<1>5. Pieces(s, c) = [k \in 1 .. n |-> SubSeq(s, CutEnd(E, k - 1) + 1, CutEnd(E, k) - 1)]
  BY <1>2, <1>4, CutParts DEF CutIs
<1>6. ASSUME NEW k \in 1 .. n PROVE IsPiece(S, s, c, Pieces(s, c)[k])
  <2>1. k - 1 \in 0 .. n /\ k \in 0 .. n
    OBVIOUS
  <2>2. PICK a \in Int, b \in Int : a = CutEnd(E, k - 1) + 1 /\ b = CutEnd(E, k) - 1
    BY <1>3, <2>1 DEF Grows
  <2>3. a >= 1 /\ b <= l
    <3>1. CutEnd(E, k - 1) \in Nat /\ CutEnd(E, k) \in Nat
      BY <1>3, <2>1 DEF Grows
    <3>2. CutEnd(E, k) <= l + 1
      BY <1>2, <1>4, EndFacts DEF IsEnd
    <3> QED
      BY <1>1, <2>2, <3>1, <3>2
  <2>4. ASSUME NEW i \in a .. b PROVE i \in 1 .. l /\ s[i] \in S /\ s[i] # c
    <3>1. i \in 1 .. l
      BY <1>1, <2>3
    <3>2. ASSUME NEW j \in 1 .. n, i = CutEnd(E, j) PROVE FALSE
      <4>1. j <= k - 1 \/ j >= k
        OBVIOUS
      <4>2. CutEnd(E, j) <= CutEnd(E, k - 1) \/ CutEnd(E, j) >= CutEnd(E, k)
        <5>1. j = k - 1 \/ j = k \/ j < k - 1 \/ k < j
          OBVIOUS
        <5>2. j \in 0 .. n /\ \A x, y \in 0 .. n : x < y => CutEnd(E, x) < CutEnd(E, y)
          BY <1>3 DEF Grows
        <5>3. CutEnd(E, j) \in Nat /\ CutEnd(E, k - 1) \in Nat /\ CutEnd(E, k) \in Nat
          BY <1>3, <2>1, <5>2 DEF Grows
        <5> QED
          BY <2>1, <5>1, <5>2, <5>3
      <4>3. CutEnd(E, k - 1) \in Nat /\ CutEnd(E, k) \in Nat
        BY <1>3, <2>1 DEF Grows
      <4> QED
        BY <2>2, <3>2, <4>2, <4>3
    <3>3. i \notin E
      BY <1>3, <3>2 DEF Grows
    <3>4. s[i] # c
      BY <1>1, <1>2, <3>1, <3>3 DEF Ends
    <3> QED
      BY <1>1, <3>1, <3>4
  <2>5. PICK p : p = SubSeq(s, a, b)
    OBVIOUS
  <2>8. Pieces(s, c)[k] = p
    BY <1>5, <2>2, <2>5
  <2>6. p \in Seq(S) /\ Len(p) = (IF a <= b THEN b - a + 1 ELSE 0) /\ \A i \in 1 .. b - a + 1 : p[i] = s[a + i - 1]
    <3>1. \A i \in a .. b : s[i] \in S
      BY <2>4
    <3> QED
      BY <2>5, <3>1, SubSeqProperties
  <2>7. ASSUME NEW i \in DOMAIN p PROVE p[i] # c /\ \E j \in DOMAIN s : p[i] = s[j]
    <3>1. i \in 1 .. Len(p)
      BY <2>6, LenProperties
    <3>2. i \in 1 .. b - a + 1 /\ a + i - 1 \in a .. b
      BY <2>6, <3>1
    <3>3. PICK j : j = a + i - 1
      OBVIOUS
    <3>4. p[i] = s[j] /\ j \in a .. b
      BY <2>6, <3>2, <3>3, Zenon
    <3>5. j \in 1 .. l /\ s[j] # c
      BY <2>4, <3>4, Zenon
    <3> QED
      BY <1>1, <3>4, <3>5, Zenon
  <2> QED
    BY <2>6, <2>7, <2>8 DEF IsPiece
<1>7. Pieces(s, c) = [k \in 1 .. n |-> Pieces(s, c)[k]]
  BY <1>5
<1> QED
  BY <1>6, <1>7 DEF ArePieces

(* The pieces of the beginning of a sequence that a separator ends: all but *)
(* the last are pieces of the sequence, and the last if a separator ends it. *)
BeginsPieces(s, m, c) ==
  \E q, n \in Nat : /\ 1 <= q /\ q <= n /\ DOMAIN Pieces(s, c) = 1 .. n
                    /\ DOMAIN Pieces(SubSeq(s, 1, m), c) = 1 .. q
                    /\ \A k \in 1 .. IF s[m] = c THEN q ELSE q - 1 :
                         Pieces(SubSeq(s, 1, m), c)[k] = Pieces(s, c)[k]
LEMMA PiecesOfBeginning ==
  ASSUME NEW S, NEW s \in Seq(S), NEW c, s # << >>, s[Len(s)] = c, NEW m \in 1 .. Len(s)
  PROVE  BeginsPieces(s, m, c)
<1> DEFINE p == SubSeq(s, 1, m)
           D == Ends(p, c)
           E == Ends(s, c)
<1>1. PICK l \in Nat : l = Len(s) /\ DOMAIN s = 1 .. l /\ m \in 1 .. l
  BY LenProperties
<1>2. p \in Seq(S) /\ Len(p) = m /\ DOMAIN p = 1 .. m /\ \A i \in 1 .. m : p[i] = s[i]
  <2>1. \A i \in 1 .. m : s[i] \in S
    BY <1>1, ElementOfSeq
  <2>2. p \in Seq(S) /\ Len(p) = (IF 1 <= m THEN m - 1 + 1 ELSE 0) /\ \A i \in 1 .. m - 1 + 1 : p[i] = s[1 + i - 1]
    BY <1>1, <2>1, SubSeqProperties
  <2>3. Len(p) = m /\ \A i \in 1 .. m : p[i] = s[i]
    BY <1>1, <2>2
  <2> QED
    BY <2>2, <2>3, LenProperties
<1> HIDE DEF p
<1>3. Agree(p, s, m)
  BY <1>1, <1>2 DEF Agree
<1>4. Pieces(s, c) = CutAt(s, E)
  BY DEF Pieces, Last
<1>5. Positions(D) /\ Positions(E) /\ Positions(Stops(p, c))
  BY <1>2, StopsFacts
<1>6. D \in SUBSET E /\ \A d \in D, e \in E \ D : d < e
  <2>1. D = {i \in 1 .. m : s[i] = c} /\ E = {i \in 1 .. l : s[i] = c}
    BY <1>1, <1>2 DEF Ends
  <2> QED
    BY <1>1, <2>1
<1>7. \A d \in D : d <= m /\ d < m + 1
  BY <1>1, <1>2, <1>5, StopsFacts DEF Positions
<1>8. l \in E
  BY <1>1 DEF Ends
<1> HIDE DEF D, E
<1>9. SameEnds(D, E) /\ (D # E => Cardinality(D) < Cardinality(E))
  BY <1>5, <1>6, EarlyEnds
<1>10. PICK d \in Nat, n \in Nat : d = Cardinality(D) /\ n = Cardinality(E) /\ d <= n
  BY <1>9 DEF SameEnds
<1>11. DOMAIN Pieces(s, c) = 1 .. n
  BY <1>4, <1>10, CutParts DEF CutIs
<1>12. CASE Last(p) = c
  <2>0. s[m] = c
    BY <1>1, <1>2, <1>12 DEF Last
  <2>1. Pieces(p, c) = CutAt(p, D)
    BY <1>12 DEF Pieces, D
  <2>2. m \in D
    BY <1>1, <1>2, <1>12 DEF Last, D, Ends
  <2>3. d # 0
    BY <1>5, <1>10, <2>2, FS_EmptySet DEF Positions
  <2>4. \A e \in D : e <= m + 1
    BY <1>1, <1>5, <1>7 DEF Positions
  <2>5. \A k \in 1 .. d : CutAt(p, D)[k] = CutAt(s, E)[k]
    BY <1>2, <1>3, <1>5, <1>9, <1>10, <2>4, CutAgrees
  <2>6. DOMAIN Pieces(p, c) = 1 .. d /\ \A k \in 1 .. d : Pieces(p, c)[k] = Pieces(s, c)[k]
    BY <1>4, <1>10, <2>1, <2>5, CutParts DEF CutIs
  <2>7. 1 <= d /\ d <= n
    BY <1>10, <2>3
  <2> QED
    BY <1>10, <1>11, <2>0, <2>6, <2>7, Zenon DEF BeginsPieces, p
<1>13. CASE Last(p) # c
  <2>0. s[m] # c
    BY <1>1, <1>2, <1>13 DEF Last
  <2> DEFINE F == D \cup {m + 1}
  <2>1. Pieces(p, c) = CutAt(p, F) /\ F = Stops(p, c)
    <3>1. p # << >>
      BY <1>1, <1>2
    <3> QED
      BY <1>2, <1>13, <3>1 DEF Pieces, D, Stops
  <2>2. m + 1 \in Nat /\ m + 1 # 0
    BY <1>1
  <2>3. SameEnds(D, F) /\ Cardinality(F) = d + 1
    BY <1>5, <1>7, <1>10, <2>2, AddedEnd
  <2>4. l # m
    <3>1. s[l] = c /\ (l = m => Last(p) = s[l])
      BY <1>1, <1>2 DEF Last
    <3> QED
      BY <1>13, <3>1
  <2>5. D # E
    BY <1>1, <1>7, <1>8, <2>4
  <2>6. d + 1 <= n
    BY <1>9, <1>10, <2>5
  <2>7. \A e \in D : e <= m + 1
    BY <1>1, <1>5, <1>7 DEF Positions
  <2> HIDE DEF F
  <2>8. Agree(p, p, m) /\ Positions(F)
    <3>1. m \in Nat /\ m <= Len(p)
      BY <1>1, <1>2
    <3> QED
      BY <1>5, <2>1, <3>1 DEF Agree
  <2>9. ASSUME NEW k \in 1 .. d PROVE CutAt(p, F)[k] = CutAt(s, E)[k]
    <3>1. CutAt(p, D)[k] = CutAt(s, E)[k]
      BY <1>2, <1>3, <1>5, <1>9, <1>10, <2>7, CutAgrees
    <3>2. CutAt(p, D)[k] = CutAt(p, F)[k]
      BY <1>2, <1>5, <1>10, <2>3, <2>7, <2>8, CutAgrees
    <3> QED
      BY <3>1, <3>2
  <2>10. PICK q \in Nat : q = d + 1 /\ 1 <= q /\ q <= n /\ q - 1 = d
    BY <2>6
  <2>11. Cardinality(F) = q
    BY <2>3, <2>10
  <2>12. DOMAIN Pieces(p, c) = 1 .. q
    BY <2>1, <2>11, CutParts DEF CutIs
  <2>13. \A k \in 1 .. q - 1 : Pieces(p, c)[k] = Pieces(s, c)[k]
    <3>1. \A k \in 1 .. d : Pieces(p, c)[k] = Pieces(s, c)[k]
      BY <1>4, <2>1, <2>9, Zenon
    <3> QED
      BY <2>10, <3>1, Zenon
  <2> QED
    <3>1. /\ DOMAIN Pieces(SubSeq(s, 1, m), c) = 1 .. q
          /\ \A k \in 1 .. q - 1 : Pieces(SubSeq(s, 1, m), c)[k] = Pieces(s, c)[k]
      BY <2>12, <2>13, Zenon DEF p
    <3> QED
      BY <1>10, <1>11, <2>0, <2>10, <3>1, Zenon DEF BeginsPieces
<1> QED
  BY <1>12, <1>13

-----------------------------------------------------------------------------
(* Induction on the natural numbers, for a set of them.                     *)
LEMMA Induct ==
  ASSUME NEW S, 0 \in S, \A n \in Nat : n \in S => n + 1 \in S
  PROVE Nat \subseteq S
<1> SUFFICES ASSUME Nat \ S # {} PROVE FALSE
  OBVIOUS
<1>1. PICK x \in Nat \ S : \A y \in Nat \ S : x <= y
  BY Least, Nat \ S \in SUBSET Nat
<1>2. x # 0 /\ x - 1 \in Nat /\ ~(x <= x - 1)
  BY <1>1
<1>3. x - 1 \in S
  BY <1>1, <1>2
<1> QED
  BY <1>1, <1>2, <1>3

(* FlattenSeq puts one part behind the other.                               *)
Flattens(f, p, n) == f = [i \in 1 .. n |-> IF i = 1 THEN p[i] ELSE f[i - 1] \o p[i]]
LEMMA FlatteningExists == ASSUME NEW p, NEW n \in Nat PROVE \E f : Flattens(f, p, n)
<1> DEFINE Can == {m \in Nat : \E f : Flattens(f, p, m)}
<1>1. 0 \in Can
  <2>1. [i \in 1 .. 0 |-> 0] = [i \in 1 .. 0 |-> IF i = 1 THEN p[i] ELSE [j \in 1 .. 0 |-> 0][i - 1] \o p[i]]
    OBVIOUS
  <2>2. Flattens([i \in 1 .. 0 |-> 0], p, 0)
    BY <2>1 DEF Flattens
  <2> QED
    BY <2>2
<1>2. ASSUME NEW m \in Nat, m \in Can PROVE m + 1 \in Can
  <2>1. PICK f : Flattens(f, p, m)
    BY <1>2
  <2> DEFINE g == [i \in 1 .. m + 1 |-> IF i = 1 THEN p[i] ELSE f[i - 1] \o p[i]]
  <2>2. \A i \in 1 .. m : f[i] = IF i = 1 THEN p[i] ELSE f[i - 1] \o p[i]
    BY <2>1 DEF Flattens
  <2>3. \A i \in 1 .. m : g[i] = f[i]
    BY <2>2
  <2>4. \A i \in 1 .. m + 1 : i # 1 => i - 1 \in 1 .. m
    OBVIOUS
  <2>5. \A i \in 1 .. m + 1 : g[i] = IF i = 1 THEN p[i] ELSE f[i - 1] \o p[i]
    OBVIOUS
  <2>6. g = [i \in 1 .. m + 1 |-> g[i]]
    OBVIOUS
  <2> HIDE DEF g
  <2>7. \A i \in 1 .. m + 1 : g[i] = IF i = 1 THEN p[i] ELSE g[i - 1] \o p[i]
    BY <2>3, <2>4, <2>5, Zenon
  <2>8. g = [i \in 1 .. m + 1 |-> IF i = 1 THEN p[i] ELSE g[i - 1] \o p[i]]
    BY <2>6, <2>7, Zenon
  <2>9. Flattens(g, p, m + 1)
    BY <2>8, Zenon DEF Flattens
  <2> QED
    BY <2>9
<1>3. Nat \subseteq Can
  <2> HIDE DEF Can
  <2> QED
    BY <1>1, <1>2, Induct
<1> QED
  BY <1>3

(* f has what is made of the first parts of p.                              *)
Flattening(f, p, n) ==
  /\ f[1] = p[1] /\ \A i \in Nat \ {0} : i < n => f[i + 1] = f[i] \o p[i + 1]
  /\ FlattenSeq(p) = f[n]
LEMMA FlattenFacts ==
  ASSUME NEW p, NEW n \in Nat \ {0}, Len(p) = n
  PROVE  \E f : Flattening(f, p, n)
<1> DEFINE Body(f) == [i \in 1 .. Len(p) |-> IF i = 1 THEN p[i] ELSE f[i - 1] \o p[i]]
<1>1. \E f : f = Body(f)
  BY FlatteningExists DEF Flattens
<1>2. PICK f : f = Body(f) /\ FlattenSeq(p) = f[Len(p)]
  BY <1>1 DEF FlattenSeq
<1>3. \A i \in 1 .. n : f[i] = IF i = 1 THEN p[i] ELSE f[i - 1] \o p[i]
  BY <1>2
<1>4. f[1] = p[1]
  BY <1>3
<1>5. ASSUME NEW i \in Nat \ {0}, i < n PROVE f[i + 1] = f[i] \o p[i + 1]
  <2>1. PICK j \in 1 .. n : j = i + 1 /\ j # 1 /\ j - 1 = i
    BY <1>5
  <2>2. f[j] = f[j - 1] \o p[j]
    BY <1>3, <2>1, Zenon
  <2> QED
    BY <2>1, <2>2, Zenon
<1> QED
  BY <1>2, <1>4, <1>5 DEF Flattening

-----------------------------------------------------------------------------
(* The cells of a line.                                                     *)
Char == STRING \cup {Comma, NewLine, CR, Blank, Point, Digit, Word}
LEMMA CharFacts ==
  /\ Comma \in Char /\ NewLine \in Char /\ CR \in Char /\ Word \in Char
  /\ Comma # NewLine /\ Comma # CR /\ NewLine # CR /\ Comma # Blank /\ NewLine # Blank /\ CR # Blank
  /\ Point # Comma /\ Point # NewLine /\ Point # CR /\ Point # Blank
  /\ Digit # Comma /\ Digit # NewLine /\ Digit # CR /\ Digit # Blank
  /\ Exp # Comma /\ Exp # NewLine /\ Exp # CR /\ Exp # Blank
  /\ Sign # Comma /\ Sign # NewLine /\ Sign # CR /\ Sign # Blank
  /\ Word # Comma /\ Word # NewLine /\ Word # CR /\ Word # Blank /\ Word # Point /\ Word # Digit
  /\ Word # Exp /\ Word # Sign
BY DEF Char, Comma, NewLine, CR, Blank, Point, Digit, Exp, Sign, Word

IsCells(cells, n) ==
  n \in Nat /\ cells = [k \in 1 .. n |-> cells[k]] /\ Len(cells) = n
  /\ \A k \in 1 .. n : cells[k] \in Seq(Char) /\ Free(cells[k], Comma)

Line(s, cells, n) ==
  s \in Seq(Char) /\ Consists(s, Comma, cells, n)
  /\ \A c : c # Comma /\ (\A k \in 1 .. n : Free(cells[k], c)) => Free(s, c)
LEMMA LongerLine ==
  ASSUME NEW s, NEW cells, NEW n \in Nat, Line(s, cells, n), NEW p \in Seq(Char), Free(p, Comma),
         cells[n + 1] = p
  PROVE  Line(Behind(s, Comma, p), cells, n + 1)
<1> DEFINE t == Behind(s, Comma, p)
<1>1. s \in Seq(Char) /\ Comma \in Char
  BY CharFacts DEF Line
<1>2. t \in Seq(Char) /\ BehindIs(s, Comma, p, t, Len(s), Len(p))
  BY <1>1, BehindFacts
<1>3. Consists(t, Comma, cells, n + 1)
  BY <1>1, NextPiece DEF Line
<1> HIDE DEF t
<1>4. PICK l \in Nat, m \in Nat : l = Len(s) /\ m = Len(p)
  BY <1>2 DEF BehindIs
<1>5. DOMAIN s = 1 .. l /\ DOMAIN p = 1 .. m /\ DOMAIN t = 1 .. l + 1 + m
  BY <1>1, <1>2, <1>4, LenProperties DEF BehindIs
<1>6. \A i \in 1 .. l + 1 + m : t[i] = (IF i <= l THEN s[i] ELSE IF i = l + 1 THEN Comma ELSE p[i - l - 1])
  BY <1>2, <1>4 DEF BehindIs
<1>7. ASSUME NEW c, c # Comma, \A k \in 1 .. n + 1 : Free(cells[k], c) PROVE Free(t, c)
  <2>1. \A k \in 1 .. n : k \in 1 .. n + 1
    OBVIOUS
  <2>2. n + 1 \in 1 .. n + 1
    OBVIOUS
  <2>3. Free(s, c) /\ Free(p, c)
    BY <1>7, <2>1, <2>2, Zenon DEF Line
  <2>4. ASSUME NEW i \in 1 .. l + 1 + m PROVE t[i] # c
    <3>1. CASE i <= l
      BY <1>5, <1>6, <2>3, <3>1 DEF Free
    <3>2. CASE i = l + 1
      BY <1>4, <1>6, <1>7, <3>2
    <3>3. CASE i > l + 1
      <4>1. i - l - 1 \in 1 .. m /\ ~(i <= l) /\ i # l + 1
        BY <3>3
      <4> QED
        BY <1>5, <1>6, <2>3, <4>1 DEF Free
    <3> QED
      BY <3>1, <3>2, <3>3
  <2> QED
    BY <1>5, <2>4 DEF Free
<1> QED
  BY <1>2, <1>3, <1>7, Zenon DEF Line, t

LEMMA JoinedLines ==
  ASSUME NEW cells, NEW n, IsCells(cells, n), n # 0
  PROVE  /\ Line(Joined(cells), cells, n) /\ (n = 1 => Joined(cells) = cells[1])
         /\ n > 1 => \E s : Line(s, cells, n - 1) /\ Joined(cells) = Behind(s, Comma, cells[n])
<1>1. n \in Nat \ {0} /\ DOMAIN cells = 1 .. n /\ Len(cells) = n
  BY DEF IsCells
<1>2. \A k \in 1 .. n : cells[k] \in Seq(Char) /\ Free(cells[k], Comma)
  BY DEF IsCells
<1> DEFINE p == [k \in 1 .. n |-> IF k = 1 THEN cells[k] ELSE << Comma >> \o cells[k]]
<1>3. Joined(cells) = FlattenSeq(p)
  BY <1>1 DEF Joined
<1>4. Len(p) = n
  BY <1>1
<1>5. p[1] = cells[1] /\ \A k \in 1 .. n : k # 1 => p[k] = << Comma >> \o cells[k]
  BY <1>1
<1> HIDE DEF p
<1>6. PICK f : Flattening(f, p, n)
  BY <1>1, <1>4, FlattenFacts
<1>7. f[1] = cells[1] /\ Joined(cells) = f[n]
  BY <1>3, <1>5, <1>6 DEF Flattening
<1>8. ASSUME NEW i \in Nat \ {0}, i < n PROVE f[i + 1] = Behind(f[i], Comma, cells[i + 1])
  <2>1. PICK j \in 1 .. n : j = i + 1 /\ j # 1
    BY <1>1, <1>8
  <2>2. f[j] = f[i] \o p[j]
    BY <1>6, <1>8, <2>1 DEF Flattening
  <2> QED
    BY <1>5, <2>1, <2>2, Zenon DEF Behind
<1> DEFINE Done_ == {i \in Nat : i < n => Line(f[i + 1], cells, i + 1)}
<1>9. 0 \in Done_
  <2>1. 1 \in 1 .. n
    BY <1>1
  <2>2. cells[1] \in Seq(Char) /\ Free(cells[1], Comma)
    BY <1>2, <2>1
  <2>3. Consists(cells[1], Comma, cells, 1)
    BY <2>2, OnePiece
  <2>4. \A c : (\A k \in 1 .. 1 : Free(cells[k], c)) => Free(cells[1], c)
    <3>1. 1 \in 1 .. 1
      OBVIOUS
    <3> QED
      BY <3>1, Zenon
  <2>5. Line(f[1], cells, 1)
    BY <1>7, <2>2, <2>3, <2>4, Zenon DEF Line
  <2> QED
    BY <2>5
<1>10. ASSUME NEW i \in Nat, i \in Done_ PROVE i + 1 \in Done_
  <2> SUFFICES ASSUME i + 1 < n PROVE Line(f[i + 1 + 1], cells, i + 1 + 1)
    OBVIOUS
  <2>1. PICK h \in Nat \ {0} : h = i + 1 /\ h < n /\ h + 1 \in 1 .. n
    BY <1>1
  <2>2. Line(f[h], cells, h)
    <3>1. i < n /\ h = i + 1
      BY <1>1, <2>1
    <3>2. Line(f[i + 1], cells, i + 1)
      BY <1>10, <3>1
    <3> QED
      BY <3>1, <3>2, Zenon
  <2>3. f[h + 1] = Behind(f[h], Comma, cells[h + 1])
    BY <1>8, <2>1
  <2>4. cells[h + 1] \in Seq(Char) /\ Free(cells[h + 1], Comma)
    BY <1>2, <2>1
  <2>5. Line(Behind(f[h], Comma, cells[h + 1]), cells, h + 1)
    BY <2>1, <2>2, <2>4, LongerLine
  <2> QED
    <3>1. Line(f[h + 1], cells, h + 1)
      BY <2>3, <2>5, Zenon
    <3>2. h = i + 1
      BY <2>1
    <3> QED
      BY <3>1, <3>2, Zenon
<1>11. Nat \subseteq Done_
  <2> HIDE DEF Done_
  <2> QED
    BY <1>9, <1>10, Induct
<1>12. ASSUME NEW i \in Nat \ {0}, i <= n PROVE Line(f[i], cells, i)
  <2>1. i - 1 \in Nat /\ i - 1 < n /\ i - 1 + 1 = i
    BY <1>1, <1>12
  <2> QED
    BY <1>11, <2>1
<1>13. Line(Joined(cells), cells, n)
  BY <1>1, <1>7, <1>12
<1>14. ASSUME n > 1 PROVE \E s : Line(s, cells, n - 1) /\ Joined(cells) = Behind(s, Comma, cells[n])
  <2>1. n - 1 \in Nat \ {0} /\ n - 1 < n /\ n - 1 <= n /\ n - 1 + 1 = n
    BY <1>1, <1>14
  <2>2. Line(f[n - 1], cells, n - 1)
    BY <1>12, <2>1
  <2>3. f[n - 1 + 1] = Behind(f[n - 1], Comma, cells[n - 1 + 1])
    BY <1>8, <2>1
  <2> QED
    BY <1>7, <2>1, <2>2, <2>3
<1> QED
  BY <1>7, <1>13, <1>14

NoCells(s) == s = << >> /\ s \in Seq(Char)
LEMMA JoinedNone == ASSUME NEW cells, IsCells(cells, 0) PROVE NoCells(Joined(cells))
<1>1. DOMAIN cells = 1 .. 0
  BY DEF IsCells
<1> DEFINE p == [k \in 1 .. 0 |-> IF k = 1 THEN cells[k] ELSE << Comma >> \o cells[k]]
<1>2. Joined(cells) = FlattenSeq(p)
  BY <1>1 DEF Joined
<1>3. p \in Seq(Char) /\ Len(p) = 0
  OBVIOUS
<1> HIDE DEF p
<1>4. FlattenSeq(p) = p
  BY <1>3 DEF FlattenSeq
<1>5. p = << >>
  BY <1>3, EmptySeq
<1> QED
  BY <1>2, <1>3, <1>4, <1>5 DEF NoCells

LEMMA NothingRead == ASSUME NEW c, NEW q PROVE GivesPieces(<< >>, c, q, 0)
<1>1. Pieces(<< >>, c) = CutAt(<< >>, {})
  BY DEF Pieces, Ends
<1>2. CutAt(<< >>, {}) = [k \in 1 .. 0 |-> SubSeq(<< >>, CutEnd({}, k - 1) + 1, CutEnd({}, k) - 1)]
  BY CutParts, FS_EmptySet DEF CutIs
<1> QED
  BY <1>1, <1>2 DEF GivesPieces

(* A line gives its cells back, but for an empty one at its end.            *)
Shown(cells, n) == IF n > 0 /\ cells[n] = << >> THEN n - 1 ELSE n
GivesCells(cells, n) ==
  /\ Joined(cells) \in Seq(Char) /\ GivesPieces(Joined(cells), Comma, cells, Shown(cells, n))
  /\ \A c : c # Comma /\ (\A k \in 1 .. n : Free(cells[k], c)) => Free(Joined(cells), c)
LEMMA CellsReturn == ASSUME NEW cells, NEW n, IsCells(cells, n) PROVE GivesCells(cells, n)
<1>1. n \in Nat /\ \A k \in 1 .. n : cells[k] \in Seq(Char) /\ Free(cells[k], Comma)
  BY DEF IsCells
<1>2. CASE n = 0
  <2>1. Joined(cells) = << >> /\ Joined(cells) \in Seq(Char)
    BY <1>2, JoinedNone DEF NoCells
  <2>5. GivesPieces(<< >>, Comma, cells, 0)
    BY NothingRead
  <2>6. Shown(cells, n) = 0
    BY <1>2 DEF Shown
  <2>7. Free(<< >>, 0) /\ \A c : Free(<< >>, c)
    BY DEF Free
  <2> QED
    BY <2>1, <2>5, <2>6, <2>7 DEF GivesCells
<1>3. CASE n # 0
  <2>1. /\ Line(Joined(cells), cells, n) /\ (n = 1 => Joined(cells) = cells[1])
        /\ n > 1 => \E s : Line(s, cells, n - 1) /\ Joined(cells) = Behind(s, Comma, cells[n])
    BY <1>3, JoinedLines
  <2>2. /\ Joined(cells) \in Seq(Char) /\ Consists(Joined(cells), Comma, cells, n)
        /\ \A c : c # Comma /\ (\A k \in 1 .. n : Free(cells[k], c)) => Free(Joined(cells), c)
    BY <2>1 DEF Line
  <2>3. cells[n] \in Seq(Char) /\ Free(cells[n], Comma)
    BY <1>1, <1>3
  <2>4. CASE cells[n] # << >>
    <3>1. PICK m \in Nat : m = Len(cells[n]) /\ m # 0 /\ cells[n][m] # Comma
      <4>1. Len(cells[n]) \in Nat \ {0} /\ DOMAIN cells[n] = 1 .. Len(cells[n])
        BY <2>3, <2>4, EmptySeq, LenProperties
      <4>2. Len(cells[n]) \in DOMAIN cells[n]
        BY <4>1
      <4> QED
        BY <2>3, <4>1, <4>2 DEF Free
    <3>2. Joined(cells) # << >> /\ Joined(cells)[Len(Joined(cells))] # Comma
      <4>1. CASE n = 1
        BY <2>1, <2>4, <3>1, <4>1
      <4>2. CASE n > 1
        <5>1. PICK s : s \in Seq(Char) /\ Joined(cells) = Behind(s, Comma, cells[n])
          BY <2>1, <4>2 DEF Line
        <5>2. PICK t : t = Behind(s, Comma, cells[n])
          OBVIOUS
        <5>3. t \in Seq(Char) /\ BehindIs(s, Comma, cells[n], t, Len(s), Len(cells[n]))
          BY <2>3, <5>1, <5>2, BehindFacts, CharFacts
        <5>4. PICK l \in Nat : l = Len(s) /\ Len(t) = l + 1 + m
          BY <3>1, <5>3 DEF BehindIs
        <5>5. PICK h : h = l + 1 + m
          OBVIOUS
        <5>9. h \in Nat /\ h # 0 /\ ~(h <= l) /\ h # l + 1 /\ h - l - 1 = m /\ h \in 1 .. l + 1 + m
          <6>1. l \in Nat /\ m \in Nat /\ m # 0
            BY <3>1, <5>4
          <6> QED
            BY <5>5, <6>1
        <5>6. t[h] = (IF h <= l THEN s[h] ELSE IF h = l + 1 THEN Comma ELSE cells[n][h - l - 1])
          <6>1. BehindIs(s, Comma, cells[n], t, l, m)
            BY <3>1, <5>3, <5>4, Zenon
          <6> QED
            BY <5>9, <6>1, Zenon DEF BehindIs
        <5>7. t[h] = cells[n][m]
          BY <5>6, <5>9
        <5>8. Len(t) = h /\ h # 0
          BY <5>4, <5>5, <5>9, Zenon
        <5> QED
          BY <3>1, <5>1, <5>2, <5>3, <5>7, <5>8, EmptySeq
      <4> QED
        BY <1>1, <1>3, <4>1, <4>2
    <3>3. GivesPieces(Joined(cells), Comma, cells, n)
      BY <2>2, <3>2, OpenPieces
    <3>4. Shown(cells, n) = n
      BY <2>4 DEF Shown
    <3> QED
      BY <2>2, <3>3, <3>4 DEF GivesCells
  <2>5. CASE cells[n] = << >>
    <3>1. Shown(cells, n) = n - 1 /\ n - 1 \in Nat
      BY <1>1, <1>3, <2>5 DEF Shown
    <3>2. CASE n = 1
      <4>1. Joined(cells) = << >>
        BY <2>1, <2>5, <3>2
      <4>5. GivesPieces(<< >>, Comma, cells, 0)
        BY NothingRead
      <4>6. n - 1 = 0
        BY <3>2
      <4> QED
        BY <2>2, <3>1, <4>1, <4>5, <4>6 DEF GivesCells
    <3>3. CASE n > 1
      <4>1. PICK s : Line(s, cells, n - 1) /\ Joined(cells) = Behind(s, Comma, << >>)
        BY <2>1, <2>5, <3>3
      <4>2. s \in Seq(Char) /\ Consists(s, Comma, cells, n - 1)
        BY <4>1 DEF Line
      <4>3. Behind(s, Comma, << >>) = s \o << Comma >>
        <5>1. << Comma >> \o << >> = << Comma >>
          OBVIOUS
        <5> QED
          BY <5>1 DEF Behind
      <4>4. GivesPieces(s \o << Comma >>, Comma, cells, n - 1)
        BY <4>2, EndedPieces, CharFacts
      <4> QED
        BY <2>2, <3>1, <4>1, <4>3, <4>4 DEF GivesCells
    <3> QED
      BY <1>1, <1>3, <3>2, <3>3
  <2> QED
    BY <2>4, <2>5
<1> QED
  BY <1>2, <1>3

-----------------------------------------------------------------------------
(* The lines of a text.                                                     *)
AreLines(q, n) ==
  n \in Nat \ {0} /\ \A k \in 1 .. n : q[k] \in Seq(Char) /\ Free(q[k], NewLine)
Ending(q, x, i) ==
  \E w \in Seq(Char) : x = w \o << NewLine >> /\ Consists(w, NewLine, q, i)
Regrouped(s, t, u) == (s \o t) \o u = s \o (t \o u)
LEMMA Regroup ==
  ASSUME NEW S, NEW s \in Seq(S), NEW t \in Seq(S), NEW u \in Seq(S) PROVE Regrouped(s, t, u)
BY ConcatAssociative DEF Regrouped

LEMMA LineAdded ==
  ASSUME NEW q, NEW n, AreLines(q, n), NEW i \in 1 .. n - 1, NEW x, Ending(q, x, i)
  PROVE  Ending(q, x \o (q[i + 1] \o << NewLine >>), i + 1)
<1>1. PICK w \in Seq(Char) : x = w \o << NewLine >> /\ Consists(w, NewLine, q, i)
  BY DEF Ending
<1>2. q[i + 1] \in Seq(Char) /\ Free(q[i + 1], NewLine)
  <2>1. i + 1 \in 1 .. n
    BY DEF AreLines
  <2> QED
    BY <2>1 DEF AreLines
<1>3. PICK p : p = q[i + 1]
  OBVIOUS
<1>4. NewLine \in Char /\ << NewLine >> \in Seq(Char)
  BY CharFacts
<1>5. x \in Seq(Char)
  BY <1>1, <1>4, ConcatProperties
<1>6. x \o (p \o << NewLine >>) = (x \o p) \o << NewLine >>
  <2>1. p \in Seq(Char)
    BY <1>2, <1>3
  <2>2. Regrouped(x, p, << NewLine >>)
    BY <1>4, <1>5, <2>1, Regroup, Zenon
  <2> QED
    BY <2>2 DEF Regrouped
<1>7. x \o p = Behind(w, NewLine, p) /\ Behind(w, NewLine, p) \in Seq(Char)
  <2>1. p \in Seq(Char)
    BY <1>2, <1>3
  <2>2. Behind(w, NewLine, p) \in Seq(Char) /\ Behind(w, NewLine, p) = (w \o << NewLine >>) \o p
    BY <1>4, <2>1, BehindFacts, Zenon
  <2> QED
    BY <1>1, <2>2, Zenon
<1>8. Consists(Behind(w, NewLine, p), NewLine, q, i + 1)
  <2>1. q[i + 1] = p /\ p \in Seq(Char) /\ Free(p, NewLine)
    BY <1>2, <1>3
  <2> QED
    BY <1>1, <1>4, <2>1, NextPiece, Zenon
<1> QED
  BY <1>3, <1>6, <1>7, <1>8, Zenon DEF Ending

TextOfLines(q, n) ==
  (q[1] \o << NewLine >>) \o FlattenSeq([k \in 1 .. n - 1 |-> q[k + 1] \o << NewLine >>])
IsTextOf(text, q, n) ==
  /\ text \in Seq(Char) /\ text # << >> /\ text[Len(text)] = NewLine
  /\ GivesPieces(text, NewLine, q, n)
LEMMA LinesReturn ==
  ASSUME NEW q, NEW n, AreLines(q, n), n > 1
  PROVE  IsTextOf(TextOfLines(q, n), q, n)
<1> DEFINE p == [k \in 1 .. n - 1 |-> q[k + 1] \o << NewLine >>]
           h == q[1] \o << NewLine >>
<1>1. n \in Nat /\ n - 1 \in Nat \ {0} /\ Len(p) = n - 1
  BY DEF AreLines
<1>2. \A k \in 1 .. n - 1 : p[k] = q[k + 1] \o << NewLine >>
  OBVIOUS
<1> HIDE DEF p
<1>3. PICK f : Flattening(f, p, n - 1)
  BY <1>1, FlattenFacts
<1>4. ASSUME NEW k \in 1 .. n PROVE q[k] \in Seq(Char) /\ Free(q[k], NewLine)
  BY DEF AreLines
<1>5. Ending(q, h, 1)
  <2>1. q[1] \in Seq(Char) /\ Free(q[1], NewLine)
    <3>1. 1 \in 1 .. n
      BY <1>1
    <3> QED
      BY <1>4, <3>1
  <2>2. Consists(q[1], NewLine, q, 1)
    BY <2>1, OnePiece
  <2> QED
    BY <2>1, <2>2 DEF Ending
<1>6. NewLine \in Char /\ << NewLine >> \in Seq(Char)
  BY CharFacts
<1>7. h \in Seq(Char)
  <2>1. q[1] \in Seq(Char)
    <3>1. 1 \in 1 .. n
      BY <1>1
    <3> QED
      BY <1>4, <3>1
  <2> QED
    BY <1>6, <2>1, ConcatProperties
<1> HIDE DEF h
<1>8. ASSUME NEW i \in 1 .. n - 1, NEW x, Ending(q, x, i) PROVE Ending(q, x \o p[i], i + 1)
  BY <1>2, <1>8, LineAdded
<1> DEFINE Fits == {i \in Nat : i < n - 1 => f[i + 1] \in Seq(Char) /\ Ending(q, h \o f[i + 1], i + 2)}
<1>9. 0 \in Fits
  <2>1. 1 \in 1 .. n - 1 /\ 1 \in 1 .. n /\ 2 \in 1 .. n
    BY <1>1
  <2>2. Ending(q, h \o p[1], 1 + 1)
    BY <1>5, <1>8, <2>1
  <2>3. f[1] = p[1]
    BY <1>3 DEF Flattening
  <2>4. p[1] \in Seq(Char)
    <3>1. p[1] = q[1 + 1] \o << NewLine >> /\ q[1 + 1] \in Seq(Char)
      BY <1>2, <1>4, <2>1
    <3> QED
      BY <1>6, <3>1, ConcatProperties
  <2>5. f[0 + 1] \in Seq(Char) /\ Ending(q, h \o f[0 + 1], 0 + 2)
    BY <2>2, <2>3, <2>4
  <2> QED
    BY <2>5
<1>10. ASSUME NEW i \in Nat, i \in Fits PROVE i + 1 \in Fits
  <2> SUFFICES ASSUME i + 1 < n - 1
               PROVE  f[i + 1 + 1] \in Seq(Char) /\ Ending(q, h \o f[i + 1 + 1], i + 1 + 2)
    OBVIOUS
  <2>1. PICK j \in Nat \ {0} : j = i + 1
    OBVIOUS
  <2>2. j < n - 1 /\ i < n - 1 /\ j + 1 \in 1 .. n - 1 /\ j + 1 = i + 2 /\ j + 1 + 1 \in 1 .. n
    BY <1>1, <2>1
  <2>3. f[j] \in Seq(Char) /\ Ending(q, h \o f[j], j + 1)
    <3>1. f[i + 1] \in Seq(Char) /\ Ending(q, h \o f[i + 1], i + 2)
      BY <1>10, <2>2
    <3> QED
      BY <2>1, <2>2, <3>1, Zenon
  <2>4. f[j + 1] = f[j] \o p[j + 1]
    BY <1>3, <2>2 DEF Flattening
  <2>5. p[j + 1] \in Seq(Char)
    <3>1. p[j + 1] = q[j + 1 + 1] \o << NewLine >> /\ q[j + 1 + 1] \in Seq(Char)
      BY <1>2, <1>4, <2>2
    <3> QED
      BY <1>6, <3>1, ConcatProperties
  <2>6. f[j + 1] \in Seq(Char)
    BY <2>3, <2>4, <2>5, ConcatProperties
  <2>7. h \o f[j + 1] = (h \o f[j]) \o p[j + 1]
    <3>1. Regrouped(h, f[j], p[j + 1])
      BY <1>7, <2>3, <2>5, Regroup, Zenon
    <3> QED
      BY <2>4, <3>1 DEF Regrouped
  <2>8. Ending(q, (h \o f[j]) \o p[j + 1], j + 1 + 1)
    BY <1>8, <2>2, <2>3
  <2>9. Ending(q, h \o f[j + 1], j + 1 + 1)
    BY <2>7, <2>8, Zenon
  <2>10. j + 1 + 1 = i + 1 + 2 /\ i + 1 = j
    BY <2>1
  <2> QED
    BY <2>6, <2>9, <2>10
<1>11. Nat \subseteq Fits
  <2> HIDE DEF Fits
  <2> QED
    BY <1>9, <1>10, Induct
<1>12. Ending(q, h \o f[n - 1], n)
  <2>1. PICK i \in Nat : i = n - 2 /\ i < n - 1 /\ i + 1 = n - 1 /\ i + 2 = n
    BY <1>1
  <2>2. Ending(q, h \o f[i + 1], i + 2)
    BY <1>11, <2>1
  <2> QED
    BY <2>1, <2>2
<1>13. PICK w \in Seq(Char) : h \o f[n - 1] = w \o << NewLine >> /\ Consists(w, NewLine, q, n)
  BY <1>12 DEF Ending
<1>14. TextOfLines(q, n) = w \o << NewLine >>
  BY <1>3, <1>13 DEF TextOfLines, Flattening, h, p
<1>15. GivesPieces(w \o << NewLine >>, NewLine, q, n)
  BY <1>6, <1>13, EndedPieces
<1>16. PICK t : t = w \o << NewLine >>
  OBVIOUS
<1>17. /\ t \in Seq(Char) /\ Len(t) = Len(w) + 1 /\ Len(w) \in Nat
       /\ \A i \in 1 .. Len(w) + 1 : t[i] = IF i <= Len(w) THEN w[i] ELSE << NewLine >>[i - Len(w)]
  BY <1>6, <1>16, ConcatProperties, LenProperties
<1>18. t # << >> /\ t[Len(t)] = NewLine
  <2>1. PICK l \in Nat : l = Len(w)
    BY <1>17
  <2>2. Len(t) = l + 1 /\ l + 1 \in 1 .. l + 1 /\ ~(l + 1 <= l) /\ l + 1 - l = 1
    BY <1>17, <2>1
  <2>3. t[l + 1] = << NewLine >>[1]
    BY <1>17, <2>1, <2>2
  <2>4. Len(t) # 0
    BY <2>2
  <2> QED
    BY <2>2, <2>3, <2>4, EmptySeq
<1> QED
  BY <1>14, <1>15, <1>16, <1>17, <1>18 DEF IsTextOf

-----------------------------------------------------------------------------
(* Characters taken out of a text, or off its ends.                         *)
LEMMA FlatTyped ==
  ASSUME NEW S, NEW p, NEW n \in Nat, p = [i \in 1 .. n |-> p[i]], \A i \in 1 .. n : p[i] \in Seq(S)
  PROVE  FlattenSeq(p) \in Seq(S)
<1>1. CASE n = 0
  <2>1. p \in Seq(S) /\ Len(p) = 0
    BY <1>1
  <2> QED
    BY <2>1 DEF FlattenSeq
<1>2. CASE n # 0
  <2>1. Len(p) = n
    OBVIOUS
  <2>2. PICK f : Flattening(f, p, n)
    BY <1>2, <2>1, FlattenFacts
  <2> DEFINE Fits == {i \in Nat : i < n => f[i + 1] \in Seq(S)}
  <2>3. 0 \in Fits
    <3>1. 1 \in 1 .. n /\ f[1] = p[1]
      BY <1>2, <2>2 DEF Flattening
    <3> QED
      BY <3>1
  <2>4. ASSUME NEW i \in Nat, i \in Fits PROVE i + 1 \in Fits
    <3> SUFFICES ASSUME i + 1 < n PROVE f[i + 1 + 1] \in Seq(S)
      OBVIOUS
    <3>1. f[i + 1] \in Seq(S)
      BY <2>4
    <3>2. i + 1 \in Nat \ {0} /\ i + 1 + 1 \in 1 .. n
      OBVIOUS
    <3>3. f[i + 1 + 1] = f[i + 1] \o p[i + 1 + 1]
      BY <2>2, <3>2 DEF Flattening
    <3>4. p[i + 1 + 1] \in Seq(S)
      BY <3>2
    <3> QED
      BY <3>1, <3>3, <3>4, ConcatProperties
  <2>5. Nat \subseteq Fits
    <3> HIDE DEF Fits
    <3> QED
      BY <2>3, <2>4, Induct
  <2>6. n - 1 \in Nat /\ n - 1 < n /\ n - 1 + 1 = n
    BY <1>2
  <2>7. f[n] \in Seq(S)
    BY <2>5, <2>6
  <2> QED
    BY <2>2, <2>7 DEF Flattening
<1> QED
  BY <1>1, <1>2

LEMMA WithoutKeeps ==
  ASSUME NEW S, NEW s \in Seq(S), NEW c, Free(s, c)
  PROVE  Without(s, c) = s
<1>1. PICK n \in Nat : n = Len(s) /\ DOMAIN s = 1 .. n /\ \A i \in 1 .. n : s[i] \in S
  BY LenProperties, ElementOfSeq
<1> DEFINE p == [i \in 1 .. n |-> << s[i] >>]
<1>2. Without(s, c) = FlattenSeq(p)
  <2>1. \A i \in 1 .. n : s[i] # c
    BY <1>1 DEF Free
  <2>2. [i \in DOMAIN s |-> IF s[i] = c THEN << >> ELSE << s[i] >>] = p
    BY <1>1, <2>1
  <2> QED
    BY <2>2, Zenon DEF Without
<1>3. CASE n = 0
  <2>1. p \in Seq(S) /\ Len(p) = 0
    BY <1>3
  <2>2. p = << >> /\ s = << >>
    BY <1>1, <1>3, <2>1, EmptySeq
  <2>3. FlattenSeq(p) = p
    BY <2>1 DEF FlattenSeq
  <2> QED
    BY <1>2, <2>2, <2>3
<1>4. CASE n # 0
  <2>1. Len(p) = n
    OBVIOUS
  <2>2. PICK f : Flattening(f, p, n)
    BY <1>4, <2>1, FlattenFacts
  <2>3. \A i \in 1 .. n : p[i] = << s[i] >>
    OBVIOUS
  <2> HIDE DEF p
  <2> DEFINE Fits == {i \in Nat : i < n => f[i + 1] = SubSeq(s, 1, i + 1)}
  <2>4. ASSUME NEW i \in 1 .. n
        PROVE  /\ SubSeq(s, 1, i) \in Seq(S)
               /\ SubSeq(s, 1, i) = SubSeq(s, 1, i - 1) \o << s[i] >>
    <3>1. 1 \in 1 .. Len(s) /\ i \in 1 .. Len(s)
      BY <1>1, <1>4
    <3>2. SubSeq(s, 1, i) = SubSeq(s, 1, i - 1) \o << s[i] >>
      BY <3>1, SubSeqRecursiveSecond
    <3>3. \A j \in 1 .. i : s[j] \in S
      BY <1>1
    <3>4. SubSeq(s, 1, i) \in Seq(S)
      BY <3>3, SubSeqProperties
    <3> QED
      BY <3>2, <3>4
  <2>5. 0 \in Fits
    <3>1. 1 \in 1 .. n /\ f[1] = << s[1] >>
      BY <1>4, <2>2, <2>3 DEF Flattening
    <3>2. SubSeq(s, 1, 1) = SubSeq(s, 1, 0) \o << s[1] >>
      BY <2>4, <3>1
    <3>3. SubSeq(s, 1, 0) = << >>
      BY SubSeqEmpty
    <3>4. << >> \o << s[1] >> = << s[1] >>
      OBVIOUS
    <3>5. f[0 + 1] = SubSeq(s, 1, 0 + 1)
      BY <3>1, <3>2, <3>3, <3>4
    <3> QED
      BY <3>5
  <2>6. ASSUME NEW i \in Nat, i \in Fits PROVE i + 1 \in Fits
    <3> SUFFICES ASSUME i + 1 < n PROVE f[i + 1 + 1] = SubSeq(s, 1, i + 1 + 1)
      OBVIOUS
    <3>1. PICK j \in Nat \ {0} : j = i + 1
      OBVIOUS
    <3>2. j < n /\ j + 1 \in 1 .. n /\ j + 1 - 1 = j /\ i < n
      BY <3>1
    <3>3. f[j] = SubSeq(s, 1, j)
      <4>1. f[i + 1] = SubSeq(s, 1, i + 1)
        BY <2>6, <3>2
      <4> QED
        BY <3>1, <4>1, Zenon
    <3>4. f[j + 1] = f[j] \o p[j + 1] /\ p[j + 1] = << s[j + 1] >>
      BY <2>2, <2>3, <3>2 DEF Flattening
    <3>5. SubSeq(s, 1, j + 1) = SubSeq(s, 1, j) \o << s[j + 1] >>
      <4>1. PICK h \in 1 .. n : h = j + 1 /\ h - 1 = j
        BY <3>2
      <4>2. SubSeq(s, 1, h) = SubSeq(s, 1, h - 1) \o << s[h] >>
        BY <2>4
      <4> QED
        BY <4>1, <4>2, Zenon
    <3>6. f[j + 1] = SubSeq(s, 1, j + 1)
      BY <3>3, <3>4, <3>5, Zenon
    <3> QED
      BY <3>1, <3>6, Zenon
  <2>7. Nat \subseteq Fits
    <3> HIDE DEF Fits
    <3> QED
      BY <2>5, <2>6, Induct
  <2>8. n - 1 \in Nat /\ n - 1 < n /\ n - 1 + 1 = n
    BY <1>4
  <2>9. f[n] = SubSeq(s, 1, n)
    BY <2>7, <2>8
  <2>10. SubSeq(s, 1, n) = s
    BY <1>1, SubSeqFull
  <2> QED
    BY <1>2, <2>2, <2>9, <2>10 DEF Flattening
<1> QED
  BY <1>3, <1>4

(* Whatever the elements of s are, those of Without(s, c) are but c.        *)
LEMMA WithoutTyped ==
  ASSUME NEW S, NEW s \in Seq(S), NEW c
  PROVE  Without(s, c) \in Seq(S \ {c})
<1>1. PICK n \in Nat : n = Len(s) /\ DOMAIN s = 1 .. n /\ \A i \in 1 .. n : s[i] \in S
  BY LenProperties, ElementOfSeq
<1> DEFINE p == [i \in 1 .. n |-> IF s[i] = c THEN << >> ELSE << s[i] >>]
<1>2. Without(s, c) = FlattenSeq(p)
  BY <1>1 DEF Without
<1>3. ASSUME NEW i \in 1 .. n PROVE p[i] \in Seq(S \ {c})
  <2>1. CASE s[i] = c
    <3>1. p[i] = << >>
      BY <2>1
    <3> QED
      BY <3>1, EmptySeq
  <2>2. CASE s[i] # c
    <3>1. PICK x : x = s[i]
      OBVIOUS
    <3>2. x \in S \ {c} /\ p[i] = << x >>
      BY <1>1, <2>2, <3>1
    <3>3. << x >> \in Seq(S \ {c})
      BY <3>2
    <3> QED
      BY <3>2, <3>3, Zenon
  <2> QED
    BY <2>1, <2>2
<1>4. p = [i \in 1 .. n |-> p[i]]
  OBVIOUS
<1> HIDE DEF p
<1> QED
  BY <1>2, <1>3, <1>4, FlatTyped

LEMMA Extremes ==
  ASSUME NEW n \in Nat, NEW K \in SUBSET (1 .. n), K # {}
  PROVE  /\ Min(K) \in K /\ Max(K) \in K
         /\ \A k \in K : Min(K) <= k /\ k <= Max(K)
<1>1. \E x \in K : \A y \in K : x <= y
  <2>1. K \in SUBSET Nat
    OBVIOUS
  <2> QED
    BY <2>1, Least
<1>2. Min(K) \in K /\ \A k \in K : Min(K) <= k
  BY <1>1, Zenon DEF Min
<1>3. K \in SUBSET (0 .. n)
  OBVIOUS
<1> QED
  BY <1>2, <1>3, Largest

Bare(s, B) == s # << >> => s[1] \notin B /\ s[Len(s)] \notin B
LEMMA TrimBare == ASSUME NEW S, NEW s \in Seq(S), NEW B, Bare(s, B) PROVE Trim(s, B) = s
<1> DEFINE K == {i \in DOMAIN s : s[i] \notin B}
<1>1. PICK n \in Nat : n = Len(s) /\ DOMAIN s = 1 .. n
  BY LenProperties
<1>2. CASE s = << >>
  <2>1. K = {}
    BY <1>2
  <2> QED
    BY <1>2, <2>1 DEF Trim
<1>3. CASE s # << >>
  <2>1. n # 0 /\ 1 \in 1 .. n /\ n \in 1 .. n
    BY <1>1, <1>3, EmptySeq
  <2>2. 1 \in K /\ n \in K /\ K \in SUBSET (1 .. n)
    BY <1>1, <1>3, <2>1 DEF Bare
  <2>3. Trim(s, B) = SubSeq(s, Min(K), Max(K))
    BY <2>2 DEF Trim
  <2> HIDE DEF K
  <2>4. /\ Min(K) \in K /\ Max(K) \in K
        /\ \A k \in K : Min(K) <= k /\ k <= Max(K)
    BY <2>2, Extremes
  <2>5. Min(K) <= 1 /\ n <= Max(K) /\ Min(K) \in 1 .. n /\ Max(K) \in 1 .. n
    BY <2>2, <2>4
  <2>6. Min(K) = 1 /\ Max(K) = n
    BY <2>5
  <2> QED
    BY <1>1, <2>3, <2>6, SubSeqFull
<1> QED
  BY <1>2, <1>3

LEMMA TrimFacts ==
  ASSUME NEW S, NEW s \in Seq(S), NEW B
  PROVE  Trim(s, B) \in Seq(S) /\ Bare(Trim(s, B), B)
<1> DEFINE K == {i \in DOMAIN s : s[i] \notin B}
<1>1. PICK n \in Nat : n = Len(s) /\ DOMAIN s = 1 .. n /\ \A i \in 1 .. n : s[i] \in S
  BY LenProperties, ElementOfSeq
<1>2. CASE K = {}
  <2>1. Trim(s, B) = << >>
    BY <1>2 DEF Trim
  <2> QED
    BY <2>1, EmptySeq DEF Bare
<1>3. CASE K # {}
  <2>1. K \in SUBSET (1 .. n) /\ \A i \in K : s[i] \notin B
    BY <1>1
  <2>2. Trim(s, B) = SubSeq(s, Min(K), Max(K))
    BY <1>3 DEF Trim
  <2> HIDE DEF K
  <2>3. /\ Min(K) \in K /\ Max(K) \in K
        /\ \A k \in K : Min(K) <= k /\ k <= Max(K)
    BY <1>3, <2>1, Extremes
  <2>4. PICK a \in Int, b \in Int : a = Min(K) /\ b = Max(K) /\ a \in 1 .. n /\ b \in 1 .. n /\ a <= b
    <3>1. Min(K) \in 1 .. n /\ Max(K) \in 1 .. n /\ Min(K) <= Max(K)
      BY <2>1, <2>3, Zenon
    <3> QED
      BY <3>1
  <2>5. s[a] \notin B /\ s[b] \notin B
    BY <2>1, <2>3, <2>4
  <2>6. PICK t : t = SubSeq(s, a, b)
    OBVIOUS
  <2>7. \A i \in a .. b : s[i] \in S
    BY <1>1, <2>4
  <2>8. t \in Seq(S) /\ Len(t) = b - a + 1 /\ \A i \in 1 .. b - a + 1 : t[i] = s[a + i - 1]
    BY <2>4, <2>6, <2>7, SubSeqProperties
  <2>9. PICK l \in Int : l = b - a + 1 /\ l >= 1 /\ a + l - 1 = b
    BY <2>4
  <2>10. t[1] = s[a] /\ t[l] = s[b]
    <3>1. 1 \in 1 .. b - a + 1 /\ l \in 1 .. b - a + 1 /\ a + 1 - 1 = a
      <4>1. a \in Int /\ b \in Int /\ l \in Int /\ l = b - a + 1 /\ l >= 1
        BY <2>4, <2>9
      <4>2. a + 1 - 1 = a
        BY <4>1
      <4>3. 1 \in 1 .. l /\ l \in 1 .. l
        BY <4>1
      <4> QED
        BY <4>1, <4>2, <4>3, Zenon
    <3>2. t[1] = s[a + 1 - 1] /\ t[l] = s[a + l - 1]
      BY <2>8, <3>1, Zenon
    <3> QED
      BY <2>9, <3>1, <3>2, Zenon
  <2>11. Bare(t, B)
    BY <2>5, <2>8, <2>9, <2>10 DEF Bare
  <2> QED
    BY <2>2, <2>4, <2>6, <2>8, <2>11
<1> QED
  BY <1>2, <1>3

-----------------------------------------------------------------------------
(* The keys of a row, each once, the last in the order at the end.          *)
LEMMA TextChars == Seq(STRING) \subseteq Seq(Char)
<1>1. STRING \subseteq Char
  BY DEF Char
<1> QED
  BY <1>1, SeqMonotonic

LastOf(D) == {k \in D : \A l \in D : Rank[l] <= Rank[k]}
AreKeys(K, n, D) ==
  /\ n \in Nat /\ K = [k \in 1 .. n |-> K[k]] /\ Len(K) = n
  /\ \A k \in 1 .. n : K[k] \in D /\ K[k] \in Seq(Char)
  /\ \A j, k \in 1 .. n : K[j] = K[k] => j = k
  /\ \A d \in D : \E k \in 1 .. n : d = K[k]
  /\ IF n = 0 THEN LastOf(D) = {} ELSE LastOf(D) = {K[n]}
LEMMA KeysFacts ==
  ASSUME NEW row, DOMAIN row.cells \subseteq DOMAIN Rank, IsFiniteSet(DOMAIN row.cells)
  PROVE  \E n \in Nat : AreKeys(Keys(row), n, DOMAIN row.cells)
<1> DEFINE D == DOMAIN row.cells
           r == [k \in D |-> Rank[k]]
           K == Keys(row)
<1>1. \A k \in D : Rank[k] \in Nat /\ k \in Seq(Char) /\ \A l \in D : Rank[k] = Rank[l] => k = l
  <2>1. Rank \in [DOMAIN Rank -> Nat] /\ DOMAIN Rank \subseteq Seq(STRING)
    BY RankAssumption
  <2>2. \A k, l \in DOMAIN Rank : Rank[k] = Rank[l] => k = l
    BY RankAssumption
  <2> QED
    BY <2>1, <2>2, TextChars
<1> HIDE DEF D
<1>2. IsFiniteSet(D)
  BY DEF D
<1>3. Ordered(D, r)
  BY <1>1, <1>2 DEF Ordered
<1>4. PICK n \in Nat : n = Cardinality(D)
  BY <1>2, FS_CardinalityType
<1>5. \A k \in D : Place(D, r, k) = Cardinality({l \in D : Rank[l] <= Rank[k]})
  <2> SUFFICES ASSUME NEW k \in D PROVE UpTo(D, r, k) = {l \in D : Rank[l] <= Rank[k]}
    BY DEF Place
  <2> QED
    BY DEF UpTo
<1>6. K = [m \in 1 .. n |-> CHOOSE k \in D : Cardinality({l \in D : Rank[l] <= Rank[k]}) = m]
  BY <1>4 DEF Keys, D
<1>7. ASSUME NEW m \in 1 .. n PROVE K[m] \in D /\ Place(D, r, K[m]) = m
  <2>1. \E k \in D : Place(D, r, k) = m
    BY <1>3, <1>4, EveryPlace
  <2>2. \E k \in D : Cardinality({l \in D : Rank[l] <= Rank[k]}) = m
    BY <1>5, <2>1
  <2>3. K[m] = CHOOSE k \in D : Cardinality({l \in D : Rank[l] <= Rank[k]}) = m
    BY <1>6
  <2>4. K[m] \in D /\ Cardinality({l \in D : Rank[l] <= Rank[K[m]]}) = m
    BY <2>2, <2>3, Zenon
  <2> QED
    BY <1>5, <2>4, Zenon
<1>8. K = [m \in 1 .. n |-> K[m]] /\ Len(K) = n
  <2> DEFINE g(m) == CHOOSE k \in D : Cardinality({l \in D : Rank[l] <= Rank[k]}) = m
  <2>1. K = [m \in 1 .. n |-> g(m)]
    BY <1>6
  <2> HIDE DEF K, g
  <2>2. K = [m \in 1 .. n |-> K[m]]
    BY <2>1, Zenon
  <2>3. Len(K) = n
    BY <2>1
  <2> QED
    BY <2>2, <2>3
<1> HIDE DEF r, K
<1>9. \A j, k \in 1 .. n : K[j] = K[k] => j = k
  BY <1>7, Zenon
<1>10. ASSUME NEW d \in D PROVE \E k \in 1 .. n : d = K[k]
  <2>1. PICK k : k = Place(D, r, d)
    OBVIOUS
  <2>2. k \in 1 .. n
    BY <1>3, <1>4, <2>1, PlaceGrows
  <2>3. K[k] \in D /\ Place(D, r, K[k]) = Place(D, r, d)
    BY <1>7, <2>1, <2>2
  <2>4. K[k] = d
    BY <1>3, <2>3, PlaceGrows
  <2> QED
    BY <2>2, <2>4
<1>11. CASE n = 0
  <2>1. D = {}
    BY <1>10, <1>11
  <2>2. LastOf(D) = {}
    BY <2>1 DEF LastOf
  <2> QED
    BY <1>1, <1>7, <1>8, <1>9, <1>10, <1>11, <2>2 DEF AreKeys, D, K
<1>12. CASE n # 0
  <2>1. n \in 1 .. n /\ K[n] \in D /\ Place(D, r, K[n]) = n
    BY <1>7, <1>12
  <2>2. ASSUME NEW l \in D PROVE Rank[l] <= Rank[K[n]]
    <3>1. Place(D, r, l) \in 1 .. n
      BY <1>3, <1>4, PlaceGrows
    <3>2. ~(n < Place(D, r, l))
      BY <3>1
    <3>3. r[K[n]] < r[l] => Place(D, r, K[n]) < Place(D, r, l)
      BY <1>3, <2>1, PlaceGrows
    <3>4. r[K[n]] = Rank[K[n]] /\ r[l] = Rank[l]
      BY <2>1 DEF r
    <3>5. ~(Rank[K[n]] < Rank[l])
      BY <2>1, <3>2, <3>3, <3>4
    <3>6. Rank[K[n]] \in Nat /\ Rank[l] \in Nat
      BY <1>1, <2>1
    <3> QED
      BY <3>5, <3>6
  <2>3. ASSUME NEW k \in D, \A l \in D : Rank[l] <= Rank[k] PROVE k = K[n]
    <3>1. Rank[k] = Rank[K[n]]
      BY <1>1, <2>1, <2>2, <2>3
    <3> QED
      BY <1>1, <2>1, <3>1
  <2>4. LastOf(D) = {K[n]}
    BY <2>1, <2>2, <2>3 DEF LastOf
  <2>5. \A k \in 1 .. n : K[k] \in D /\ K[k] \in Seq(Char)
    BY <1>1, <1>7
  <2> QED
    BY <1>8, <1>9, <1>10, <1>12, <2>4, <2>5 DEF AreKeys, D, K
<1> QED
  BY <1>11, <1>12

-----------------------------------------------------------------------------
(* What a line is loaded as: the cells c under the first m of the keys K.   *)
Fewer(a, b) == IF a <= b THEN a ELSE b
FirstKeys(K, m) == {K[k] : k \in 1 .. m}
LoadedAs(row, K, c, m) ==
  /\ row = Row([key \in FirstKeys(K, m) |-> row.cells[key]])
  /\ \A k \in 1 .. m : row.cells[K[k]] = Parse(Trim(c[k], {Blank}))

LEMMA Shorter == ASSUME NEW a \in Nat, NEW b \in Nat PROVE Min({a, b}) = Fewer(a, b)
<1>1. Min({a, b}) \in {a, b} /\ \A y \in {a, b} : Min({a, b}) <= y
  <2>1. \E x \in {a, b} : \A y \in {a, b} : x <= y
    <3>1. a <= b \/ b <= a
      OBVIOUS
    <3> QED
      BY <3>1
  <2> QED
    BY <2>1, Zenon DEF Min
<1> QED
  BY <1>1 DEF Fewer

LEMMA OnlyOne == ASSUME NEW a \in Nat PROVE Max({a}) = a
<1>1. \E x \in {a} : \A y \in {a} : x >= y
  OBVIOUS
<1>2. Max({a}) \in {a}
  BY <1>1, Zenon DEF Max
<1> QED
  BY <1>2

LEMMA LineLoads ==
  ASSUME NEW H, NEW h \in Nat, Len(H) = h, \A j, k \in 1 .. h : H[j] = H[k] => j = k,
         NEW c, NEW n, IsCells(c, n), \A k \in 1 .. n : Free(c[k], CR)
  PROVE  LoadedAs(Loaded(H, Joined(c)), H, c, Fewer(Shown(c, n), h))
<1> DEFINE line == Joined(c)
           s == Shown(c, n)
           m == Fewer(s, h)
           cells == Pieces(Without(line, CR), Comma)
           At(key) == Max({k \in 1 .. m : H[k] = key})
           f == [key \in {H[k] : k \in 1 .. m} |-> Parse(Trim(cells[At(key)], {Blank}))]
<1>1. line \in Seq(Char) /\ Free(line, CR) /\ Pieces(line, Comma) = [k \in 1 .. s |-> c[k]]
  BY CellsReturn, CharFacts DEF GivesCells, GivesPieces
<1>2. Without(line, CR) = line
  BY <1>1, WithoutKeeps
<1>3. s \in Nat /\ m \in Nat /\ m <= s /\ m <= h
  BY DEF IsCells, Shown, Fewer
<1> HIDE DEF s, line
<1>4. cells = [k \in 1 .. s |-> c[k]]
  BY <1>1, <1>2
<1> HIDE DEF cells
<1>5. Len(cells) = s
  BY <1>3, <1>4
<1>6. Min({Len(cells), Len(H)}) = m
  BY <1>3, <1>5, Shorter
<1> HIDE DEF m
<1>7. Loaded(H, line) = Row(f)
  BY <1>6, Zenon DEF Loaded, Cells, cells
<1>8. ASSUME NEW k \in 1 .. m PROVE f[H[k]] = Parse(Trim(c[k], {Blank}))
  <2>1. \A j \in 1 .. m : H[j] = H[k] => j = k
    BY <1>3
  <2>2. {j \in 1 .. m : H[j] = H[k]} = {k} /\ k \in Nat
    BY <1>3, <2>1
  <2>3. At(H[k]) = k
    BY <2>2, OnlyOne
  <2>4. cells[k] = c[k]
    BY <1>3, <1>4
  <2>5. f[H[k]] = Parse(Trim(cells[At(H[k])], {Blank}))
    OBVIOUS
  <2> QED
    BY <2>3, <2>4, <2>5
<1> HIDE DEF f
<1>9. Loaded(H, line).cells = f
  BY <1>7 DEF Row
<1>10. f = [key \in {H[k] : k \in 1 .. m} |-> f[key]]
  BY DEF f
<1>11. LoadedAs(Loaded(H, line), H, c, m)
  BY <1>7, <1>8, <1>9, <1>10, Zenon DEF LoadedAs, FirstKeys
<1> QED
  BY <1>11 DEF line, m, s

(* The header.                                                              *)
LEMMA HeaderReads ==
  ASSUME NEW K, NEW n, IsCells(K, n), \A k \in 1 .. n : Bare(K[k], {Blank, CR})
  PROVE  Headers(Joined(K)) = [k \in 1 .. Shown(K, n) |-> K[k]]
<1> DEFINE s == Shown(K, n)
           h == Pieces(Joined(K), Comma)
<1>1. h = [k \in 1 .. s |-> K[k]]
  BY CellsReturn DEF GivesCells, GivesPieces
<1>2. s \in Nat /\ s <= n /\ n \in Nat
  BY DEF IsCells, Shown
<1> HIDE DEF h, s
<1>3. \A k \in 1 .. s : Trim(h[k], {Blank, CR}) = K[k]
  <2> SUFFICES ASSUME NEW k \in 1 .. s PROVE Trim(h[k], {Blank, CR}) = K[k]
    OBVIOUS
  <2>1. k \in 1 .. n /\ h[k] = K[k]
    BY <1>1, <1>2
  <2> QED
    BY <2>1, TrimBare DEF IsCells
<1>4. [k \in DOMAIN h |-> Trim(h[k], {Blank, CR})] = [k \in 1 .. s |-> K[k]]
  <2>1. DOMAIN h = 1 .. s
    BY <1>1
  <2> QED
    BY <1>3, <2>1
<1> QED
  BY <1>4, Zenon DEF Headers, h, s

-----------------------------------------------------------------------------
(* A table whose keys and texts go into a line.                             *)
IsText(text) == text \in Seq(Char) /\ Free(text, Comma) /\ Free(text, NewLine)
TextIn(row, key) == IF key \in DOMAIN row.cells THEN row.cells[key].text ELSE << >>
Columns(K, n, row) == [k \in 1 .. n |-> TextIn(row, K[k])]
Printable(table) ==
  /\ \A i \in DOMAIN table : table[i].object
  /\ \A key \in DOMAIN table[1].cells :
       /\ IsText(key) /\ Bare(key, {Blank, CR})
       /\ \A i \in DOMAIN table : IsText(TextIn(table[i], key)) /\ Free(TextIn(table[i], key), CR)

LEMMA RowPrinted ==
  ASSUME NEW K, NEW n, NEW D, AreKeys(K, n, D), NEW row, \A key \in D : IsText(TextIn(row, key))
  PROVE  /\ IsCells(Columns(K, n, row), n) /\ Printed(K, row) = Joined(Columns(K, n, row))
         /\ Printed(K, row) \in Seq(Char) /\ Free(Printed(K, row), NewLine)
<1> DEFINE c == Columns(K, n, row)
<1>1. n \in Nat /\ DOMAIN K = 1 .. n /\ \A k \in 1 .. n : K[k] \in D
  BY Zenon DEF AreKeys
<1>2. c = [k \in 1 .. n |-> TextIn(row, K[k])] /\ \A k \in 1 .. n : c[k] = TextIn(row, K[k])
  BY DEF Columns
<1>3. Printed(K, row) = Joined(c)
  BY <1>1, <1>2, Zenon DEF Printed, TextIn
<1> HIDE DEF c
<1>4. \A k \in 1 .. n : IsText(c[k])
  BY <1>1, <1>2, Zenon
<1>5. c = [k \in 1 .. n |-> c[k]]
  BY <1>2, Zenon
<1>6. Len(c) = n
  BY <1>1, <1>5
<1>7. IsCells(c, n)
  BY <1>1, <1>4, <1>5, <1>6 DEF IsCells, IsText
<1>8. GivesCells(c, n)
  BY <1>7, CellsReturn
<1>9. Joined(c) \in Seq(Char) /\ Free(Joined(c), NewLine)
  BY <1>4, <1>8, CharFacts DEF GivesCells, IsText
<1> QED
  BY <1>3, <1>7, <1>9 DEF c

(* The lines of a table: its keys and its rows.                             *)
LineOf(table, K, i) == IF i = 1 THEN Joined(K) ELSE Printed(K, table[i - 1])
Lines(table, K) == [i \in 1 .. Len(table) + 1 |-> LineOf(table, K, i)]
AreLinesOf(table, K, q, n) ==
  q = [i \in 1 .. n + 1 |-> LineOf(table, K, i)] /\ to_csv(table) = TextOfLines(q, n + 1)
LEMMA LinesOfTable ==
  ASSUME NEW table, NEW n \in Nat, table = [i \in 1 .. n |-> table[i]], Len(table) = n,
         \A i \in 1 .. n : table[i].object,
         NEW K, K = Keys(table[1])
  PROVE  AreLinesOf(table, K, Lines(table, K), n)
<1> DEFINE q == Lines(table, K)
           Rows == [k \in DOMAIN table |->
                 IF table[k].object THEN Printed(K, table[k]) \o << NewLine >> ELSE << >>]
           p == [k \in 1 .. (n + 1) - 1 |-> q[k + 1] \o << NewLine >>]
<1>1. DOMAIN table = 1 .. n
  OBVIOUS
<1>2. q = [i \in 1 .. n + 1 |-> LineOf(table, K, i)]
  BY DEF Lines
<1>3. to_csv(table) = Joined(K) \o << NewLine >> \o FlattenSeq(Rows)
  BY Zenon DEF to_csv
<1> HIDE DEF q
<1>4. \A k \in 1 .. n : q[k + 1] = Printed(K, table[k])
  <2> SUFFICES ASSUME NEW k \in 1 .. n PROVE q[k + 1] = Printed(K, table[k])
    OBVIOUS
  <2>1. PICK j : j = k + 1
    OBVIOUS
  <2>2. j \in 1 .. n + 1 /\ j # 1 /\ j - 1 = k
    BY <2>1
  <2>3. q[j] = LineOf(table, K, j)
    BY <1>2, <2>2, Zenon
  <2>4. q[j] = Printed(K, table[k])
    BY <2>2, <2>3, Zenon DEF LineOf
  <2> QED
    BY <2>1, <2>4, Zenon
<1>5. q[1] = Joined(K)
  BY <1>2 DEF LineOf
<1>6. (n + 1) - 1 = n
  OBVIOUS
<1>7. Rows = p
  <2>1. \A k \in 1 .. n : (IF table[k].object THEN Printed(K, table[k]) \o << NewLine >> ELSE << >>)
                           = q[k + 1] \o << NewLine >>
    BY <1>4, Zenon
  <2>2. Rows = [k \in 1 .. n |-> q[k + 1] \o << NewLine >>]
    BY <1>1, <2>1, Zenon
  <2> QED
    BY <1>6, <2>2, Zenon
<1> HIDE DEF Rows, p
<1>8. to_csv(table) = (q[1] \o << NewLine >>) \o FlattenSeq(p)
  BY <1>3, <1>5, <1>7, Zenon
<1> QED
  BY <1>2, <1>8, Zenon DEF AreLinesOf, TextOfLines, p, q

-----------------------------------------------------------------------------
(* What a table with a printable header loads as.                           *)
Width(table, K, n, i) == Fewer(Shown(Columns(K, n, table[i]), n), Shown(K, n))
LoadsAs(table, rows, K, n) ==
  /\ AreKeys(K, n, DOMAIN table[1].cells)
  /\ rows = [i \in 1 .. Len(table) |-> rows[i]]
  /\ \A i \in 1 .. Len(table) : LoadedAs(rows[i], K, Columns(K, n, table[i]), Width(table, K, n, i))

LEMMA TableLoads ==
  ASSUME NEW table, IsTable(table), table # << >>, Printable(table)
  PROVE  /\ \E n \in Nat : LoadsAs(table, from_csv(to_csv(table)), Keys(table[1]), n)
         /\ IsTextOf(to_csv(table), Lines(table, Keys(table[1])), Len(table) + 1)
<1>1. PICK N : N = Len(table)
  OBVIOUS
<1>2. table \in Seq(Range(table))
  BY DEF IsTable
<1>3. N \in Nat /\ N > 0 /\ DOMAIN table = 1 .. N /\ table = [i \in 1 .. N |-> table[i]]
  BY <1>1, <1>2
<1>4. 1 \in 1 .. N
  BY <1>3
<1>5. \A i \in 1 .. N : table[i].object
  BY <1>3, Zenon DEF Printable
<1>6. IsRow(table[1]) /\ table[1] # NotObject
  <2>1. IsRow(table[1]) /\ table[1].object
    BY <1>3, <1>4, <1>5 DEF IsTable
  <2> QED
    BY <2>1 DEF NotObject
<1> DEFINE D == DOMAIN table[1].cells
<1>7. D \subseteq DOMAIN Rank /\ IsFiniteSet(D)
  BY <1>6 DEF IsRow
<1>8. PICK K : K = Keys(table[1])
  OBVIOUS
<1>9. PICK n \in Nat : AreKeys(K, n, D)
  BY <1>7, <1>8, KeysFacts
<1>10. \A key \in D : /\ IsText(key) /\ Bare(key, {Blank, CR})
                      /\ \A i \in 1 .. N : IsText(TextIn(table[i], key)) /\ Free(TextIn(table[i], key), CR)
  BY <1>3, Zenon DEF Printable
<1> HIDE DEF D
<1>11. n \in Nat /\ K = [k \in 1 .. n |-> K[k]] /\ Len(K) = n
  BY <1>9, Zenon DEF AreKeys
<1>12. \A k \in 1 .. n : K[k] \in D
  BY <1>9, Zenon DEF AreKeys
<1>13. IsCells(K, n)
  <2>1. \A k \in 1 .. n : K[k] \in Seq(Char) /\ Free(K[k], Comma)
    BY <1>10, <1>12, Zenon DEF IsText
  <2> QED
    BY <1>11, <2>1, Zenon DEF IsCells
<1>14. Joined(K) \in Seq(Char) /\ Free(Joined(K), NewLine)
  <2>1. GivesCells(K, n)
    BY <1>13, CellsReturn
  <2>2. \A k \in 1 .. n : Free(K[k], NewLine)
    BY <1>10, <1>12, Zenon DEF IsText
  <2> QED
    BY <2>1, <2>2, CharFacts DEF GivesCells
<1>15. ASSUME NEW i \in 1 .. N
       PROVE  /\ IsCells(Columns(K, n, table[i]), n) /\ Printed(K, table[i]) = Joined(Columns(K, n, table[i]))
              /\ Printed(K, table[i]) \in Seq(Char) /\ Free(Printed(K, table[i]), NewLine)
  <2>1. \A key \in D : IsText(TextIn(table[i], key))
    BY <1>10, Zenon
  <2> QED
    BY <1>9, <2>1, RowPrinted
<1>16. PICK q : q = Lines(table, K)
  OBVIOUS
<1>17. AreLinesOf(table, K, q, N)
  BY <1>1, <1>3, <1>5, <1>8, <1>16, LinesOfTable, Zenon
<1>18. PICK M : M = N + 1
  OBVIOUS
<1>19. M \in Nat /\ M > 1 /\ M # 0 /\ M - 1 = N /\ 1 \in 1 .. M
  BY <1>3, <1>18
<1>20. q = [i \in 1 .. M |-> LineOf(table, K, i)] /\ to_csv(table) = TextOfLines(q, M)
  BY <1>17, <1>18, Zenon DEF AreLinesOf
<1>21. q[1] = Joined(K)
  BY <1>19, <1>20, Zenon DEF LineOf
<1>22. \A i \in 1 .. N : i + 1 \in 1 .. M /\ i + 1 # 1 /\ (i + 1) - 1 = i
  BY <1>18, <1>3
<1>23. ASSUME NEW i \in 1 .. N PROVE q[i + 1] = Printed(K, table[i])
  <2>1. PICK j : j = i + 1
    OBVIOUS
  <2>2. j \in 1 .. M /\ j # 1 /\ j - 1 = i
    BY <1>22, <2>1
  <2>3. q[j] = LineOf(table, K, j)
    BY <1>20, <2>2, Zenon
  <2>4. q[j] = Printed(K, table[i])
    BY <2>2, <2>3, Zenon DEF LineOf
  <2> QED
    BY <2>1, <2>4, Zenon
<1>24. AreLines(q, M)
  <2>1. ASSUME NEW k \in 1 .. M, k # 1 PROVE q[k] \in Seq(Char) /\ Free(q[k], NewLine)
    <3>1. k - 1 \in 1 .. N
      BY <1>18, <1>19, <2>1
    <3>2. q[k] = LineOf(table, K, k)
      BY <1>20, <2>1, Zenon
    <3>3. q[k] = Printed(K, table[k - 1])
      BY <2>1, <3>2, Zenon DEF LineOf
    <3> QED
      BY <1>15, <3>1, <3>3, Zenon
  <2>2. q[1] \in Seq(Char) /\ Free(q[1], NewLine)
    BY <1>14, <1>21, Zenon
  <2>3. \A k \in 1 .. M : q[k] \in Seq(Char) /\ Free(q[k], NewLine)
    BY <2>1, <2>2, Zenon
  <2>4. M \in Nat \ {0}
    BY <1>19
  <2> QED
    BY <2>3, <2>4, Zenon DEF AreLines
<1>25. IsTextOf(to_csv(table), q, M)
  BY <1>19, <1>20, <1>24, LinesReturn
<1>26. Pieces(to_csv(table), NewLine) = [k \in 1 .. M |-> q[k]] /\ to_csv(table) # << >>
  BY <1>25 DEF IsTextOf, GivesPieces
<1>27. PICK lines : lines = Pieces(to_csv(table), NewLine)
  OBVIOUS
<1>28. Len(lines) = M
  BY <1>19, <1>26, <1>27
<1>29. lines[1] = q[1] /\ \A i \in 1 .. N : lines[i + 1] = q[i + 1]
  BY <1>19, <1>22, <1>26, <1>27
<1>30. PICK H : H = Headers(Joined(K))
  OBVIOUS
<1>31. PICK h \in Nat : h = Shown(K, n) /\ h <= n
  BY DEF Shown
<1>32. H = [k \in 1 .. h |-> K[k]]
  <2>1. \A k \in 1 .. n : Bare(K[k], {Blank, CR})
    BY <1>10, <1>12, Zenon
  <2> QED
    BY <1>13, <1>30, <1>31, <2>1, HeaderReads
<1>33. Len(H) = h /\ \A j \in 1 .. h : H[j] = K[j]
  BY <1>32
<1>34. \A j, k \in 1 .. h : H[j] = H[k] => j = k
  <2>1. \A j, k \in 1 .. n : K[j] = K[k] => j = k
    BY <1>9, Zenon DEF AreKeys
  <2>2. \A j \in 1 .. h : j \in 1 .. n
    BY <1>31
  <2> QED
    BY <1>33, <2>1, <2>2
<1>35. PICK rows : rows = from_csv(to_csv(table))
  OBVIOUS
<1>36. rows = [k \in 1 .. N |-> Loaded(H, lines[k + 1])]
  <2>1. rows = [k \in 1 .. Len(lines) - 1 |-> Loaded(Headers(lines[1]), lines[k + 1])]
    BY <1>26, <1>27, <1>35, Zenon DEF from_csv
  <2>2. Len(lines) - 1 = N
    BY <1>19, <1>28
  <2>3. Headers(lines[1]) = H
    BY <1>21, <1>29, <1>30, Zenon
  <2> QED
    BY <2>1, <2>2, <2>3, Zenon
<1>37. ASSUME NEW i \in 1 .. N
       PROVE  LoadedAs(rows[i], K, Columns(K, n, table[i]), Fewer(Shown(Columns(K, n, table[i]), n), h))
  <2>1. PICK c : c = Columns(K, n, table[i])
    OBVIOUS
  <2>2. rows[i] = Loaded(H, Joined(c))
    BY <1>15, <1>23, <1>29, <1>36, <2>1, Zenon
  <2>3. IsCells(c, n)
    BY <1>15, <2>1, Zenon
  <2>4. \A k \in 1 .. n : Free(c[k], CR)
    <3>1. \A k \in 1 .. n : c[k] = TextIn(table[i], K[k])
      BY <2>1, Zenon DEF Columns
    <3> QED
      BY <1>10, <1>12, <3>1, Zenon
  <2>5. PICK m : m = Fewer(Shown(c, n), h)
    OBVIOUS
  <2>6. LoadedAs(Loaded(H, Joined(c)), H, c, m)
    BY <1>33, <1>34, <2>3, <2>4, <2>5, LineLoads
  <2>7. \A k \in 1 .. m : k \in 1 .. h
    BY <1>11, <1>31, <2>5 DEF Fewer, Shown
  <2>8. \A k \in 1 .. m : H[k] = K[k]
    BY <1>33, <2>7
  <2>9. FirstKeys(H, m) = FirstKeys(K, m)
    BY <2>8 DEF FirstKeys
  <2>10. LoadedAs(rows[i], K, c, m)
    BY <2>2, <2>6, <2>8, <2>9, Zenon DEF LoadedAs
  <2> QED
    BY <2>1, <2>5, <2>10, Zenon
<1>38. rows = [i \in 1 .. N |-> rows[i]]
  <2> DEFINE g(k) == Loaded(H, lines[k + 1])
  <2>1. rows = [k \in 1 .. N |-> g(k)]
    BY <1>36, Zenon
  <2> HIDE DEF g
  <2> QED
    BY <2>1, Zenon
<1>39. LoadsAs(table, rows, K, n)
  BY <1>1, <1>9, <1>31, <1>37, <1>38, Zenon DEF LoadsAs, Width, D
<1> QED
  BY <1>1, <1>8, <1>16, <1>18, <1>25, <1>35, <1>39, Zenon

-----------------------------------------------------------------------------
(* The spelling of a number is read as that number, and goes into a line.   *)
LEMMA NumeralFacts ==
  ASSUME NEW s \in Seq(Char), IsNumeral(s)
  PROVE  /\ s # << >> /\ s # << Word >> /\ Numeral(s) = s
         /\ Bare(s, {Blank}) /\ IsText(s) /\ Free(s, CR)
<1>1. PICK n \in Nat : n = Len(s) /\ DOMAIN s = 1 .. n /\ SubSeq(s, 1, n) = s
  BY LenProperties, WholeText
<1>2. \A i \in 1 .. n : s[i] \in {Digit, Point, Exp, Sign}
  BY <1>1 DEF IsNumeral, Range
<1>3. n # 0
  BY <1>1 DEF IsNumeral
<1>4. 1 \in 1 .. n /\ n \in 1 .. n
  BY <1>3
<1>5. s # << >>
  BY <1>1, <1>3, EmptySeq
<1>6. s # << Word >>
  <2>1. << Word >>[1] = Word
    OBVIOUS
  <2> QED
    BY <1>2, <1>4, <2>1, CharFacts
<1>7. Numeral(s) = s
  <2> DEFINE K == {m \in 0 .. Len(s) : IsNumeral(SubSeq(s, 1, m))}
  <2>1. n \in K /\ K \in SUBSET (0 .. n)
    <3>1. IsNumeral(SubSeq(s, 1, n))
      BY <1>1, Zenon
    <3>2. n \in 0 .. Len(s) /\ 0 .. Len(s) = 0 .. n
      BY <1>1
    <3> QED
      BY <3>1, <3>2, Zenon
  <2>2. Numeral(s) = SubSeq(s, 1, IF K = {} THEN 0 ELSE Max(K))
    BY Zenon DEF Numeral
  <2> HIDE DEF K
  <2>3. Max(K) \in 0 .. n /\ n <= Max(K)
    BY <2>1, Largest
  <2>4. Max(K) = n
    BY <2>3
  <2> QED
    BY <1>1, <2>1, <2>2, <2>4
<1>8. Bare(s, {Blank})
  BY <1>1, <1>2, <1>4, CharFacts DEF Bare
<1>9. IsText(s) /\ Free(s, CR)
  BY <1>1, <1>2, CharFacts DEF IsText, Free
<1> QED
  BY <1>5, <1>6, <1>7, <1>8, <1>9

(* So does what a number prints as.                                         *)
LEMMA NumbersFacts ==
  ASSUME NEW cell, NEW number \in DOMAIN Numbers(cell)
  PROVE  IsText(Numbers(cell)[number]) /\ Free(Numbers(cell)[number], CR)
<1>1. PICK numbers \in {Longs, Doubles} : numbers = Numbers(cell)
  BY DEF Numbers
<1>2. numbers[number] \in Seq(STRING) /\ IsNumeral(numbers[number])
  BY <1>1, NumbersAssumption
<1>3. numbers[number] \in Seq(Char)
  BY <1>2, TextChars
<1> QED
  BY <1>1, <1>2, <1>3, NumeralFacts

(* A value that a cell is read as is the value that was printed.            *)
LEMMA PlainText ==
  ASSUME NEW s \in Seq(Char), Free(s, Comma), Free(s, NewLine), Free(s, CR)
  PROVE  Range(s) \cap {Comma, NewLine, CR} = {}
BY DEF Range, Free

Returns(v) == Parse(Trim(v.text, {Blank})) = v <=> PlainValue(v)
LEMMA ValueReturns ==
  ASSUME NEW v, IsValue(v), IsText(v.text), Free(v.text, CR)
  PROVE  Returns(v)
<1> DEFINE s == v.text
           w == Trim(s, {Blank})
<1>1. v \in [kind : {"string", "number", "bool", "null"}, text : Seq(STRING)]
  BY DEF IsValue
<1>2. v = Value(v.kind, s) /\ v.kind \in {"string", "number", "bool", "null"}
  BY <1>1 DEF Value
<1>3. \A a, b, x, y : Value(a, x) = Value(b, y) => a = b /\ x = y
  BY DEF Value
<1>4. s \in Seq(Char) /\ Free(s, Comma) /\ Free(s, NewLine) /\ Free(s, CR)
  BY DEF IsText
<1>5. w \in Seq(Char) /\ Bare(w, {Blank})
  BY <1>4, TrimFacts
<1>6. v.kind = "number" => s # << Word >> /\ Numeral(s) = s /\ w = s
  <2>1. v.kind = "number" => IsNumeral(s)
    BY DEF IsValue
  <2> QED
    BY <1>4, <2>1, NumeralFacts, TrimBare
<1>7. v.kind = "bool" => s = << Word >> /\ w = s
  <2>1. v.kind = "bool" => s = << Word >>
    BY DEF IsValue
  <2>2. Bare(<< Word >>, {Blank})
    BY CharFacts DEF Bare
  <2> QED
    BY <1>4, <2>1, <2>2, TrimBare
<1>8. Range(s) \cap {Comma, NewLine, CR} = {}
  BY <1>4, PlainText
<1> DEFINE Narrow(x) == Numeral(x) \in DOMAIN Numbers(x)
<1>9. Parse(w) = IF w = << Word >> THEN Value("bool", w)
                 ELSE IF Narrow(w) THEN Value("number", Numbers(w)[Numeral(w)]) ELSE Value("string", w)
  BY Zenon DEF Parse
<1>10. PlainString(s) <=> w = s /\ s # << Word >> /\ ~Narrow(s)
  BY <1>8, Zenon DEF PlainString
<1> HIDE DEF s, w, Narrow
<1>11. CASE v.kind = "string"
  <2>1. PlainValue(v) <=> PlainString(s)
    BY <1>11 DEF PlainValue, s
  <2>2. ASSUME PlainString(s) PROVE Parse(w) = v
    BY <1>2, <1>9, <1>10, <1>11, <2>2
  <2>3. ASSUME Parse(w) = v PROVE PlainString(s)
    <3>1. Parse(w) = Value("string", s)
      BY <1>2, <1>11, <2>3
    <3>2. w # << Word >> /\ ~Narrow(w)
      BY <1>3, <1>9, <3>1
    <3>3. w = s
      BY <1>3, <1>9, <3>1, <3>2
    <3> QED
      BY <1>10, <3>2, <3>3
  <2> QED
    BY <2>1, <2>2, <2>3 DEF Returns, s, w
<1>12. CASE v.kind = "number"
  <2>1. PlainValue(v) <=> Narrow(s) /\ Numbers(s)[s] = s
    BY <1>6, <1>12 DEF PlainValue, Narrow, s
  <2>2. Parse(w) = v <=> Narrow(s) /\ Numbers(s)[s] = s
    <3>1. s # << Word >> /\ Numeral(s) = s /\ w = s /\ v = Value("number", s)
      BY <1>2, <1>6, <1>12
    <3> QED
      BY <1>3, <1>9, <3>1
  <2> QED
    BY <2>1, <2>2 DEF Returns, s, w
<1>13. CASE v.kind = "bool"
  <2>1. PlainValue(v)
    BY <1>13 DEF PlainValue
  <2>2. Parse(w) = v
    BY <1>2, <1>7, <1>9, <1>13
  <2> QED
    BY <2>1, <2>2 DEF Returns, s, w
<1>14. CASE v.kind = "null"
  <2>1. ~PlainValue(v)
    BY <1>14 DEF PlainValue
  <2>2. Parse(w) # v
    BY <1>2, <1>3, <1>9, <1>14
  <2> QED
    BY <2>1, <2>2 DEF Returns, s, w
<1> QED
  BY <1>2, <1>11, <1>12, <1>13, <1>14

(* A cell of a line is read as a text that goes into a line.                *)
LEMMA CellIsText ==
  ASSUME NEW s, IsText(s), Free(s, CR)
  PROVE  IsText(Parse(Trim(s, {Blank})).text) /\ Free(Parse(Trim(s, {Blank})).text, CR)
<1> DEFINE S == {c \in Char : c \notin {Comma, NewLine, CR}}
           w == Trim(s, {Blank})
<1>1. \A t \in Seq(S) : IsText(t) /\ Free(t, CR)
  <2> SUFFICES ASSUME NEW t \in Seq(S) PROVE IsText(t) /\ Free(t, CR)
    OBVIOUS
  <2>1. \A i \in DOMAIN t : t[i] \in S
    OBVIOUS
  <2>2. Free(t, Comma) /\ Free(t, NewLine) /\ Free(t, CR)
    BY <2>1 DEF Free
  <2>3. t \in Seq(Char)
    BY SeqMonotonic
  <2> QED
    BY <2>2, <2>3 DEF IsText
<1>2. s \in Seq(S)
  <2>1. s \in Seq(Char)
    BY DEF IsText
  <2>2. PICK n \in Nat : n = Len(s) /\ DOMAIN s = 1 .. n
    BY <2>1, LenProperties
  <2>3. \A i \in 1 .. n : s[i] \in S
    BY <2>1, <2>2 DEF IsText, Free
  <2> QED
    BY <2>1, <2>2, <2>3
<1> HIDE DEF S
<1>3. w \in Seq(S)
  BY <1>2, TrimFacts
<1> HIDE DEF w
<1>4. \/ Parse(w).text = w
      \/ Numeral(w) \in DOMAIN Numbers(w) /\ Parse(w).text = Numbers(w)[Numeral(w)]
  BY Zenon DEF Parse, Value
<1> QED
  BY <1>1, <1>3, <1>4, NumbersFacts, Zenon DEF w

-----------------------------------------------------------------------------
(* A plain table is printable.                                              *)
LEMMA NoText == IsText(<< >>) /\ Free(<< >>, CR)
<1>1. << >> \in Seq(Char) /\ DOMAIN << >> = {}
  BY EmptySeq
<1> QED
  BY <1>1 DEF IsText, Free

LEMMA PlainValueIsText ==
  ASSUME NEW v, IsValue(v), PlainValue(v)
  PROVE  IsText(v.text) /\ Free(v.text, CR)
<1> DEFINE s == v.text
<1>1. v \in [kind : {"string", "number", "bool", "null"}, text : Seq(STRING)]
  BY DEF IsValue
<1>2. s \in Seq(Char)
  BY <1>1, TextChars
<1>3. CASE v.kind = "string"
  <2>1. Range(s) \cap {Comma, NewLine, CR} = {}
    BY <1>3 DEF PlainValue, PlainString
  <2>2. \A i \in DOMAIN s : s[i] \notin {Comma, NewLine, CR}
    BY <2>1 DEF Range
  <2> QED
    BY <1>2, <2>2 DEF IsText, Free
<1>4. CASE v.kind = "number"
  <2>1. IsNumeral(s)
    BY <1>4 DEF IsValue
  <2> QED
    BY <1>2, <2>1, NumeralFacts
<1>5. CASE v.kind = "bool"
  <2>1. s = << Word >>
    BY <1>5 DEF IsValue
  <2>2. DOMAIN << Word >> = {1} /\ << Word >>[1] = Word
    OBVIOUS
  <2> QED
    BY <1>2, <2>1, <2>2, CharFacts DEF IsText, Free
<1>6. CASE v.kind = "null"
  BY <1>6 DEF PlainValue
<1> QED
  BY <1>1, <1>3, <1>4, <1>5, <1>6

LEMMA PlainPrints ==
  ASSUME NEW table, IsTable(table), table # << >>, Plain(table)
  PROVE  Printable(table)
<1>1. table \in Seq(Range(table)) /\ \A i \in DOMAIN table : IsRow(table[i])
  BY DEF IsTable
<1>2. 1 \in DOMAIN table
  BY <1>1
<1> DEFINE D == DOMAIN table[1].cells
<1>3. \A i \in DOMAIN table :
        /\ table[i].object
        /\ \A key \in DOMAIN table[i].cells :
             /\ PlainValue(table[i].cells[key])
             /\ Trim(key, {Blank, CR}) = key /\ Range(key) \cap {Comma, NewLine} = {}
  BY Zenon DEF Plain
<1>4. ASSUME NEW i \in DOMAIN table
      PROVE  /\ DOMAIN table[i].cells \subseteq DOMAIN Rank
             /\ \A key \in DOMAIN table[i].cells : IsValue(table[i].cells[key])
  <2>1. IsRow(table[i]) /\ table[i].object
    BY <1>1, <1>3
  <2>2. table[i] # NotObject
    BY <2>1 DEF NotObject
  <2> QED
    BY <2>1, <2>2 DEF IsRow
<1>5. ASSUME NEW key \in D PROVE IsText(key) /\ Bare(key, {Blank, CR})
  <2>1. key \in Seq(Char)
    <3>1. key \in Seq(STRING)
      BY <1>2, <1>4, RankAssumption
    <3> QED
      BY <3>1, TextChars
  <2>2. Trim(key, {Blank, CR}) = key /\ Range(key) \cap {Comma, NewLine} = {}
    BY <1>2, <1>3
  <2>3. Bare(key, {Blank, CR})
    BY <2>1, <2>2, TrimFacts
  <2>4. Free(key, Comma) /\ Free(key, NewLine)
    BY <2>2 DEF Free, Range
  <2> QED
    BY <2>1, <2>3, <2>4 DEF IsText
<1>6. ASSUME NEW key \in D, NEW i \in DOMAIN table
      PROVE  IsText(TextIn(table[i], key)) /\ Free(TextIn(table[i], key), CR)
  <2>1. CASE key \in DOMAIN table[i].cells
    <3>1. IsValue(table[i].cells[key]) /\ PlainValue(table[i].cells[key])
      BY <1>3, <1>4, <2>1
    <3>2. TextIn(table[i], key) = table[i].cells[key].text
      BY <2>1 DEF TextIn
    <3> QED
      BY <3>1, <3>2, PlainValueIsText
  <2>2. CASE key \notin DOMAIN table[i].cells
    <3>1. TextIn(table[i], key) = << >>
      BY <2>2 DEF TextIn
    <3> QED
      BY <3>1, NoText
  <2> QED
    BY <2>1, <2>2
<1> QED
  BY <1>3, <1>5, <1>6, Zenon DEF Printable

(* A loaded row is printable, whatever it was loaded from.                  *)
IsKey(key) == IsText(key) /\ Bare(key, {Blank, CR})
RowIsText(row) ==
  /\ row.object
  /\ \A key \in DOMAIN row.cells : IsKey(key) /\ IsText(row.cells[key].text) /\ Free(row.cells[key].text, CR)
LEMMA LoadedIsText ==
  ASSUME NEW H, NEW h \in Nat, Len(H) = h, \A k \in 1 .. h : IsKey(H[k]),
         NEW line \in Seq(Char), Free(line, NewLine)
  PROVE  RowIsText(Loaded(H, line))
<1> DEFINE w == Without(line, CR)
           cells == Pieces(w, Comma)
           n == Min({Len(cells), Len(H)})
           At(key) == Max({k \in 1 .. n : H[k] = key})
           f == [key \in {H[k] : k \in 1 .. n} |-> Parse(Trim(cells[At(key)], {Blank}))]
           S == {c \in Char : c # NewLine /\ c # CR}
<1>1. Loaded(H, line) = Row(f)
  BY Zenon DEF Loaded, Cells
<1>2. w \in Seq(S)
  <2>1. PICK l \in Nat : l = Len(line) /\ \A i \in 1 .. l : line[i] \in Char \ {NewLine}
    BY LenProperties, ElementOfSeq DEF Free
  <2>2. line \in Seq(Char \ {NewLine})
    BY <2>1
  <2>3. w \in Seq((Char \ {NewLine}) \ {CR})
    BY <2>2, WithoutTyped
  <2>4. (Char \ {NewLine}) \ {CR} = S
    OBVIOUS
  <2> QED
    BY <2>3, <2>4, Zenon
<1> HIDE DEF w, S
<1>3. PICK m \in Nat : ArePieces(S, w, Comma, m)
  BY <1>2, PieceFacts
<1>4. cells = [k \in 1 .. m |-> cells[k]] /\ \A k \in 1 .. m : IsPiece(S, w, Comma, cells[k])
  BY <1>3, Zenon DEF ArePieces
<1> HIDE DEF cells
<1>5. Len(cells) = m
  BY <1>4
<1>6. n \in Nat /\ n <= m /\ n <= h
  <2>1. n = Fewer(m, h)
    BY <1>5, Shorter
  <2> QED
    BY <2>1 DEF Fewer
<1> HIDE DEF n
<1>7. \A k \in 1 .. m : IsText(cells[k]) /\ Free(cells[k], CR)
  <2> SUFFICES ASSUME NEW k \in 1 .. m PROVE IsText(cells[k]) /\ Free(cells[k], CR)
    OBVIOUS
  <2>1. cells[k] \in Seq(S) /\ Free(cells[k], Comma)
    BY <1>4 DEF IsPiece, Free
  <2>2. \A i \in DOMAIN cells[k] : cells[k][i] \in S
    BY <2>1
  <2>3. S \subseteq Char /\ \A c \in S : c # NewLine /\ c # CR
    BY DEF S
  <2>4. cells[k] \in Seq(Char)
    BY <2>1, <2>3, SeqMonotonic
  <2>5. Free(cells[k], NewLine) /\ Free(cells[k], CR)
    BY <2>2, <2>3 DEF Free
  <2> QED
    BY <2>1, <2>4, <2>5 DEF IsText
<1>8. ASSUME NEW key \in {H[k] : k \in 1 .. n}
      PROVE  IsKey(key) /\ IsText(f[key].text) /\ Free(f[key].text, CR)
  <2> DEFINE T == {k \in 1 .. n : H[k] = key}
  <2>1. T # {} /\ T \in SUBSET (1 .. n)
    OBVIOUS
  <2> HIDE DEF T
  <2>2. Max(T) \in T
    BY <1>6, <2>1, Extremes
  <2>3. Max(T) \in 1 .. n /\ H[Max(T)] = key
    BY <2>2 DEF T
  <2>4. Max(T) \in 1 .. m /\ Max(T) \in 1 .. h
    BY <1>6, <2>3
  <2>5. IsKey(key)
    BY <2>3, <2>4
  <2>6. f[key] = Parse(Trim(cells[Max(T)], {Blank}))
    BY DEF T
  <2>7. IsText(cells[Max(T)]) /\ Free(cells[Max(T)], CR)
    BY <1>7, <2>4
  <2> QED
    BY <2>5, <2>6, <2>7, CellIsText
<1>9. DOMAIN f = {H[k] : k \in 1 .. n}
  OBVIOUS
<1> HIDE DEF f
<1>10. Loaded(H, line).cells = f /\ Loaded(H, line).object
  BY <1>1 DEF Row
<1> QED
  BY <1>8, <1>9, <1>10, Zenon DEF RowIsText

LEMMA HeadersAreKeys ==
  ASSUME NEW line \in Seq(Char), Free(line, NewLine)
  PROVE  \E h \in Nat : Len(Headers(line)) = h /\ \A k \in 1 .. h : IsKey(Headers(line)[k])
<1> DEFINE p == Pieces(line, Comma)
           S == {c \in Char : c # NewLine /\ c # Comma}
<1>1. PICK n \in Nat : ArePieces(Char, line, Comma, n)
  BY PieceFacts
<1>2. p = [k \in 1 .. n |-> p[k]] /\ \A k \in 1 .. n : IsPiece(Char, line, Comma, p[k])
  BY <1>1, Zenon DEF ArePieces
<1>3. \A i \in DOMAIN line : line[i] # NewLine
  BY DEF Free
<1> HIDE DEF p
<1>4. \A k \in 1 .. n : p[k] \in Seq(S)
  <2> SUFFICES ASSUME NEW k \in 1 .. n PROVE p[k] \in Seq(S)
    OBVIOUS
  <2>1. p[k] \in Seq(Char) /\ \A i \in DOMAIN p[k] : p[k][i] # Comma /\ p[k][i] # NewLine
    BY <1>2, <1>3, ZenonT(30) DEF IsPiece
  <2>2. PICK l \in Nat : l = Len(p[k]) /\ DOMAIN p[k] = 1 .. l /\ \A i \in 1 .. l : p[k][i] \in Char
    BY <2>1, LenProperties, ElementOfSeq
  <2>3. \A i \in 1 .. l : p[k][i] \in S
    BY <2>1, <2>2
  <2> HIDE DEF S
  <2> QED
    BY <2>1, <2>2, <2>3
<1>5. S \subseteq Char /\ \A c \in S : c # NewLine /\ c # Comma
  OBVIOUS
<1> HIDE DEF S
<1>6. ASSUME NEW k \in 1 .. n PROVE IsKey(Trim(p[k], {Blank, CR}))
  <2>1. Trim(p[k], {Blank, CR}) \in Seq(S) /\ Bare(Trim(p[k], {Blank, CR}), {Blank, CR})
    BY <1>4, TrimFacts
  <2>2. PICK t \in Seq(S) : t = Trim(p[k], {Blank, CR})
    BY <2>1
  <2>3. t \in Seq(Char)
    BY <1>5, SeqMonotonic
  <2>4. \A i \in DOMAIN t : t[i] \in S
    OBVIOUS
  <2>5. Free(t, Comma) /\ Free(t, NewLine)
    BY <1>5, <2>4 DEF Free
  <2> QED
    BY <2>1, <2>2, <2>3, <2>5 DEF IsKey, IsText
<1>7. DOMAIN p = 1 .. n
  BY <1>2
<1>8. Headers(line) = [k \in 1 .. n |-> Trim(p[k], {Blank, CR})]
  BY <1>7, Zenon DEF Headers, p
<1> DEFINE g(k) == Trim(p[k], {Blank, CR})
<1>9. \A k \in 1 .. n : IsKey(g(k))
  BY <1>6
<1>10. Headers(line) = [k \in 1 .. n |-> g(k)]
  BY <1>8
<1> HIDE DEF g
<1>11. Len(Headers(line)) = n /\ \A k \in 1 .. n : Headers(line)[k] = g(k)
  BY <1>10
<1> QED
  BY <1>9, <1>11

(* The text of a table is one, whatever its keys and values are.            *)
LEMMA JoinedTyped ==
  ASSUME NEW c, NEW n \in Nat, c = [k \in 1 .. n |-> c[k]], \A k \in 1 .. n : c[k] \in Seq(Char)
  PROVE  Joined(c) \in Seq(Char)
<1> DEFINE g(k) == IF k = 1 THEN c[k] ELSE << Comma >> \o c[k]
           p == [k \in 1 .. n |-> g(k)]
<1>1. DOMAIN c = 1 .. n
  BY Zenon
<1>2. Joined(c) = FlattenSeq(p)
  BY <1>1, Zenon DEF Joined
<1>3. \A k \in 1 .. n : g(k) \in Seq(Char)
  <2>1. << Comma >> \in Seq(Char)
    BY CharFacts
  <2> QED
    BY <2>1
<1> HIDE DEF g
<1>4. p = [k \in 1 .. n |-> p[k]] /\ \A k \in 1 .. n : p[k] \in Seq(Char)
  BY <1>3
<1> HIDE DEF p
<1> QED
  BY <1>2, <1>4, FlatTyped

LEMMA TextIsText == ASSUME NEW table, IsTable(table), table # << >>, table[1].object
                    PROVE  to_csv(table) \in Seq(Char)
<1>1. table \in Seq(Range(table)) /\ \A i \in DOMAIN table : IsRow(table[i])
  BY DEF IsTable
<1>2. PICK N \in Nat : DOMAIN table = 1 .. N /\ 1 \in DOMAIN table
  BY <1>1
<1>3. ASSUME NEW i \in DOMAIN table, table[i].object
      PROVE  /\ DOMAIN table[i].cells \subseteq DOMAIN Rank /\ IsFiniteSet(DOMAIN table[i].cells)
             /\ \A key \in DOMAIN table[i].cells : IsValue(table[i].cells[key])
  <2>1. IsRow(table[i]) /\ table[i] # NotObject
    BY <1>1, <1>3 DEF NotObject
  <2> QED
    BY <2>1 DEF IsRow
<1>4. PICK K : K = Keys(table[1])
  OBVIOUS
<1>5. PICK n \in Nat : AreKeys(K, n, DOMAIN table[1].cells)
  BY <1>2, <1>3, <1>4, KeysFacts
<1>6. K = [k \in 1 .. n |-> K[k]] /\ \A k \in 1 .. n : K[k] \in Seq(Char)
  BY <1>5, Zenon DEF AreKeys
<1>7. Joined(K) \in Seq(Char)
  BY <1>6, JoinedTyped
<1>8. ASSUME NEW i \in DOMAIN table, table[i].object PROVE Printed(K, table[i]) \in Seq(Char)
  <2> DEFINE g(k) == TextIn(table[i], K[k])
             c == [k \in 1 .. n |-> g(k)]
  <2>1. DOMAIN K = 1 .. n
    BY <1>6, Zenon
  <2>2. Printed(K, table[i]) = Joined(c)
    BY <2>1, Zenon DEF Printed, TextIn
  <2>3. \A k \in 1 .. n : g(k) \in Seq(Char)
    <3> SUFFICES ASSUME NEW k \in 1 .. n PROVE g(k) \in Seq(Char)
      OBVIOUS
    <3>1. CASE K[k] \in DOMAIN table[i].cells
      <4>1. IsValue(table[i].cells[K[k]])
        BY <1>3, <1>8, <3>1
      <4>2. table[i].cells[K[k]].text \in Seq(STRING)
        BY <4>1 DEF IsValue
      <4> QED
        BY <3>1, <4>2, TextChars DEF TextIn
    <3>2. CASE K[k] \notin DOMAIN table[i].cells
      BY <3>2, EmptySeq DEF TextIn
    <3> QED
      BY <3>1, <3>2
  <2> HIDE DEF g
  <2>4. c = [k \in 1 .. n |-> c[k]] /\ \A k \in 1 .. n : c[k] \in Seq(Char)
    BY <2>3
  <2> HIDE DEF c
  <2> QED
    BY <2>2, <2>4, JoinedTyped
<1> DEFINE r(k) == IF table[k].object THEN Printed(K, table[k]) \o << NewLine >> ELSE << >>
           Rows == [k \in 1 .. N |-> r(k)]
<1>9. \A k \in 1 .. N : r(k) \in Seq(Char)
  <2>1. << NewLine >> \in Seq(Char)
    BY CharFacts
  <2> QED
    BY <1>2, <1>8, <2>1, EmptySeq
<1>10. to_csv(table) = Joined(K) \o << NewLine >> \o FlattenSeq(Rows)
  BY <1>2, <1>4, Zenon DEF to_csv
<1> HIDE DEF r
<1>11. Rows = [k \in 1 .. N |-> Rows[k]] /\ \A k \in 1 .. N : Rows[k] \in Seq(Char)
  BY <1>9
<1> HIDE DEF Rows
<1>12. FlattenSeq(Rows) \in Seq(Char)
  BY <1>11, FlatTyped
<1>13. << NewLine >> \in Seq(Char)
  BY CharFacts
<1> QED
  BY <1>7, <1>10, <1>12, <1>13

LEMMA LoadedPrints ==
  ASSUME NEW table, IsTable(table), table # << >>, table[1].object, from_csv(to_csv(table)) = table
  PROVE  Printable(table)
<1>1. PICK text : text = to_csv(table)
  OBVIOUS
<1>2. text \in Seq(Char)
  BY <1>1, TextIsText
<1>3. text # << >>
  <2>1. text = << >> => from_csv(text) = << >>
    BY DEF from_csv
  <2> QED
    BY <1>1, <2>1
<1>4. PICK lines : lines = Pieces(text, NewLine)
  OBVIOUS
<1>5. PICK M \in Nat : ArePieces(Char, text, NewLine, M)
  BY <1>2, PieceFacts
<1>6. lines = [k \in 1 .. M |-> lines[k]] /\ \A k \in 1 .. M : IsPiece(Char, text, NewLine, lines[k])
  BY <1>4, <1>5, Zenon DEF ArePieces
<1>7. \A k \in 1 .. M : lines[k] \in Seq(Char) /\ Free(lines[k], NewLine)
  BY <1>6, Zenon DEF IsPiece, Free
<1>8. Len(lines) = M
  BY <1>6
<1>9. table = [k \in 1 .. M - 1 |-> Loaded(Headers(lines[1]), lines[k + 1])]
  BY <1>1, <1>3, <1>4, <1>8, Zenon DEF from_csv
<1>10. DOMAIN table = 1 .. M - 1 /\ 1 \in DOMAIN table
  <2>1. table \in Seq(Range(table))
    BY DEF IsTable
  <2>2. 1 \in DOMAIN table
    BY <2>1
  <2> QED
    BY <1>9, <2>2
<1>11. 1 \in 1 .. M /\ \A k \in 1 .. M - 1 : k + 1 \in 1 .. M
  BY <1>10
<1>12. PICK H : H = Headers(lines[1])
  OBVIOUS
<1>13. PICK h \in Nat : Len(H) = h /\ \A k \in 1 .. h : IsKey(H[k])
  BY <1>7, <1>11, <1>12, HeadersAreKeys
<1>14. ASSUME NEW i \in DOMAIN table PROVE RowIsText(table[i])
  <2>1. table[i] = Loaded(H, lines[i + 1])
    BY <1>9, <1>10, <1>12, Zenon
  <2>2. lines[i + 1] \in Seq(Char) /\ Free(lines[i + 1], NewLine)
    BY <1>7, <1>10, <1>11, Zenon
  <2> QED
    BY <1>13, <2>1, <2>2, LoadedIsText
<1>15. ASSUME NEW key, NEW i \in DOMAIN table
       PROVE  IsText(TextIn(table[i], key)) /\ Free(TextIn(table[i], key), CR)
  <2>1. CASE key \in DOMAIN table[i].cells
    BY <1>14, <2>1, Zenon DEF RowIsText, TextIn
  <2>2. CASE key \notin DOMAIN table[i].cells
    BY <2>2, NoText DEF TextIn
  <2> QED
    BY <2>1, <2>2
<1>16. \A key \in DOMAIN table[1].cells : IsText(key) /\ Bare(key, {Blank, CR})
  BY <1>10, <1>14, Zenon DEF RowIsText, IsKey
<1>17. \A i \in DOMAIN table : table[i].object
  BY <1>14, Zenon DEF RowIsText
<1> QED
  BY <1>15, <1>16, <1>17, Zenon DEF Printable

-----------------------------------------------------------------------------
(* A printable row loads as itself if it has the keys of the first m columns *)
(* and plain values.                                                         *)
RowFits(row, K, m) ==
  DOMAIN row.cells = FirstKeys(K, m) /\ \A key \in DOMAIN row.cells : PlainValue(row.cells[key])
LEMMA RowReturns ==
  ASSUME NEW row, IsRow(row), row.object, NEW K, NEW n \in Nat, NEW m, m \in 0 .. n,
         \A k \in 1 .. n : IsText(TextIn(row, K[k])) /\ Free(TextIn(row, K[k]), CR),
         NEW got, LoadedAs(got, K, Columns(K, n, row), m)
  PROVE  got = row <=> RowFits(row, K, m)
<1>1. row # NotObject
  BY DEF NotObject
<1>2. row = Row([key \in DOMAIN row.cells |-> row.cells[key]])
      /\ \A key \in DOMAIN row.cells : IsValue(row.cells[key])
  BY <1>1 DEF IsRow
<1>3. got = Row([key \in FirstKeys(K, m) |-> got.cells[key]])
      /\ \A k \in 1 .. m : got.cells[K[k]] = Parse(Trim(Columns(K, n, row)[k], {Blank}))
  BY ZenonT(60) DEF LoadedAs
<1>4. ASSUME NEW k \in 1 .. m
      PROVE  /\ got.cells[K[k]] = Parse(Trim(TextIn(row, K[k]), {Blank}))
             /\ IsText(TextIn(row, K[k])) /\ Free(TextIn(row, K[k]), CR)
  <2>1. k \in 1 .. n
    BY SMT
  <2>2. Columns(K, n, row)[k] = TextIn(row, K[k])
    BY <2>1 DEF Columns
  <2> QED
    BY <1>3, <2>1, <2>2
<1>5. ASSUME NEW k \in 1 .. m, K[k] \in DOMAIN row.cells
      PROVE  got.cells[K[k]] = row.cells[K[k]] <=> PlainValue(row.cells[K[k]])
  <2>1. PICK v : v = row.cells[K[k]]
    OBVIOUS
  <2>2. TextIn(row, K[k]) = v.text
    BY <1>5, <2>1 DEF TextIn
  <2>3. IsValue(v) /\ IsText(v.text) /\ Free(v.text, CR)
    BY <1>2, <1>4, <1>5, <2>1, <2>2, Zenon
  <2>4. Returns(v)
    BY <2>3, ValueReturns
  <2> QED
    BY <1>4, <2>1, <2>2, <2>4, Zenon DEF Returns
<1>6. ASSUME got = row PROVE RowFits(row, K, m)
  <2>1. DOMAIN got.cells = FirstKeys(K, m)
    BY <1>3 DEF Row
  <2>2. DOMAIN row.cells = FirstKeys(K, m)
    BY <1>6, <2>1
  <2>3. \A k \in 1 .. m : K[k] \in FirstKeys(K, m)
    BY DEF FirstKeys
  <2>4. \A k \in 1 .. m : PlainValue(row.cells[K[k]])
    BY <1>5, <1>6, <2>2, <2>3, Zenon
  <2>5. \A key \in FirstKeys(K, m) : \E k \in 1 .. m : key = K[k]
    BY DEF FirstKeys
  <2> QED
    BY <2>2, <2>4, <2>5, Zenon DEF RowFits
<1>7. ASSUME RowFits(row, K, m) PROVE got = row
  <2>1. DOMAIN row.cells = FirstKeys(K, m) /\ \A key \in DOMAIN row.cells : PlainValue(row.cells[key])
    BY <1>7 DEF RowFits
  <2>2. \A key \in FirstKeys(K, m) : \E k \in 1 .. m : key = K[k]
    BY DEF FirstKeys
  <2>3. \A key \in FirstKeys(K, m) : got.cells[key] = row.cells[key]
    BY <1>5, <2>1, <2>2, ZenonT(60)
  <2>4. [key \in FirstKeys(K, m) |-> got.cells[key]] = [key \in DOMAIN row.cells |-> row.cells[key]]
    BY <2>1, <2>3, Zenon
  <2> QED
    BY <1>2, <1>3, <2>4, Zenon
<1> QED
  BY <1>6, <1>7

(* The first columns of a table: all, or all but the last.                  *)
LEMMA FirstColumns ==
  ASSUME NEW K, NEW n, NEW D, AreKeys(K, n, D)
  PROVE  /\ FirstKeys(K, n) = D /\ (n > 0 => FirstKeys(K, n - 1) = D \ {K[n]} /\ K[n] \in D)
         /\ n \in Nat /\ (n = 0 => D = {} /\ LastOf(D) = {}) /\ (n > 0 => LastOf(D) = {K[n]})
         /\ \A key \in D : \E k \in 1 .. n : key = K[k]
<1>1. n \in Nat /\ (\A k \in 1 .. n : K[k] \in D) /\ (\A j, k \in 1 .. n : K[j] = K[k] => j = k)
      /\ (\A d \in D : \E k \in 1 .. n : d = K[k])
      /\ (IF n = 0 THEN LastOf(D) = {} ELSE LastOf(D) = {K[n]})
  BY Zenon DEF AreKeys
<1>2. FirstKeys(K, n) = D
  BY <1>1 DEF FirstKeys
<1>3. ASSUME n > 0 PROVE FirstKeys(K, n - 1) = D \ {K[n]} /\ K[n] \in D
  <2>1. n \in 1 .. n
    BY <1>1, <1>3
  <2>2. \A k \in 1 .. n - 1 : k \in 1 .. n /\ k # n
    BY <1>1
  <2>3. \A k \in 1 .. n : k = n \/ k \in 1 .. n - 1
    BY <1>1
  <2> HIDE DEF FirstKeys
  <2>4. \A k \in 1 .. n - 1 : K[k] \in D \ {K[n]}
    BY <1>1, <2>1, <2>2
  <2>5. \A d \in D \ {K[n]} : \E k \in 1 .. n - 1 : d = K[k]
    BY <1>1, <2>3
  <2>6. FirstKeys(K, n - 1) = D \ {K[n]}
    BY <2>4, <2>5 DEF FirstKeys
  <2> QED
    BY <1>1, <2>1, <2>6
<1>4. n = 0 => D = {}
  BY <1>1
<1>5. n = 0 => LastOf(D) = {}
  BY <1>1
<1>6. n > 0 => LastOf(D) = {K[n]}
  BY <1>1
<1> QED
  BY <1>1, <1>2, <1>3, <1>4, <1>5, <1>6

-----------------------------------------------------------------------------
PlainRow(row, D) ==
  /\ row.object /\ DOMAIN row.cells \in {D, D \ LastOf(D)}
  /\ \A key \in DOMAIN row.cells :
       LET v == row.cells[key]
       IN /\ PlainValue(v) /\ (key \in LastOf(D) => v.text # << >> /\ key # << >>)
          /\ Trim(key, {Blank, CR}) = key /\ Range(key) \cap {Comma, NewLine} = {}
LEMMA PlainRows ==
  ASSUME NEW table
  PROVE  Plain(table) <=> \A i \in DOMAIN table : PlainRow(table[i], DOMAIN table[1].cells)
BY Zenon DEF Plain, PlainRow, LastOf

(* The width of a row says whether it has the last column.                  *)
WidthIs(row, K, n, w) ==
  w = Fewer(Shown(Columns(K, n, row), n), Shown(K, n))
LEMMA Widths ==
  ASSUME NEW K, NEW n \in Nat, NEW row, NEW w, WidthIs(row, K, n, w)
  PROVE  /\ w \in 0 .. n /\ (n = 0 => w = 0) /\ (n > 0 => w \in {n - 1, n})
         /\ n > 0 => (w = n <=> TextIn(row, K[n]) # << >> /\ K[n] # << >>)
<1>1. n = 0 => Shown(Columns(K, n, row), n) = 0 /\ Shown(K, n) = 0
  BY DEF Shown
<1>2. ASSUME n > 0
      PROVE  /\ Shown(Columns(K, n, row), n) = (IF TextIn(row, K[n]) = << >> THEN n - 1 ELSE n)
             /\ Shown(K, n) = (IF K[n] = << >> THEN n - 1 ELSE n)
  <2>1. n \in 1 .. n
    BY <1>2
  <2>2. Columns(K, n, row)[n] = TextIn(row, K[n])
    BY <2>1, Zenon DEF Columns
  <2> QED
    BY <1>2, <2>2 DEF Shown
<1>3. CASE n = 0
  BY <1>1, <1>3 DEF WidthIs, Fewer
<1>4. CASE n > 0
  <2>1. w = IF TextIn(row, K[n]) = << >> \/ K[n] = << >> THEN n - 1 ELSE n
    BY <1>2, <1>4 DEF WidthIs, Fewer
  <2> QED
    BY <1>4, <2>1
<1> QED
  BY <1>3, <1>4

LEMMA PlainFits ==
  ASSUME NEW K, NEW n, NEW D, AreKeys(K, n, D), NEW row, PlainRow(row, D), NEW w, WidthIs(row, K, n, w)
  PROVE  RowFits(row, K, w)
<1>1. n \in Nat
  BY FirstColumns
<1>2. /\ DOMAIN row.cells \in {D, D \ LastOf(D)}
      /\ \A key \in DOMAIN row.cells :
           PlainValue(row.cells[key])
           /\ (key \in LastOf(D) => row.cells[key].text # << >> /\ key # << >>)
  BY Zenon DEF PlainRow
<1>3. CASE n = 0
  <2>1. w = 0 /\ D = {} /\ FirstKeys(K, n) = D /\ LastOf(D) = {}
    BY <1>1, <1>3, Widths, FirstColumns
  <2> QED
    BY <1>2, <1>3, <2>1 DEF RowFits
<1>4. CASE n # 0
  <2>1. n > 0
    BY <1>1, <1>4
  <2>2. FirstKeys(K, n) = D /\ FirstKeys(K, n - 1) = D \ {K[n]} /\ K[n] \in D /\ LastOf(D) = {K[n]}
    BY <2>1, FirstColumns
  <2>3. w \in {n - 1, n} /\ (w = n <=> TextIn(row, K[n]) # << >> /\ K[n] # << >>)
    BY <1>1, <2>1, Widths
  <2>4. DOMAIN row.cells = FirstKeys(K, w)
    <3>1. CASE K[n] \in DOMAIN row.cells
      <4>1. DOMAIN row.cells = D
        BY <1>2, <2>2, <3>1
      <4>2. row.cells[K[n]].text # << >> /\ K[n] # << >>
        BY <1>2, <2>2, <3>1
      <4>3. TextIn(row, K[n]) # << >>
        BY <3>1, <4>2 DEF TextIn
      <4> QED
        BY <2>2, <2>3, <4>1, <4>2, <4>3
    <3>2. CASE K[n] \notin DOMAIN row.cells
      <4>1. DOMAIN row.cells = D \ {K[n]}
        BY <1>2, <2>2, <3>2
      <4>2. TextIn(row, K[n]) = << >>
        BY <3>2 DEF TextIn
      <4>3. w = n - 1
        BY <2>3, <4>2
      <4> QED
        BY <2>2, <4>1, <4>3
    <3> QED
      BY <3>1, <3>2
  <2> QED
    BY <1>2, <2>4, Zenon DEF RowFits
<1> QED
  BY <1>3, <1>4

LEMMA FitsPlain ==
  ASSUME NEW K, NEW n, NEW D, AreKeys(K, n, D), NEW row, row.object, NEW w, WidthIs(row, K, n, w),
         RowFits(row, K, w),
         \A key \in D : Trim(key, {Blank, CR}) = key /\ Range(key) \cap {Comma, NewLine} = {}
  PROVE  PlainRow(row, D)
<1>1. n \in Nat
  BY FirstColumns
<1>2. DOMAIN row.cells = FirstKeys(K, w) /\ \A key \in DOMAIN row.cells : PlainValue(row.cells[key])
  BY DEF RowFits
<1>3. CASE n = 0
  <2>1. w = 0 /\ D = {} /\ FirstKeys(K, n) = D
    <3>1. w = 0
      BY <1>1, <1>3, Widths
    <3>2. D = {} /\ FirstKeys(K, n) = D
      BY <1>3, FirstColumns
    <3> QED
      BY <3>1, <3>2
  <2>2. DOMAIN row.cells = {}
    BY <1>2, <1>3, <2>1
  <2>3. DOMAIN row.cells \in {D, D \ LastOf(D)}
    BY <2>1, <2>2
  <2>4. \A key \in DOMAIN row.cells : FALSE
    BY <2>2
  <2> QED
    BY <2>3, <2>4, Zenon DEF PlainRow
<1>4. CASE n # 0
  <2>1. n > 0
    BY <1>1, <1>4
  <2>2. FirstKeys(K, n) = D /\ FirstKeys(K, n - 1) = D \ {K[n]} /\ K[n] \in D /\ LastOf(D) = {K[n]}
    BY <2>1, FirstColumns
  <2>3. w \in {n - 1, n} /\ (w = n <=> TextIn(row, K[n]) # << >> /\ K[n] # << >>)
    BY <1>1, <2>1, Widths
  <2>4. DOMAIN row.cells \in {D, D \ LastOf(D)}
    BY <1>2, <2>2, <2>3
  <2>5. ASSUME K[n] \in DOMAIN row.cells PROVE row.cells[K[n]].text # << >> /\ K[n] # << >>
    <3>1. w = n
      BY <1>2, <2>2, <2>3, <2>5
    <3> QED
      BY <2>3, <2>5, <3>1 DEF TextIn
  <2>6. DOMAIN row.cells \subseteq D
    BY <2>4
  <2> QED
    BY <1>2, <2>2, <2>4, <2>5, <2>6 DEF PlainRow
<1> QED
  BY <1>3, <1>4

(* A table goes through a CSV file if and only if it is plain.              *)
LEMMA CsvReturns ==
  ASSUME NEW table, IsTable(table), table # << >>, table[1].object
  PROVE  from_csv(to_csv(table)) = table <=> Plain(table)
<1>1. from_csv(to_csv(table)) = table \/ Plain(table) => Printable(table)
  BY LoadedPrints, PlainPrints
<1>2. SUFFICES ASSUME Printable(table) PROVE from_csv(to_csv(table)) = table <=> Plain(table)
  BY <1>1
<1>3. PICK rows : rows = from_csv(to_csv(table))
  OBVIOUS
<1>4. PICK K : K = Keys(table[1])
  OBVIOUS
<1>5. PICK n \in Nat : LoadsAs(table, rows, K, n)
  BY <1>2, <1>3, <1>4, TableLoads
<1> DEFINE D == DOMAIN table[1].cells
<1>6. PICK N : N = Len(table)
  OBVIOUS
<1>7. AreKeys(K, n, D) /\ rows = [i \in 1 .. N |-> rows[i]]
  BY <1>5, <1>6, Zenon DEF LoadsAs
<1>8. \A i \in 1 .. N : LoadedAs(rows[i], K, Columns(K, n, table[i]), Width(table, K, n, i))
  BY <1>5, <1>6, Zenon DEF LoadsAs
<1>9. table \in Seq(Range(table)) /\ \A i \in DOMAIN table : IsRow(table[i])
  BY DEF IsTable
<1>10. N \in Nat /\ DOMAIN table = 1 .. N /\ 1 \in 1 .. N /\ table = [i \in 1 .. N |-> table[i]]
  BY <1>6, <1>9
<1>11. /\ \A i \in 1 .. N : table[i].object
       /\ \A key \in D : /\ IsText(key) /\ Bare(key, {Blank, CR})
                         /\ \A i \in 1 .. N : IsText(TextIn(table[i], key)) /\ Free(TextIn(table[i], key), CR)
  BY <1>2, <1>10, Zenon DEF Printable
<1> HIDE DEF D
<1>12. \A key \in D : Trim(key, {Blank, CR}) = key /\ Range(key) \cap {Comma, NewLine} = {}
  <2> SUFFICES ASSUME NEW key \in D
               PROVE Trim(key, {Blank, CR}) = key /\ Range(key) \cap {Comma, NewLine} = {}
    OBVIOUS
  <2>1. key \in Seq(Char) /\ Bare(key, {Blank, CR}) /\ Free(key, Comma) /\ Free(key, NewLine)
    BY <1>11 DEF IsText
  <2>2. Trim(key, {Blank, CR}) = key
    BY <2>1, TrimBare
  <2>3. Range(key) \cap {Comma, NewLine} = {}
    BY <2>1 DEF Free, Range
  <2> QED
    BY <2>2, <2>3
<1>13. ASSUME NEW i \in 1 .. N
       PROVE  \E w : WidthIs(table[i], K, n, w) /\ (rows[i] = table[i] <=> RowFits(table[i], K, w))
  <2>1. PICK w : w = Width(table, K, n, i)
    OBVIOUS
  <2>2. WidthIs(table[i], K, n, w)
    BY <2>1, Zenon DEF WidthIs, Width
  <2>3. w \in 0 .. n
    BY <2>2, Widths
  <2>4. LoadedAs(rows[i], K, Columns(K, n, table[i]), w)
    BY <1>8, <2>1, Zenon
  <2>5. \A k \in 1 .. n : K[k] \in D
    BY <1>7, Zenon DEF AreKeys
  <2>6. \A k \in 1 .. n : IsText(TextIn(table[i], K[k])) /\ Free(TextIn(table[i], K[k]), CR)
    BY <1>11, <2>5, Zenon
  <2>7. IsRow(table[i]) /\ table[i].object
    BY <1>9, <1>10, <1>11, Zenon
  <2> QED
    BY <2>2, <2>3, <2>4, <2>6, <2>7, RowReturns
<1>14. \A i \in 1 .. N : rows[i] = table[i] <=> PlainRow(table[i], D)
  <2> SUFFICES ASSUME NEW i \in 1 .. N PROVE rows[i] = table[i] <=> PlainRow(table[i], D)
    OBVIOUS
  <2>1. PICK w : WidthIs(table[i], K, n, w) /\ (rows[i] = table[i] <=> RowFits(table[i], K, w))
    BY <1>13
  <2>2. PlainRow(table[i], D) => RowFits(table[i], K, w)
    BY <1>7, <2>1, PlainFits
  <2>3. RowFits(table[i], K, w) => PlainRow(table[i], D)
    BY <1>7, <1>11, <1>12, <2>1, FitsPlain
  <2> QED
    BY <2>1, <2>2, <2>3
<1>15. Plain(table) <=> \A i \in 1 .. N : PlainRow(table[i], D)
  BY <1>10, PlainRows DEF D
<1>16. rows = table <=> \A i \in 1 .. N : rows[i] = table[i]
  BY <1>7, <1>10, Zenon
<1> QED
  BY <1>3, <1>14, <1>15, <1>16, Zenon

-----------------------------------------------------------------------------
(* What is loaded of the beginning of a file: all rows but the last are rows *)
(* of the table, and the last if its line is whole.                          *)
FirstRows(rows, table, whole) ==
  /\ Len(rows) <= Len(table)
  /\ \A k \in 1 .. Len(rows) - (IF whole THEN 0 ELSE 1) : rows[k] = table[k]
LEMMA RowsOfBeginning ==
  ASSUME NEW table, IsTable(table), table # << >>, table[1].object, Plain(table),
         NEW s, s = to_csv(table), NEW m \in 0 .. Len(s),
         NEW whole \in BOOLEAN, whole => m = 0 \/ s[m] = NewLine
  PROVE  FirstRows(from_csv(SubSeq(s, 1, m)), table, whole)
<1>1. from_csv(s) = table
  BY CsvReturns
<1>2. s \in Seq(Char) /\ s # << >> /\ s[Len(s)] = NewLine
  BY PlainPrints, TableLoads DEF IsTextOf
<1>3. PICK p : p = SubSeq(s, 1, m)
  OBVIOUS
<1>4. PICK N : N = Len(table)
  OBVIOUS
<1>5. N \in Nat
  BY <1>4 DEF IsTable
<1>6. CASE m = 0
  <2>1. p = << >>
    BY <1>2, <1>3, <1>6
  <2>2. from_csv(p) = << >>
    BY <2>1, Zenon DEF from_csv
  <2>3. Len(<< >>) = 0
    OBVIOUS
  <2>4. Len(from_csv(p)) = 0
    BY <2>2, <2>3
  <2> QED
    BY <1>3, <1>4, <1>5, <2>4 DEF FirstRows
<1>7. CASE m # 0
  <2>1. m \in 1 .. Len(s)
    BY <1>2, <1>7
  <2>2. BeginsPieces(s, m, NewLine)
    BY <1>2, <2>1, PiecesOfBeginning
  <2>3. PICK l : l = Pieces(p, NewLine)
    OBVIOUS
  <2>4. PICK L : L = Pieces(s, NewLine)
    OBVIOUS
  <2>5. PICK q, n \in Nat : /\ 1 <= q /\ q <= n /\ DOMAIN L = 1 .. n /\ DOMAIN l = 1 .. q
                            /\ \A k \in 1 .. IF s[m] = NewLine THEN q ELSE q - 1 : l[k] = L[k]
    BY <1>3, <2>2, <2>3, <2>4, Zenon DEF BeginsPieces
  <2>7. PICK x \in Nat : /\ x = (IF whole THEN q ELSE q - 1) /\ x <= q
                         /\ \A k \in 1 .. x : l[k] = L[k]
    <3>1. CASE s[m] = NewLine
      BY <2>5, <3>1
    <3>2. CASE s[m] # NewLine
      <4>1. ~whole
        BY <1>7, <3>2
      <4> QED
        BY <2>5, <3>2, <4>1
    <3> QED
      BY <3>1, <3>2
  <2>6. p \in Seq(Char) /\ p # << >>
    BY <1>2, <1>3, <2>1
  <2>8. Len(l) = q /\ Len(L) = n
    <3>1. PICK a \in Nat : ArePieces(Char, p, NewLine, a)
      BY <2>6, PieceFacts
    <3>2. PICK b \in Nat : ArePieces(Char, s, NewLine, b)
      BY <1>2, PieceFacts
    <3>3. l = [k \in 1 .. a |-> l[k]] /\ L = [k \in 1 .. b |-> L[k]]
      BY <2>3, <2>4, <3>1, <3>2, Zenon DEF ArePieces
    <3>4. Len(l) = a /\ DOMAIN l = 1 .. a
      BY <3>3
    <3>5. Len(L) = b /\ DOMAIN L = 1 .. b
      BY <3>3
    <3>6. a = q /\ b = n
      <4>1. 1 .. a = 1 .. q /\ 1 .. b = 1 .. n
        BY <2>5, <3>4, <3>5, Zenon
      <4>2. q \in 1 .. a /\ n \in 1 .. b /\ (a > 0 => a \in 1 .. q) /\ (b > 0 => b \in 1 .. n)
        BY <2>5, <4>1
      <4> QED
        BY <2>5, <4>2
    <3> QED
      BY <3>4, <3>5, <3>6
  <2>9. from_csv(p) = [k \in 1 .. Len(l) - 1 |-> Loaded(Headers(l[1]), l[k + 1])]
    BY <2>3, <2>6, Zenon DEF from_csv
  <2>10. from_csv(s) = [k \in 1 .. Len(L) - 1 |-> Loaded(Headers(L[1]), L[k + 1])]
    BY <1>2, <2>4, Zenon DEF from_csv
  <2> DEFINE f(k) == Loaded(Headers(l[1]), l[k + 1])
             g(k) == Loaded(Headers(L[1]), L[k + 1])
  <2>11. from_csv(p) = [k \in 1 .. q - 1 |-> f(k)] /\ table = [k \in 1 .. n - 1 |-> g(k)]
    BY <1>1, <2>8, <2>9, <2>10
  <2>12. ASSUME NEW k \in 1 .. x - 1 PROVE f(k) = g(k)
    <3>1. k + 1 \in 1 .. x /\ 1 \in 1 .. x
      BY <2>7
    <3>2. l[k + 1] = L[k + 1] /\ l[1] = L[1]
      BY <2>7, <3>1, Zenon
    <3> QED
      BY <3>2, Zenon
  <2> HIDE DEF f, g
  <2>13. Len(from_csv(p)) = q - 1 /\ N = n - 1
    BY <1>4, <2>5, <2>11
  <2>14. \A k \in 1 .. (q - 1) - (IF whole THEN 0 ELSE 1) : from_csv(p)[k] = table[k]
    <3> SUFFICES ASSUME NEW k \in 1 .. (q - 1) - (IF whole THEN 0 ELSE 1) PROVE from_csv(p)[k] = table[k]
      OBVIOUS
    <3>1. k \in 1 .. q - 1 /\ k \in 1 .. n - 1 /\ k \in 1 .. x - 1
      BY <2>5, <2>7
    <3>2. from_csv(p)[k] = f(k) /\ table[k] = g(k)
      BY <2>11, <3>1, Zenon
    <3> QED
      BY <2>12, <3>1, <3>2, Zenon
  <2>15. q - 1 <= n - 1
    BY <2>5
  <2> QED
    BY <1>3, <1>4, <2>13, <2>14, <2>15, Zenon DEF FirstRows
<1> QED
  BY <1>6, <1>7

(* What is loaded of a table while one saves it, or after.                  *)
LEMMA LoadedCsv ==
  ASSUME NEW t \in Thread, Loading(t), HasRead(t, "csv"), failed[t] \in BOOLEAN,
         Plain(Tables[source[t].doc])
  PROVE  /\ FirstRows(from_csv(loaded[t].text), Tables[source[t].doc], failed[t])
         /\ alone[t] /\ ~failed[t] => from_csv(loaded[t].text) = Tables[source[t].doc]
<1>1. PICK d : d = source[t].doc
  OBVIOUS
<1>2. PICK table : table = Tables[d]
  OBVIOUS
<1>3. d \in Doc /\ Rejected(source[t]) = 0
  BY <1>1, MenuAssumption DEF HasRead, Loading, IsSave, CallType
<1>4. IsTable(table) /\ table # << >> /\ table[1].object
  <2>1. IsTable(table)
    BY <1>2, <1>3, DocsAssumption
  <2>2. table # << >> /\ table[1].object
    BY <1>1, <1>2, <1>3 DEF HasRead, Rejected
  <2> QED
    BY <2>1, <2>2
<1>5. PICK s : s = to_csv(table)
  OBVIOUS
<1>6. TextOf(source[t]) = s
  BY <1>1, <1>2, <1>3, <1>4, <1>5, Zenon DEF HasRead, TextOf, CsvTexts
<1>7. call[t].lib # "file" /\ call[t].ext = "csv"
  BY MenuAssumption DEF HasRead, Loading
<1>8. Returned(call[t], s, loaded[t], alone[t], failed[t])
  BY <1>6, <1>7, Zenon DEF HasRead, Loading
<1>9. PICK m \in 0 .. Len(s) : loaded[t].text = SubSeq(s, 1, m) /\ (failed[t] => m = 0 \/ s[m] = NewLine)
  BY <1>7, <1>8, Zenon DEF Returned
<1>10. alone[t] /\ ~failed[t] => loaded[t].text = s
  BY <1>8, Zenon DEF Returned
<1>11. Plain(table)
  BY <1>1, <1>2
<1>12. from_csv(s) = table
  BY <1>4, <1>5, <1>11, CsvReturns
<1>13. FirstRows(from_csv(loaded[t].text), table, failed[t])
  <2>1. PICK whole \in BOOLEAN : whole = failed[t]
    OBVIOUS
  <2>2. whole => m = 0 \/ s[m] = NewLine
    BY <1>9, <2>1
  <2>3. FirstRows(from_csv(SubSeq(s, 1, m)), table, whole)
    BY <1>4, <1>5, <1>11, <2>2, RowsOfBeginning, Zenon
  <2> QED
    BY <1>9, <2>1, <2>3, Zenon
<1> QED
  BY <1>1, <1>2, <1>10, <1>12, <1>13, Zenon

(* Whatever the table: it is loaded from the CSV that was made of it as it  *)
(* was, if and only if it is plain.                                         *)
THEOREM CsvHoldsPlainTables == Spec => []CsvHoldsPlain
<1>1. CsvHoldsPlain
  BY CsvTablesAssumption, CsvReturns DEF CsvHoldsPlain
<1> QED
  BY <1>1, PTL

(* What is loaded is what was saved: the JSON value or none, of a plain     *)
(* table the rows there are, the last of them perhaps not whole.            *)
THEOREM WhatIsLoadedWasSaved == Spec => []LoadsWhatWasSaved
<1>1. LoadInv => JsonLoadsWhole
  BY LoadedJson DEF LoadInv, JsonLoadsWhole
<1>2. LoadInv => CsvLoadsRows
  <2> SUFFICES ASSUME LoadInv, NEW t \in Thread, HasRead(t, "csv"), Plain(Tables[source[t].doc])
               PROVE  /\ FirstRows(from_csv(loaded[t].text), Tables[source[t].doc], failed[t])
                      /\ alone[t] /\ ~failed[t] => from_csv(loaded[t].text) = Tables[source[t].doc]
    BY Zenon DEF CsvLoadsRows, FirstRows
  <2>1. Loading(t) /\ failed[t] \in BOOLEAN
    BY DEF LoadInv, HoldInv, BegunInv, SaveInv, SaveTyped
  <2> QED
    BY <2>1, LoadedCsv
<1>3. LoadInv => LoadsWhatWasSaved
  BY <1>1, <1>2 DEF LoadsWhatWasSaved
<1> QED
  BY LoadInit, LoadStep, <1>3, PTL DEF Spec
=============================================================================
