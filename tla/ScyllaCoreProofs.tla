--------------------------- MODULE ScyllaCoreProofs ---------------------------
(***************************************************************************)
(* Proofs about ScyllaCore, for any number of objects, connections, calls  *)
(* and faults: types, and what a status, a connection and a destroyed      *)
(* object may be relied on for.                                            *)
(***************************************************************************)
EXTENDS ScyllaCore, SequenceTheorems, TLAPS

-----------------------------------------------------------------------------
(* What the driver objects of one interface object hold at each pc, and how *)
(* many of them it may give back.                                           *)
Shape(i) ==
  /\ pc[i] \in {"mode", "dispatch", "wait"} => session[i] # "null"
  /\ pc[i] = "gone" => session[i] = "null"
  /\ session[i] = "null" => auth[i] = << >> /\ future[i] = "null"
  /\ session[i] = "null" /\ pc[i] # "gone" => contact[i] = {}
  /\ session[i] = "connecting" => pc[i] = "wait" /\ future[i] = "pending"
  /\ future[i] = "pending" => session[i] = "connecting"
  /\ future[i] = "ok" => session[i] \in {"up", "lost"}
  /\ auth[i] # << >> => session[i] \in {"connecting", "lost"}
  /\ session[i] # "null" => owned[i] >= 2
  /\ future[i] # "null" => owned[i] >= 3
ShapeInv == \A i \in Instances : Shape(i)
TypeInv == TypeOK /\ ShapeInv

LEMMA TypeInit == Init => TypeInv
<1> SUFFICES ASSUME Init PROVE TypeInv
  OBVIOUS
<1>1. NoConnection \in Connection
  BY DEF NoConnection, Connection, Field, Modes
<1>2. << >> \in Seq(Field \cup {Garbage}) /\ NoName \in Field
  BY DEF Field
<1>3. inits \in 0 .. MaxInits /\ faults \in 0 .. MaxFaults
  BY BoundsAssumption DEF Init
<1>4. TypeOK
  BY <1>1, <1>2, <1>3 DEF Init, TypeOK
<1>5. ShapeInv
  BY DEF Init, ShapeInv, Shape
<1>6. QED
  BY <1>4, <1>5 DEF TypeInv

LEMMA FaultType == TypeOK /\ Fault => faults' \in 0 .. MaxFaults
BY BoundsAssumption DEF TypeOK, Fault

LEMMA SeenType ==
  ASSUME NEW who, NEW name \in Field
  PROVE  Seen(who, name) \subseteq Field \cup {Garbage}
BY DEF Seen

LEMMA TypeStep == TypeInv /\ [Next]_vars => TypeOK'
<1> SUFFICES ASSUME TypeOK, ShapeInv, [Next]_vars PROVE TypeOK'
  BY DEF TypeInv
<1>1. ASSUME NEW i \in Instances, NEW c \in Conns, Call(i, c) PROVE TypeOK'
  <2>1. c \in Connection
    BY ConnsAssumption
  <2>2. m_connection' \in Connection
    BY <1>1, <2>1 DEF Call, Assign, TypeOK, Connection
  <2>3. Busy \subseteq Instances /\ inits' \in 0 .. MaxInits
    BY <1>1, BoundsAssumption DEF Call, TypeOK, Busy
  <2>4. overlap' \subseteq Instances /\ again' \subseteq Instances
    BY <1>1, <2>3 DEF Call, TypeOK
  <2>5. QED
    BY <1>1, <2>1, <2>2, <2>3, <2>4 DEF Call, TypeOK, driver
<1>2. ASSUME NEW i \in Instances, CopyRest(i) PROVE TypeOK'
  <2>1. m_connection' \in Connection
    BY <1>2 DEF CopyRest, Assign, TypeOK, Connection
  <2>2. owned' \in [Instances -> Nat]
    BY <1>2 DEF CopyRest, TypeOK
  <2>3. QED
    BY <1>2, <2>1, <2>2 DEF CopyRest, TypeOK, history
<1>3. ASSUME NEW i \in Instances, CopyMode(i) PROVE TypeOK'
  <2>1. m_connection' \in Connection
    BY <1>3 DEF CopyMode, StoredMode, TypeOK, Connection
  <2>2. QED
    BY <1>3, <2>1 DEF CopyMode, TypeOK, driver, history
<1>4. ASSUME NEW i \in Instances, Dispatch(i) PROVE TypeOK'
  <2>1. Seen({i}, m_connection.host) \subseteq Field \cup {Garbage}
    BY SeenType DEF TypeOK, Connection
  <2>2. contact' \in [Instances -> SUBSET (Field \cup {Garbage})]
    <3>1. CASE UNCHANGED contact
      BY <3>1 DEF TypeOK
    <3>2. CASE AddContact(i)
      BY <2>1, <3>2 DEF AddContact, TypeOK
    <3>3. QED
      BY <1>4, <3>1, <3>2 DEF Dispatch
  <2>3. /\ future' \in [Instances -> {"null", "pending", "ok", "error"}]
        /\ session' \in [Instances -> {"null", "closed", "connecting", "up", "lost"}]
        /\ owned' \in [Instances -> Nat]
    <3>1. CASE UNCHANGED << future, session, owned >>
      BY <3>1 DEF TypeOK
    <3>2. CASE Connect(i)
      BY <3>2 DEF Connect, TypeOK
    <3>3. QED
      BY <1>4, <3>1, <3>2 DEF Dispatch
  <2>4. /\ pc' \in [Instances -> {"idle", "password", "mode", "dispatch", "wait", "gone"}]
        /\ status' \in [Instances -> {0, 1, -1, -2}]
    BY <1>4 DEF Dispatch, Return, TypeOK
  <2>5. QED
    BY <1>4, <2>2, <2>3, <2>4 DEF Dispatch, TypeOK, history
<1>5. ASSUME NEW i \in Instances, Await(i) PROVE TypeOK'
  BY <1>5 DEF Await, Outcome, Return, TypeOK, driver, history
<1>6. ASSUME NEW i \in Instances, AuthUser(i) PROVE TypeOK'
  <2>1. Seen({}, m_connection.user) \subseteq Field \cup {Garbage}
    BY SeenType DEF TypeOK, Connection
  <2>2. auth' \in [Instances -> Seq(Field \cup {Garbage})]
    BY <1>6, <2>1 DEF AuthUser, TypeOK
  <2>3. server' \in [Instances -> Field \cup {Garbage}]
    <3>1. CASE UNCHANGED server
      BY <3>1 DEF TypeOK
    <3>2. CASE \E h \in contact[i] : server' = [server EXCEPT ![i] = h]
      <4>1. contact[i] \subseteq Field \cup {Garbage}
        BY DEF TypeOK
      <4>2. QED
        BY <3>2, <4>1 DEF TypeOK
    <3>3. QED
      BY <1>6, <3>1, <3>2 DEF AuthUser
  <2>4. QED
    BY <1>6, <2>2, <2>3 DEF AuthUser, TypeOK, history
<1>7. ASSUME NEW i \in Instances, AuthPass(i) PROVE TypeOK'
  <2>1. Seen({}, m_connection.pass) \subseteq Field \cup {Garbage}
    BY SeenType DEF TypeOK, Connection
  <2>2. \A p \in Seen({}, m_connection.pass) : Append(auth[i], p) \in Seq(Field \cup {Garbage})
    BY <2>1 DEF TypeOK
  <2>3. sent' \in [Instances -> Seq(Field \cup {Garbage})]
    BY <1>7, <2>2 DEF AuthPass, TypeOK
  <2>4. auth' \in [Instances -> Seq(Field \cup {Garbage})]
    BY <1>7 DEF AuthPass, Forget, TypeOK
  <2>5. /\ future' \in [Instances -> {"null", "pending", "ok", "error"}]
        /\ session' \in [Instances -> {"null", "closed", "connecting", "up", "lost"}]
    <3>1. Admitted(i) \/ Refused(i)
      BY <1>7 DEF AuthPass
    <3>2. QED
      BY <3>1, ZenonT(60) DEF Admitted, Refused, TypeOK
  <2>6. faults' \in 0 .. MaxFaults
    BY <1>7, FaultType DEF AuthPass, TypeOK
  <2>7. QED
    BY <1>7, <2>3, <2>4, <2>5, <2>6 DEF AuthPass, TypeOK, history
<1>8. ASSUME NEW i \in Instances, Lose(i) PROVE TypeOK'
  BY <1>8, FaultType DEF Lose, TypeOK, history
<1>9. ASSUME NEW i \in Instances, Execute(i) PROVE TypeOK'
  <2>1. owned' \in [Instances -> Nat]
    <3>1. owned[i] \in Nat /\ owned \in [Instances -> Nat]
      BY DEF TypeOK
    <3>2. owned' = [owned EXCEPT ![i] = owned[i] + 0] \/ owned' = [owned EXCEPT ![i] = owned[i] + 2]
      BY <1>9 DEF Execute, KeptByOk
    <3>3. QED
      BY <3>1, <3>2
  <2>2. faults' \in 0 .. MaxFaults /\ failed' \subseteq Instances
    BY <1>9, FaultType DEF Execute, TypeOK
  <2>3. QED
    BY <1>9, <2>1, <2>2 DEF Execute, TypeOK, driver
<1>10. ASSUME NEW i \in Instances, Destroy(i) PROVE TypeOK'
  <2>1. CASE UNCHANGED << pc, future, session, auth, owned >>
    BY <1>10, <2>1 DEF Destroy, TypeOK, history
  <2>2. CASE future[i] # "null" /\ UNCHANGED died
    <3>1. owned[i] - 3 \in Nat /\ owned \in [Instances -> Nat]
      BY <2>2 DEF TypeOK, ShapeInv, Shape
    <3>2. owned' \in [Instances -> Nat]
      BY <1>10, <2>2, <3>1 DEF Destroy
    <3>3. << >> \in Seq(Field \cup {Garbage})
      OBVIOUS
    <3>4. auth' \in [Instances -> Seq(Field \cup {Garbage})]
      <4>1. auth' = [auth EXCEPT ![i] = << >>]
        BY <1>10, <2>2 DEF Destroy
      <4>2. auth \in [Instances -> Seq(Field \cup {Garbage})]
        BY DEF TypeOK
      <4>3. QED
        BY <3>3, <4>1, <4>2
    <3>5. QED
      BY <1>10, <2>2, <3>2, <3>4 DEF Destroy, TypeOK, history
  <2>3. QED
    BY <1>10, <2>1, <2>2 DEF Destroy
<1>11. CASE UNCHANGED vars
  BY <1>11 DEF vars, driver, history, TypeOK
<1>12. QED
  BY <1>1, <1>2, <1>3, <1>4, <1>5, <1>6, <1>7, <1>8, <1>9, <1>10, <1>11
     DEF Next, Client, Step, Driver, Ended

LEMMA ShapeStep == TypeInv /\ [Next]_vars => ShapeInv'
<1> SUFFICES ASSUME TypeOK, ShapeInv, [Next]_vars, NEW j \in Instances PROVE Shape(j)'
  BY DEF TypeInv, ShapeInv
<1>0. /\ Shape(j)
      /\ pc \in [Instances -> {"idle", "password", "mode", "dispatch", "wait", "gone"}]
      /\ future \in [Instances -> {"null", "pending", "ok", "error"}]
      /\ session \in [Instances -> {"null", "closed", "connecting", "up", "lost"}]
      /\ owned \in [Instances -> Nat]
      /\ DOMAIN auth = Instances /\ DOMAIN contact = Instances
  BY DEF TypeOK, ShapeInv
<1>1. ASSUME NEW i \in Instances, NEW c \in Conns, Call(i, c) PROVE Shape(j)'
  BY <1>0, <1>1 DEF Call, driver, Shape
<1>2. ASSUME NEW i \in Instances, CopyRest(i) PROVE Shape(j)'
  BY <1>0, <1>2 DEF CopyRest, Shape
<1>3. ASSUME NEW i \in Instances, CopyMode(i) PROVE Shape(j)'
  BY <1>0, <1>3 DEF CopyMode, driver, Shape
<1>4. ASSUME NEW i \in Instances, Dispatch(i) PROVE Shape(j)'
  BY <1>0, <1>4 DEF Dispatch, AddContact, Connect, Return, Shape
<1>5. ASSUME NEW i \in Instances, Await(i) PROVE Shape(j)'
  BY <1>0, <1>5 DEF Await, Return, driver, Shape
<1>6. ASSUME NEW i \in Instances, AuthUser(i) PROVE Shape(j)'
  BY <1>0, <1>6 DEF AuthUser, Shape
<1>7. ASSUME NEW i \in Instances, AuthPass(i) PROVE Shape(j)'
  BY <1>0, <1>7 DEF AuthPass, Admitted, Refused, Forget, Shape
<1>8. ASSUME NEW i \in Instances, Lose(i) PROVE Shape(j)'
  BY <1>0, <1>8 DEF Lose, Shape
<1>9. ASSUME NEW i \in Instances, Execute(i) PROVE Shape(j)'
  BY <1>0, <1>9 DEF Execute, KeptByOk, driver, Shape
<1>10. ASSUME NEW i \in Instances, Destroy(i) PROVE Shape(j)'
  BY <1>0, <1>10 DEF Destroy, Shape
<1>11. CASE UNCHANGED vars
  BY <1>0, <1>11 DEF vars, driver, Shape
<1>12. QED
  BY <1>1, <1>2, <1>3, <1>4, <1>5, <1>6, <1>7, <1>8, <1>9, <1>10, <1>11
     DEF Next, Client, Step, Driver, Ended

(* Every variable keeps its type; no object is freed more often than made.  *)
THEOREM TypeCorrect == Spec => []TypeOK
<1>1. TypeInv /\ [Next]_vars => TypeInv'
  BY TypeStep, ShapeStep DEF TypeInv
<1>2. TypeInv => TypeOK
  BY DEF TypeInv
<1>3. QED
  BY TypeInit, <1>1, <1>2, PTL DEF Spec

-----------------------------------------------------------------------------
(* A call that returned 1 was the last to touch status, and what it found   *)
(* the session to be only the driver changes, between up and lost.          *)
Connected(i) ==
  /\ pc[i] \notin {"idle", "gone"} => status[i] = 0
  /\ status[i] = 1 /\ pc[i] # "gone" => session[i] \in {"up", "lost"}
ConnectedInv == \A i \in Instances : Connected(i)

LEMMA ConnectedStep == TypeInv /\ ConnectedInv /\ [Next]_vars => ConnectedInv'
<1> SUFFICES ASSUME TypeOK, ShapeInv, ConnectedInv, [Next]_vars, NEW j \in Instances PROVE Connected(j)'
  BY DEF TypeInv, ConnectedInv
<1>0. /\ Shape(j) /\ Connected(j)
      /\ pc \in [Instances -> {"idle", "password", "mode", "dispatch", "wait", "gone"}]
      /\ future \in [Instances -> {"null", "pending", "ok", "error"}]
      /\ session \in [Instances -> {"null", "closed", "connecting", "up", "lost"}]
      /\ status \in [Instances -> {0, 1, -1, -2}]
  BY DEF TypeOK, ShapeInv, ConnectedInv
<1>1. ASSUME NEW i \in Instances, NEW c \in Conns, Call(i, c) PROVE Connected(j)'
  BY <1>0, <1>1 DEF Call, driver, Shape, Connected
<1>2. ASSUME NEW i \in Instances, CopyRest(i) PROVE Connected(j)'
  BY <1>0, <1>2 DEF CopyRest, Shape, Connected
<1>3. ASSUME NEW i \in Instances, CopyMode(i) PROVE Connected(j)'
  BY <1>0, <1>3 DEF CopyMode, driver, Shape, Connected
<1>4. ASSUME NEW i \in Instances, Dispatch(i) PROVE Connected(j)'
  BY <1>0, <1>4 DEF Dispatch, AddContact, Connect, Return, Shape, Connected
<1>5. ASSUME NEW i \in Instances, Await(i) PROVE Connected(j)'
  BY <1>0, <1>5 DEF Await, Return, driver, Outcome, Shape, Connected
<1>6. ASSUME NEW i \in Instances, AuthUser(i) PROVE Connected(j)'
  BY <1>0, <1>6 DEF AuthUser, Shape, Connected
<1>7. ASSUME NEW i \in Instances, AuthPass(i) PROVE Connected(j)'
  BY <1>0, <1>7 DEF AuthPass, Admitted, Refused, Forget, Shape, Connected
<1>8. ASSUME NEW i \in Instances, Lose(i) PROVE Connected(j)'
  BY <1>0, <1>8 DEF Lose, Shape, Connected
<1>9. ASSUME NEW i \in Instances, Execute(i) PROVE Connected(j)'
  BY <1>0, <1>9 DEF Execute, KeptByOk, driver, Shape, Connected
<1>10. ASSUME NEW i \in Instances, Destroy(i) PROVE Connected(j)'
  BY <1>0, <1>10 DEF Destroy, Shape, Connected
<1>11. CASE UNCHANGED vars
  BY <1>0, <1>11 DEF vars, driver, Shape, Connected
<1>12. QED
  BY <1>1, <1>2, <1>3, <1>4, <1>5, <1>6, <1>7, <1>8, <1>9, <1>10, <1>11
     DEF Next, Client, Step, Driver, Ended

(* A 1 means connected: whatever other objects, threads and earlier calls   *)
(* of the same object did to the connection they share.                     *)
THEOREM OkIsConnected == Spec => []OkMeansConnected
<1>1. Init => ConnectedInv
  BY DEF Init, ConnectedInv, Connected
<1>2. TypeInv /\ [Next]_vars => TypeInv'
  BY TypeStep, ShapeStep DEF TypeInv
<1>3. ConnectedInv => OkMeansConnected
  BY DEF ConnectedInv, Connected, OkMeansConnected
<1>4. QED
  BY TypeInit, ConnectedStep, <1>1, <1>2, <1>3, PTL DEF Spec

-----------------------------------------------------------------------------
(* What an object that was initialised once and had no failed query owns:   *)
(* cluster and session, and the future of its one connect.                  *)
Counted(i) ==
  /\ i \notin again /\ pc[i] \in {"password", "mode", "dispatch"} => future[i] = "null"
  /\ i \notin again \cup failed =>
       owned[i] = (IF session[i] = "null" THEN 0 ELSE 2) + (IF future[i] = "null" THEN 0 ELSE 1)
CountedInv == \A i \in Instances : Counted(i)

LEMMA CountedStep == TypeInv /\ CountedInv /\ [Next]_vars => CountedInv'
<1> SUFFICES ASSUME TypeOK, ShapeInv, CountedInv, [Next]_vars, NEW j \in Instances PROVE Counted(j)'
  BY DEF TypeInv, CountedInv
<1>0. /\ Shape(j) /\ Counted(j)
      /\ pc \in [Instances -> {"idle", "password", "mode", "dispatch", "wait", "gone"}]
      /\ future \in [Instances -> {"null", "pending", "ok", "error"}]
      /\ session \in [Instances -> {"null", "closed", "connecting", "up", "lost"}]
      /\ owned \in [Instances -> Nat]
  BY DEF TypeOK, ShapeInv, CountedInv
<1>1. ASSUME NEW i \in Instances, NEW c \in Conns, Call(i, c) PROVE Counted(j)'
  BY <1>0, <1>1 DEF Call, driver, Shape, Counted
<1>2. ASSUME NEW i \in Instances, CopyRest(i) PROVE Counted(j)'
  BY <1>0, <1>2 DEF CopyRest, history, Shape, Counted
<1>3. ASSUME NEW i \in Instances, CopyMode(i) PROVE Counted(j)'
  BY <1>0, <1>3 DEF CopyMode, driver, history, Shape, Counted
<1>4. ASSUME NEW i \in Instances, Dispatch(i) PROVE Counted(j)'
  BY <1>0, <1>4 DEF Dispatch, AddContact, Connect, Return, history, Shape, Counted
<1>5. ASSUME NEW i \in Instances, Await(i) PROVE Counted(j)'
  BY <1>0, <1>5 DEF Await, Return, driver, history, Shape, Counted
<1>6. ASSUME NEW i \in Instances, AuthUser(i) PROVE Counted(j)'
  BY <1>0, <1>6 DEF AuthUser, history, Shape, Counted
<1>7. ASSUME NEW i \in Instances, AuthPass(i) PROVE Counted(j)'
  BY <1>0, <1>7 DEF AuthPass, Admitted, Refused, Forget, history, Shape, Counted
<1>8. ASSUME NEW i \in Instances, Lose(i) PROVE Counted(j)'
  BY <1>0, <1>8 DEF Lose, history, Shape, Counted
<1>9. ASSUME NEW i \in Instances, Execute(i) PROVE Counted(j)'
  BY <1>0, <1>9 DEF Execute, KeptByOk, driver, Shape, Counted
<1>10. ASSUME NEW i \in Instances, Destroy(i) PROVE Counted(j)'
  BY <1>0, <1>10 DEF Destroy, history, Shape, Counted
<1>11. CASE UNCHANGED vars
  BY <1>0, <1>11 DEF vars, driver, history, Shape, Counted
<1>12. QED
  BY <1>1, <1>2, <1>3, <1>4, <1>5, <1>6, <1>7, <1>8, <1>9, <1>10, <1>11
     DEF Next, Client, Step, Driver, Ended

(* What the destructor frees is all there is to free, of an object that was *)
(* initialised once and had no failed query.                                *)
THEOREM DestroyedOwnsNothing == Spec => []DestroyFreesAll
<1>1. Init => CountedInv
  BY DEF Init, CountedInv, Counted
<1>2. TypeInv /\ [Next]_vars => TypeInv'
  BY TypeStep, ShapeStep DEF TypeInv
<1>3. TypeInv /\ CountedInv => DestroyFreesAll
  BY DEF TypeInv, TypeOK, ShapeInv, Shape, CountedInv, Counted, DestroyFreesAll
<1>4. QED
  BY TypeInit, CountedStep, <1>1, <1>2, <1>3, PTL DEF Spec

-----------------------------------------------------------------------------
(* An initialisation that no other overlapped had the shared connection to  *)
(* itself: what it assigned is what it, and the driver for it, read back.   *)
Quiet(i) == pc[i] \in {"idle", "gone"}
Alone(i) ==
  i \notin overlap =>
    /\ ~Quiet(i) => /\ \A k \in Instances \ {i} : Quiet(k)
                    /\ m_connection.host = asked[i].host
                    /\ m_connection.user = asked[i].user
    /\ pc[i] \in {"mode", "dispatch", "wait"} => m_connection.pass = asked[i].pass
    /\ pc[i] = "dispatch" => m_connection.mode = asked[i].mode
    /\ pc[i] = "wait" => asked[i].mode \in {"password", "allow_all"}
AloneInv == \A i \in Instances : Alone(i)

LEMMA CallOverlap ==
  ASSUME NEW i \in Instances, NEW c \in Conns, Call(i, c), NEW j, j \notin overlap'
  PROVE  IF j = i THEN \A k \in Instances : Quiet(k)
                  ELSE j \notin overlap /\ (j \in Instances => Quiet(j))
BY DEF Call, Busy, Quiet

LEMMA AloneStep == TypeInv /\ AloneInv /\ [Next]_vars => AloneInv'
<1> SUFFICES ASSUME TypeOK, ShapeInv, AloneInv, [Next]_vars, NEW j \in Instances PROVE Alone(j)'
  BY DEF TypeInv, AloneInv
<1>0. /\ Alone(j) /\ m_connection \in [host : Field, user : Field, pass : Field, keyspace : Field, mode : Modes]
      /\ pc \in [Instances -> {"idle", "password", "mode", "dispatch", "wait", "gone"}]
      /\ asked \in [Instances -> Connection]
  BY DEF TypeOK, AloneInv, Connection
<1>1. ASSUME NEW i \in Instances, NEW c \in Conns, Call(i, c) PROVE Alone(j)'
  BY <1>0, <1>1, CallOverlap DEF Call, Assign, Alone, Quiet
<1>2. ASSUME NEW i \in Instances, CopyRest(i) PROVE Alone(j)'
  BY <1>0, <1>2 DEF CopyRest, Assign, history, Alone, Quiet
<1>3. ASSUME NEW i \in Instances, CopyMode(i) PROVE Alone(j)'
  BY <1>0, <1>3 DEF CopyMode, StoredMode, history, Alone, Quiet
<1>4. ASSUME NEW i \in Instances, Dispatch(i) PROVE Alone(j)'
  BY <1>0, <1>4 DEF Dispatch, Return, history, Alone, Quiet
<1>5. ASSUME NEW i \in Instances, Await(i) PROVE Alone(j)'
  BY <1>0, <1>5 DEF Await, Return, history, Alone, Quiet
<1>6. ASSUME NEW i \in Instances, AuthUser(i) PROVE Alone(j)'
  BY <1>0, <1>6 DEF AuthUser, history, Alone, Quiet
<1>7. ASSUME NEW i \in Instances, AuthPass(i) PROVE Alone(j)'
  BY <1>0, <1>7 DEF AuthPass, history, Alone, Quiet
<1>8. ASSUME NEW i \in Instances, Lose(i) PROVE Alone(j)'
  BY <1>0, <1>8 DEF Lose, history, Alone, Quiet
<1>9. ASSUME NEW i \in Instances, Execute(i) PROVE Alone(j)'
  BY <1>0, <1>9 DEF Execute, Alone, Quiet
<1>10. ASSUME NEW i \in Instances, Destroy(i) PROVE Alone(j)'
  BY <1>0, <1>10 DEF Destroy, history, Alone, Quiet
<1>11. CASE UNCHANGED vars
  BY <1>0, <1>11 DEF vars, driver, history, Alone, Quiet
<1>12. QED
  BY <1>1, <1>2, <1>3, <1>4, <1>5, <1>6, <1>7, <1>8, <1>9, <1>10, <1>11
     DEF Next, Client, Step, Driver, Ended

(* Without overlap, what the switch did is what the argument asked for.     *)
Answered(i) ==
  i \notin overlap =>
    /\ status[i] = -1 => asked[i].mode \notin {"password", "allow_all"}
    /\ status[i] \in {1, -2} => asked[i].mode \in {"password", "allow_all"}
AnsweredInv == \A i \in Instances : Answered(i)

LEMMA AnsweredStep == TypeInv /\ AloneInv /\ AnsweredInv /\ [Next]_vars => AnsweredInv'
<1> SUFFICES ASSUME TypeOK, ShapeInv, AloneInv, AnsweredInv, [Next]_vars, NEW j \in Instances PROVE Answered(j)'
  BY DEF TypeInv, AnsweredInv
<1>0. /\ Alone(j) /\ Answered(j)
      /\ pc \in [Instances -> {"idle", "password", "mode", "dispatch", "wait", "gone"}]
      /\ asked \in [Instances -> Connection] /\ status \in [Instances -> {0, 1, -1, -2}]
  BY DEF TypeOK, AloneInv, AnsweredInv
<1>1. ASSUME NEW i \in Instances, NEW c \in Conns, Call(i, c) PROVE Answered(j)'
  <2>1. CASE i = j
    BY <1>0, <1>1, <2>1 DEF Call, Answered
  <2>2. CASE i # j
    <3>1. status'[j] = status[j] /\ asked'[j] = asked[j]
      BY <1>0, <1>1, <2>2 DEF Call
    <3>2. j \notin overlap' => j \notin overlap
      BY <1>1, <2>2, CallOverlap
    <3>3. QED
      BY <1>0, <3>1, <3>2 DEF Answered
  <2>3. QED
    BY <2>1, <2>2
<1>2. ASSUME NEW i \in Instances, CopyRest(i) PROVE Answered(j)'
  BY <1>0, <1>2 DEF CopyRest, history, Alone, Answered, Quiet
<1>3. ASSUME NEW i \in Instances, CopyMode(i) PROVE Answered(j)'
  BY <1>0, <1>3 DEF CopyMode, history, Alone, Answered, Quiet
<1>4. ASSUME NEW i \in Instances, Dispatch(i) PROVE Answered(j)'
  BY <1>0, <1>4 DEF Dispatch, Return, history, Alone, Answered, Quiet
<1>5. ASSUME NEW i \in Instances, Await(i) PROVE Answered(j)'
  BY <1>0, <1>5 DEF Await, Return, Outcome, history, Alone, Answered, Quiet
<1>6. ASSUME NEW i \in Instances, AuthUser(i) PROVE Answered(j)'
  BY <1>0, <1>6 DEF AuthUser, history, Alone, Answered, Quiet
<1>7. ASSUME NEW i \in Instances, AuthPass(i) PROVE Answered(j)'
  BY <1>0, <1>7 DEF AuthPass, history, Alone, Answered, Quiet
<1>8. ASSUME NEW i \in Instances, Lose(i) PROVE Answered(j)'
  BY <1>0, <1>8 DEF Lose, history, Alone, Answered, Quiet
<1>9. ASSUME NEW i \in Instances, Execute(i) PROVE Answered(j)'
  BY <1>0, <1>9 DEF Execute, Alone, Answered, Quiet
<1>10. ASSUME NEW i \in Instances, Destroy(i) PROVE Answered(j)'
  BY <1>0, <1>10 DEF Destroy, history, Alone, Answered, Quiet
<1>11. CASE UNCHANGED vars
  BY <1>0, <1>11 DEF vars, driver, history, Alone, Answered, Quiet
<1>12. QED
  BY <1>1, <1>2, <1>3, <1>4, <1>5, <1>6, <1>7, <1>8, <1>9, <1>10, <1>11
     DEF Next, Client, Step, Driver, Ended

(* -1 is said of the modes the switch has no case for and of no other, as   *)
(* long as initialisations do not overlap.                                  *)
THEOREM RefusalsAreTrue == Spec => []UnsupportedRefused
<1>1. Init => AloneInv /\ AnsweredInv
  BY DEF Init, AloneInv, Alone, Quiet, AnsweredInv, Answered
<1>2. TypeInv /\ [Next]_vars => TypeInv'
  BY TypeStep, ShapeStep DEF TypeInv
<1>3. AnsweredInv => UnsupportedRefused
  BY DEF AnsweredInv, Answered, UnsupportedRefused
<1>4. QED
  BY TypeInit, AloneStep, AnsweredStep, <1>1, <1>2, <1>3, PTL DEF Spec

-----------------------------------------------------------------------------
(* The contact point and the credentials of an object that was initialised  *)
(* once and alone, from the cluster to the session it ends up with.         *)
Own(i) ==
  i \notin overlap \cup again =>
    /\ pc[i] \in {"password", "mode", "dispatch"} => contact[i] = {}
    /\ pc[i] = "wait" => contact[i] \subseteq {asked[i].host}
    /\ session[i] = "connecting" /\ auth[i] # << >> =>
         server[i] = asked[i].host /\ auth[i] = << asked[i].user >>
    /\ session[i] \in {"up", "lost"} =>
         server[i] = asked[i].host /\ sent[i] = << asked[i].user, asked[i].pass >>
    /\ status[i] = 1 =>
         server[i] = asked[i].host /\ sent[i] = << asked[i].user, asked[i].pass >>
OwnInv == \A i \in Instances : Own(i)

LEMMA PairOf == ASSUME NEW u, NEW p PROVE Append(<< u >>, p) = << u, p >>
<1> DEFINE T == {u, p}  s == Append(<< u >>, p)  t == << u, p >>
<1>1. << u >> \in Seq(T) /\ p \in T
  OBVIOUS
<1>2. s \in Seq(T) /\ Len(s) = 2 /\ s[1] = u /\ s[2] = p
  BY <1>1
<1>3. t \in Seq(T) /\ Len(t) = 2 /\ t[1] = u /\ t[2] = p
  OBVIOUS
<1> HIDE DEF T, s, t
<1>4. s = t
  BY <1>2, <1>3, SeqEqual
<1>5. QED
  BY <1>4 DEF s, t

(* Nobody else assigns the connection while an object initialises alone.    *)
LEMMA SeesOwn ==
  ASSUME AloneInv, NEW i \in Instances, i \notin overlap, pc[i] \in {"dispatch", "wait"},
         NEW name
  PROVE  Seen({i}, name) = {name} /\ Seen({}, name) = {name}
BY DEF AloneInv, Alone, Quiet, Seen, Assigning

LEMMA OwnStep == TypeInv /\ ConnectedInv /\ AloneInv /\ OwnInv /\ [Next]_vars => OwnInv'
<1> SUFFICES ASSUME TypeOK, ShapeInv, ConnectedInv, AloneInv, OwnInv, [Next]_vars, NEW j \in Instances PROVE Own(j)'
  BY DEF TypeInv, OwnInv
<1>0. /\ Shape(j) /\ Connected(j) /\ Alone(j) /\ Own(j)
      /\ pc \in [Instances -> {"idle", "password", "mode", "dispatch", "wait", "gone"}]
      /\ future \in [Instances -> {"null", "pending", "ok", "error"}]
      /\ session \in [Instances -> {"null", "closed", "connecting", "up", "lost"}]
      /\ asked \in [Instances -> Connection] /\ status \in [Instances -> {0, 1, -1, -2}]
      /\ DOMAIN auth = Instances /\ DOMAIN contact = Instances
      /\ DOMAIN server = Instances /\ DOMAIN sent = Instances
  BY DEF TypeOK, ShapeInv, ConnectedInv, AloneInv, OwnInv
<1>1. ASSUME NEW i \in Instances, NEW c \in Conns, Call(i, c) PROVE Own(j)'
  <2>1. CASE i = j
    <3>1. /\ pc'[j] = "password" /\ status'[j] = 0 /\ pc[j] = "idle"
          /\ session' = session /\ contact' = contact
      BY <1>0, <1>1, <2>1 DEF Call, driver
    <3>2. j \notin again' => session[j] = "null"
      BY <1>1, <2>1 DEF Call
    <3>3. QED
      BY <1>0, <3>1, <3>2 DEF Own, Shape
  <2>2. CASE i # j
    <3>1. /\ status'[j] = status[j] /\ asked'[j] = asked[j] /\ pc'[j] = pc[j]
          /\ UNCHANGED << session, contact, auth, server, sent >>
      BY <1>0, <1>1, <2>2 DEF Call, driver
    <3>2. j \notin overlap' \cup again' => j \notin overlap \cup again
      BY <1>1, <2>2, CallOverlap DEF Call
    <3>3. QED
      BY <1>0, <3>1, <3>2 DEF Own
  <2>3. QED
    BY <2>1, <2>2
<1>2. ASSUME NEW i \in Instances, CopyRest(i) PROVE Own(j)'
  BY <1>0, <1>2 DEF CopyRest, history, Shape, Connected, Alone, Own, Quiet
<1>3. ASSUME NEW i \in Instances, CopyMode(i) PROVE Own(j)'
  BY <1>0, <1>3 DEF CopyMode, driver, history, Shape, Connected, Alone, Own, Quiet
<1>4. ASSUME NEW i \in Instances, Dispatch(i) PROVE Own(j)'
  <2>1. UNCHANGED << asked, server, auth, sent, overlap, again >> /\ pc[i] = "dispatch"
    BY <1>4 DEF Dispatch, history
  <2>2. CASE i # j
    <3>1. /\ pc'[j] = pc[j] /\ status'[j] = status[j]
          /\ session'[j] = session[j] /\ contact'[j] = contact[j]
      BY <1>0, <1>4, <2>2 DEF Dispatch, AddContact, Connect, Return
    <3>2. QED
      BY <1>0, <2>1, <3>1 DEF Own
  <2>3. CASE i = j
    <3>1. SUFFICES ASSUME j \notin overlap \cup again PROVE Own(j)'
      BY <2>1, <3>1 DEF Own
    <3>2. /\ contact[j] = {} /\ status[j] = 0 /\ m_connection.host = asked[j].host
          /\ Seen({j}, m_connection.host) = {m_connection.host}
      BY <1>0, <2>1, <2>3, <3>1, SeesOwn DEF Own, Alone, Quiet, Connected
    <3>3. CASE AddContact(i) /\ pc'[j] = "wait" /\ status' = status
      <4>1. contact'[j] = {asked[j].host}
        BY <1>0, <2>3, <3>2, <3>3 DEF AddContact
      <4>2. session'[j] \in {"up", "lost"} => session[j] \in {"up", "lost"}
        BY <1>0, <1>4, <2>3 DEF Dispatch, Connect
      <4>3. session'[j] = "connecting" => auth[j] = << >>
        BY <1>0, <1>4, <2>1, <2>3 DEF Dispatch, Connect, Shape
      <4>4. QED
        BY <1>0, <2>1, <3>1, <3>2, <3>3, <4>1, <4>2, <4>3 DEF Own
    <3>4. CASE Return(i, -1) /\ UNCHANGED << session, contact >>
      <4>1. status'[j] = -1 /\ pc'[j] = "idle"
        BY <1>0, <2>3, <3>4 DEF Return
      <4>2. QED
        BY <1>0, <2>1, <3>1, <3>4, <4>1 DEF Own
    <3>5. QED
      BY <1>0, <1>4, <2>3, <3>3, <3>4 DEF Dispatch
  <2>4. QED
    BY <2>2, <2>3
<1>5. ASSUME NEW i \in Instances, Await(i) PROVE Own(j)'
  BY <1>0, <1>5 DEF Await, Return, Outcome, driver, history, Shape, Connected, Alone, Own, Quiet
<1>6. ASSUME NEW i \in Instances, AuthUser(i) PROVE Own(j)'
  <2>1. /\ UNCHANGED << pc, asked, status, session, contact, sent, overlap, again >>
        /\ session[i] \in {"connecting", "lost"} /\ auth[i] = << >>
    BY <1>6 DEF AuthUser, history
  <2>2. CASE i # j
    <3>1. auth'[j] = auth[j] /\ server'[j] = server[j]
      BY <1>0, <1>6, <2>2 DEF AuthUser
    <3>2. QED
      BY <1>0, <2>1, <3>1 DEF Own
  <2>3. CASE i = j /\ session[i] = "lost"
    <3>1. UNCHANGED server
      BY <1>6, <2>3 DEF AuthUser
    <3>2. QED
      BY <1>0, <2>1, <2>3, <3>1 DEF Own
  <2>4. CASE i = j /\ session[i] = "connecting"
    <3>1. SUFFICES ASSUME j \notin overlap \cup again PROVE Own(j)'
      BY <2>1, <3>1 DEF Own
    <3>2. pc[j] = "wait" /\ status[j] = 0 /\ contact[j] \subseteq {asked[j].host}
      BY <1>0, <2>4, <3>1 DEF Own, Shape, Connected
    <3>3. m_connection.user = asked[j].user /\ Seen({}, m_connection.user) = {m_connection.user}
      BY <1>0, <3>1, <3>2, SeesOwn DEF Alone, Quiet
    <3>4. auth'[j] = << asked[j].user >>
      BY <1>0, <1>6, <2>4, <3>3 DEF AuthUser
    <3>5. server'[j] = asked[j].host
      BY <1>0, <1>6, <2>4, <3>2 DEF AuthUser
    <3>6. QED
      BY <1>0, <2>1, <2>4, <3>1, <3>2, <3>4, <3>5 DEF Own
  <2>5. QED
    BY <2>1, <2>2, <2>3, <2>4
<1>7. ASSUME NEW i \in Instances, AuthPass(i) PROVE Own(j)'
  <2>1. /\ UNCHANGED << pc, asked, status, contact, server, overlap, again >>
        /\ session[i] \in {"connecting", "lost"} /\ auth[i] # << >>
    BY <1>7 DEF AuthPass, history
  <2>2. auth'[i] = << >> /\ \A k \in Instances \ {i} : auth'[k] = auth[k] /\ session'[k] = session[k]
    BY <1>0, <1>7 DEF AuthPass, Admitted, Refused, Forget
  <2>3. \A k \in Instances : k # i \/ session[i] = "lost" => sent'[k] = sent[k]
    BY <1>0, <1>7 DEF AuthPass
  <2>4. CASE i # j
    BY <1>0, <2>1, <2>2, <2>3, <2>4 DEF Own
  <2>5. CASE i = j /\ session[i] = "lost"
    BY <1>0, <2>1, <2>2, <2>3, <2>5 DEF Own
  <2>6. CASE i = j /\ session[i] = "connecting"
    <3>1. SUFFICES ASSUME j \notin overlap \cup again PROVE Own(j)'
      BY <2>1, <3>1 DEF Own
    <3>2. /\ pc[j] = "wait" /\ status[j] = 0 /\ contact[j] \subseteq {asked[j].host}
          /\ server[j] = asked[j].host /\ auth[j] = << asked[j].user >>
      BY <1>0, <2>1, <2>6, <3>1 DEF Own, Shape, Connected
    <3>3. m_connection.pass = asked[j].pass /\ Seen({}, m_connection.pass) = {m_connection.pass}
      BY <1>0, <3>1, <3>2, SeesOwn DEF Alone, Quiet
    <3>4. sent'[j] = Append(<< asked[j].user >>, asked[j].pass)
      BY <1>0, <1>7, <2>6, <3>2, <3>3 DEF AuthPass
    <3>5. Append(<< asked[j].user >>, asked[j].pass) = << asked[j].user, asked[j].pass >>
      BY PairOf
    <3>6. QED
      BY <1>0, <2>1, <2>2, <3>1, <3>2, <3>4, <3>5 DEF Own
  <2>7. QED
    BY <2>1, <2>4, <2>5, <2>6
<1>8. ASSUME NEW i \in Instances, Lose(i) PROVE Own(j)'
  BY <1>0, <1>8 DEF Lose, history, Shape, Connected, Alone, Own, Quiet
<1>9. ASSUME NEW i \in Instances, Execute(i) PROVE Own(j)'
  BY <1>0, <1>9 DEF Execute, driver, Shape, Connected, Alone, Own, Quiet
<1>10. ASSUME NEW i \in Instances, Destroy(i) PROVE Own(j)'
  BY <1>0, <1>10 DEF Destroy, history, Shape, Connected, Alone, Own, Quiet
<1>11. CASE UNCHANGED vars
  BY <1>0, <1>11 DEF vars, driver, history, Shape, Connected, Alone, Own, Quiet
<1>12. QED
  BY <1>1, <1>2, <1>3, <1>4, <1>5, <1>6, <1>7, <1>8, <1>9, <1>10, <1>11
     DEF Next, Client, Step, Driver, Ended

(* Objects initialised once and one after the other do not mix, although    *)
(* hosts and credentials all pass through one static.                       *)
THEOREM ConnectionsAreOwn == Spec => []OwnConnection
<1>1. Init => ConnectedInv /\ AloneInv /\ OwnInv
  BY DEF Init, ConnectedInv, Connected, AloneInv, Alone, Quiet, OwnInv, Own
<1>2. TypeInv /\ [Next]_vars => TypeInv'
  BY TypeStep, ShapeStep DEF TypeInv
<1>3. OwnInv => OwnConnection
  BY DEF OwnInv, Own, OwnConnection
<1>4. QED
  BY TypeInit, ConnectedStep, AloneStep, OwnStep, <1>1, <1>2, <1>3, PTL DEF Spec
=============================================================================
