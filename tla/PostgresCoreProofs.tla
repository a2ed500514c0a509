-------------------------- MODULE PostgresCoreProofs --------------------------
(***************************************************************************)
(* Theorems about PostgresCore, for any objects, any number of connections  *)
(* and whatever the server does.                                           *)
(***************************************************************************)
EXTENDS PostgresCore, TLAPS

(* Nobody's handle is anybody else's, alive or gone, nor one that was lost; *)
(* what is released was a destroyed object's.                               *)
Owned ==
  /\ \A o, p \in Object : o # p /\ m_pConn[o] # None => m_pConn[p] # m_pConn[o]
  /\ \A o \in Object : m_pConn[o] \notin replaced
  /\ \A h \in finished : \E o \in Object : pc[o] = "gone" /\ m_pConn[o] = h

(* What made is, handle by handle.                                          *)
Accounted ==
  \A h \in Handle :
    h \in made /\ h \notin finished <=>
      h \in replaced \/ \E o \in Object : pc[o] # "gone" /\ m_pConn[o] = h

(* While the process runs libpq takes for bad only what the server has      *)
(* ended.                                                                   *)
Seen == process = "running" => bad \subseteq dropped

Safe == TypeOK /\ Owned /\ Accounted /\ Seen

-----------------------------------------------------------------------------
USE DEF None

LEMMA InitSafe == Init => Safe
BY HandleAssumption DEF Init, Safe, TypeOK, Owned, Accounted, Seen

(* What a step is: a call that goes on with its handle and everybody else's  *)
(* unchanged, a new handle, a destructor, a session that ends.               *)
Stays == UNCHANGED << m_pConn, made, finished, replaced >>
Keeping(o) ==
  \/ Initialize(o) \/ Throw(o) \/ NoConnection(o) \/ StartQuery(o) \/ CopyRace(o)
  \/ \E create_db \in BOOLEAN : Copied(o, create_db)
  \/ CreateDatabase(o) \/ Answer(o) \/ AnswerWithoutRow(o)

LEMMA KeepingFacts ==
  ASSUME TypeOK, NEW o \in Object, Keeping(o)
  PROVE  /\ Stays /\ process = "running" /\ pc[o] # "gone"
         /\ pc'[o] # "gone" /\ \A p \in Object \ {o} : pc'[p] = pc[p]
<1> USE DEF TypeOK, Stays, Goto
<1>1. CASE Initialize(o)
  BY <1>1 DEF Initialize
<1>2. CASE Throw(o)
  BY <1>2 DEF Throw
<1>3. CASE NoConnection(o)
  BY <1>3 DEF NoConnection
<1>4. CASE StartQuery(o)
  BY <1>4 DEF StartQuery
<1>5. CASE CopyRace(o)
  BY <1>5 DEF CopyRace
<1>6. CASE \E create_db \in BOOLEAN : Copied(o, create_db)
  BY <1>6 DEF Copied
<1>7. CASE CreateDatabase(o)
  BY <1>7 DEF CreateDatabase
<1>8. CASE Answer(o)
  BY <1>8 DEF Answer
<1>9. CASE AnswerWithoutRow(o)
  BY <1>9 DEF AnswerWithoutRow
<1> QED
  BY <1>1, <1>2, <1>3, <1>4, <1>5, <1>6, <1>7, <1>8, <1>9 DEF Keeping

LEMMA StepCases ==
  ASSUME [Next]_vars
  PROVE  \/ UNCHANGED vars
         \/ \E o \in Object : Keeping(o) \/ Connect(o) \/ Refuse(o) \/ Destroy(o)
         \/ \E h \in Handle : Drop(h)
BY DEF Next, Thread, Keeping

LEMMA TypeStep == TypeOK /\ [Next]_vars => TypeOK'
<1> SUFFICES ASSUME TypeOK, [Next]_vars PROVE TypeOK'
  OBVIOUS
<1> USE DEF TypeOK
<1>1. ASSUME NEW o \in Object, Keeping(o) PROVE TypeOK'
  <2>1. CASE Initialize(o)
    BY <2>1 DEF Goto, Initialize
  <2>2. CASE Throw(o)
    BY <2>2 DEF Goto, Throw
  <2>3. CASE NoConnection(o)
    BY <2>3 DEF Goto, NoConnection
  <2>4. CASE StartQuery(o)
    BY <2>4 DEF Goto, StartQuery
  <2>5. CASE CopyRace(o)
    BY <2>5 DEF Goto, CopyRace
  <2>6. CASE CreateDatabase(o)
    BY <2>6 DEF Goto, CreateDatabase, Noticed
  <2>7. CASE Answer(o)
    BY <2>7 DEF Goto, Answer
  <2>8. CASE AnswerWithoutRow(o)
    BY <2>8 DEF Goto, AnswerWithoutRow
  <2>9. CASE \E create_db \in BOOLEAN : Copied(o, create_db)
    BY <2>9 DEF Goto, Copied
  <2> QED
    BY <1>1, <2>1, <2>2, <2>3, <2>4, <2>5, <2>6, <2>7, <2>8, <2>9 DEF Keeping
<1>2. ASSUME NEW o \in Object, Connect(o) PROVE TypeOK'
  BY <1>2 DEF Connect, Goto, Assigned, Held
<1>3. ASSUME NEW o \in Object, Refuse(o) PROVE TypeOK'
  BY <1>3 DEF Refuse, Goto, Assigned, Held
<1>4. ASSUME NEW o \in Object, Destroy(o) PROVE TypeOK'
  BY <1>4 DEF Destroy, Goto, Freed, Held
<1>5. ASSUME NEW h \in Handle, Drop(h) PROVE TypeOK'
  BY <1>5 DEF Drop
<1>6. CASE UNCHANGED vars
  BY <1>6 DEF vars
<1> QED
  BY StepCases, <1>1, <1>2, <1>3, <1>4, <1>5, <1>6

LEMMA OwnedStep == TypeOK /\ Owned /\ [Next]_vars => Owned'
<1> SUFFICES ASSUME TypeOK, Owned, [Next]_vars PROVE Owned'
  OBVIOUS
<1> USE DEF TypeOK, Owned
<1>1. ASSUME NEW o \in Object, Keeping(o) PROVE Owned'
  BY <1>1, KeepingFacts DEF Stays
<1>2. ASSUME NEW o \in Object, Connect(o) PROVE Owned'
  <2>1. PICK h \in Handle \ made : /\ m_pConn' = [m_pConn EXCEPT ![o] = h]
                               /\ replaced' = replaced \cup ({m_pConn[o]} \ {None})
                               /\ finished' = finished /\ pc[o] # "gone"
                               /\ pc' = [pc EXCEPT ![o] = "create"]
    BY <1>2 DEF Connect, Goto, Assigned, Held
  <2> QED
    BY <2>1, HandleAssumption
<1>3. ASSUME NEW o \in Object, Refuse(o) PROVE Owned'
  <2>1. PICK h \in Handle \ made : /\ m_pConn' = [m_pConn EXCEPT ![o] = h]
                               /\ replaced' = replaced \cup ({m_pConn[o]} \ {None})
                               /\ finished' = finished /\ pc[o] # "gone"
                               /\ pc' = [pc EXCEPT ![o] = "abort"]
    BY <1>3 DEF Refuse, Goto, Assigned, Held
  <2> QED
    BY <2>1, HandleAssumption
<1>4. ASSUME NEW o \in Object, Destroy(o) PROVE Owned'
  BY <1>4 DEF Destroy, Goto, Freed, Held
<1>5. ASSUME NEW h \in Handle, Drop(h) PROVE Owned'
  BY <1>5 DEF Drop
<1>6. CASE UNCHANGED vars
  BY <1>6 DEF vars
<1> QED
  BY StepCases, <1>1, <1>2, <1>3, <1>4, <1>5, <1>6

LEMMA AccountedStep == TypeOK /\ Owned /\ Accounted /\ [Next]_vars => Accounted'
<1> SUFFICES ASSUME TypeOK, Owned, Accounted, [Next]_vars PROVE Accounted'
  OBVIOUS
<1> USE DEF TypeOK, Owned, Accounted
<1>1. ASSUME NEW o \in Object, Keeping(o) PROVE Accounted'
  BY <1>1, KeepingFacts DEF Stays
<1>2. ASSUME NEW o \in Object, Connect(o) PROVE Accounted'
  <2>1. PICK h \in Handle \ made : /\ m_pConn' = [m_pConn EXCEPT ![o] = h] /\ made' = made \cup {h}
                               /\ replaced' = replaced \cup ({m_pConn[o]} \ {None})
                               /\ finished' = finished /\ pc[o] # "gone"
                               /\ pc' = [pc EXCEPT ![o] = "create"]
    BY <1>2 DEF Connect, Goto, Assigned, Held
  <2> QED
    BY <2>1, HandleAssumption
<1>3. ASSUME NEW o \in Object, Refuse(o) PROVE Accounted'
  <2>1. PICK h \in Handle \ made : /\ m_pConn' = [m_pConn EXCEPT ![o] = h] /\ made' = made \cup {h}
                               /\ replaced' = replaced \cup ({m_pConn[o]} \ {None})
                               /\ finished' = finished /\ pc[o] # "gone"
                               /\ pc' = [pc EXCEPT ![o] = "abort"]
    BY <1>3 DEF Refuse, Goto, Assigned, Held
  <2> QED
    BY <2>1, HandleAssumption
<1>4. ASSUME NEW o \in Object, Destroy(o) PROVE Accounted'
  BY <1>4, HandleAssumption DEF Destroy, Goto, Freed, Held
<1>5. ASSUME NEW h \in Handle, Drop(h) PROVE Accounted'
  BY <1>5 DEF Drop
<1>6. CASE UNCHANGED vars
  BY <1>6 DEF vars
<1> QED
  BY StepCases, <1>1, <1>2, <1>3, <1>4, <1>5, <1>6

LEMMA SeenStep == TypeOK /\ Owned /\ Seen /\ [Next]_vars => Seen'
<1> SUFFICES ASSUME TypeOK, Owned, Seen, [Next]_vars PROVE Seen'
  OBVIOUS
<1> USE DEF TypeOK, Seen
<1>1. ASSUME NEW o \in Object, Keeping(o) PROVE Seen'
  <2>1. CASE Initialize(o)
    BY <2>1 DEF Goto, Initialize
  <2>2. CASE Throw(o)
    BY <2>2 DEF Goto, Throw
  <2>3. CASE NoConnection(o)
    BY <2>3 DEF Goto, NoConnection
  <2>4. CASE StartQuery(o)
    BY <2>4 DEF Goto, StartQuery, Usable
  <2>5. CASE CopyRace(o)
    BY <2>5 DEF Goto, CopyRace
  <2>6. CASE CreateDatabase(o)
    BY <2>6, HandleAssumption DEF Goto, CreateDatabase, Noticed, Owned
  <2>7. CASE Answer(o)
    BY <2>7 DEF Goto, Answer
  <2>8. CASE AnswerWithoutRow(o)
    BY <2>8 DEF Goto, AnswerWithoutRow
  <2>9. CASE \E create_db \in BOOLEAN : Copied(o, create_db)
    BY <2>9 DEF Goto, Copied
  <2> QED
    BY <1>1, <2>1, <2>2, <2>3, <2>4, <2>5, <2>6, <2>7, <2>8, <2>9 DEF Keeping
<1>2. ASSUME NEW o \in Object, Connect(o) PROVE Seen'
  BY <1>2, HandleAssumption DEF Connect, Goto, Assigned
<1>3. ASSUME NEW o \in Object, Refuse(o) PROVE Seen'
  BY <1>3, HandleAssumption DEF Refuse, Goto, Assigned
<1>4. ASSUME NEW o \in Object, Destroy(o) PROVE Seen'
  BY <1>4 DEF Destroy, Goto
<1>5. ASSUME NEW h \in Handle, Drop(h) PROVE Seen'
  BY <1>5 DEF Drop
<1>6. CASE UNCHANGED vars
  BY <1>6 DEF vars
<1> QED
  BY StepCases, <1>1, <1>2, <1>3, <1>4, <1>5, <1>6

LEMMA Safety == Spec => []Safe
<1>1. Safe /\ [Next]_vars => Safe'
  BY TypeStep, OwnedStep, AccountedStep, SeenStep DEF Safe
<1> QED
  BY InitSafe, <1>1, PTL DEF Spec

-----------------------------------------------------------------------------
(* Handles are made before they are held, released or lost.                 *)
THEOREM TypeCorrect == Spec => []TypeOK
BY Safety, PTL DEF Safe

(* No object queries or releases the session of another, nor one that is    *)
(* released or lost (7-11, 32).                                             *)
THEOREM HandlesAreOwn == Spec => []OwnHandle
<1>1. Safe => OwnHandle
  <2> SUFFICES ASSUME Safe, NEW o \in Object, pc[o] # "gone", m_pConn[o] # None
               PROVE  /\ m_pConn[o] \in made \ (finished \cup replaced)
                      /\ \A p \in Object \ {o} : m_pConn[p] # m_pConn[o]
    BY DEF OwnHandle
  <2>1. m_pConn[o] \in made
    BY DEF Safe, TypeOK
  <2> QED
    BY <2>1 DEF Safe, Owned
<1> QED
  BY <1>1, Safety, PTL

(* Sessions are released by destructors, except those that a second         *)
(* initialize_database of an object has lost (32).                          *)
THEOREM SessionsAreAccounted == Spec => []HandlesAccounted
<1>1. Safe => HandlesAccounted
  <2> SUFFICES ASSUME Safe PROVE HandlesAccounted
    OBVIOUS
  <2>1. made \subseteq Handle /\ replaced \subseteq Handle
    BY DEF Safe, TypeOK
  <2>2. \A h \in Handle : h \in made \ finished <=>
          h \in replaced \cup {g \in made : \E o \in Object : pc[o] # "gone" /\ m_pConn[o] = g}
    BY DEF Safe, Accounted, TypeOK
  <2> QED
    BY <2>1, <2>2 DEF HandlesAccounted
<1> QED
  BY <1>1, Safety, PTL

(* A uuid is empty only if there was no session, or libpq had seen it end.  *)
THEOREM EmptiesHaveCause == Spec => EmptyHasCause
<1> DEFINE A == \A o \in Object :
       uuid[o] # "empty" /\ uuid'[o] = "empty" =>
         m_pConn[o] = None \/ m_pConn[o] \in bad \cap dropped
<1>1. Safe /\ [Next]_vars => [A]_vars
  <2> SUFFICES ASSUME Safe, Next PROVE A
    OBVIOUS
  <2> USE DEF Safe, TypeOK
  <2>1. ASSUME NEW o \in Object, NoConnection(o) PROVE A
    BY <2>1 DEF NoConnection, Usable, Goto, Seen
  <2>2. ASSUME NEW o \in Object, Initialize(o) \/ Throw(o) \/ StartQuery(o) \/ Destroy(o) PROVE A
    BY <2>2 DEF Initialize, Throw, StartQuery, Destroy
  <2>3. ASSUME NEW o \in Object, Thread(o) PROVE A
    BY <2>3 DEF Thread, Copied, CopyRace, Connect, Refuse, CreateDatabase, Answer, AnswerWithoutRow
  <2>4. ASSUME NEW h \in Handle, Drop(h) PROVE A
    BY <2>4 DEF Drop
  <2> QED
    BY <2>1, <2>2, <2>3, <2>4 DEF Next
<1> QED
  BY <1>1, Safety, PTL DEF Spec, EmptyHasCause
=============================================================================
