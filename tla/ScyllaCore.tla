------------------------------ MODULE ScyllaCore ------------------------------
(***************************************************************************)
(* IScyllaDbCoreInterface (iscylladb_core_interface.cc): interface objects  *)
(* that each own a cluster, a session and a connect future, and share one   *)
(* static m_connection.  initialize_constructor copies its argument into    *)
(* m_connection field by field and acts on what it reads back; the driver's *)
(* IO threads call OnAuth::initialize, which reads the credentials from     *)
(* m_connection too, on every connect and on every reconnect of any session.*)
(* Objects may be initialised by different threads: nothing locks.          *)
(***************************************************************************)
EXTENDS Integers, Sequences, FiniteSets

CONSTANTS
  Instances,    \* interface objects
  Conns,        \* scylladb_connection_t values callers pass
  Names,        \* hosts, usernames, passwords and keyspaces
  NoName,       \* the empty string
  Garbage,      \* bytes of a string read while another thread assigns it
  MaxInits,     \* bound: calls of initialize_constructor
  MaxFaults     \* bound: refused connects, lost connections and failed queries

Modes == {"undefined", "allow_all", "password", "transitional"}
Field == Names \cup {NoName}
Connection == [host : Field, user : Field, pass : Field, keyspace : Field, mode : Modes]

ASSUME NamesAssumption == Garbage \notin Field
ASSUME ConnsAssumption == Conns \subseteq Connection /\ Conns # {}
ASSUME BoundsAssumption == MaxInits \in Nat /\ MaxFaults \in Nat

VARIABLES
  m_connection, \* the static member all objects share
  pc,           \* where the object's initialize_constructor is; "gone": destroyed
  asked,        \* the argument of its last initialize_constructor
  status,       \* what that returned; 0 while it runs
  future,       \* m_pCassFuture: null, pending, ok or error
  session,      \* m_pCassSession: null, closed, or the state the driver has it in
  contact,      \* contact points its cluster was given
  server,       \* the contact point its session connects to
  auth,         \* what its OnAuth::initialize has read so far
  sent,         \* the credentials its session connected with
  owned,        \* driver objects it made and nobody freed
  overlap,      \* history: objects whose last init ran while another did
  again,        \* history: objects initialised more than once
  failed,       \* history: objects with a failed query
  died,         \* a null future was given to the driver
  inits, faults

driver  == << future, session, contact, server, auth, sent >>
history == << overlap, again, failed, inits >>
vars == << m_connection, pc, asked, status, driver, owned, history, died, faults >>

Busy == {i \in Instances : pc[i] \notin {"idle", "gone"}}
(* A string read while another thread may be assigning m_connection.        *)
Assigning(who) == \E j \in Instances \ who : pc[j] \in {"password", "mode"}
Seen(who, name) == IF Assigning(who) THEN {name, Garbage} ELSE {name}

NoConnection == [host |-> NoName, user |-> NoName, pass |-> NoName, keyspace |-> NoName,
                 mode |-> "undefined"]
Init ==
  /\ m_connection = NoConnection
  /\ pc = [i \in Instances |-> "idle"]
  /\ asked = [i \in Instances |-> NoConnection]
  /\ status = [i \in Instances |-> 0]
  /\ future = [i \in Instances |-> "null"]
  /\ session = [i \in Instances |-> "null"]
  /\ contact = [i \in Instances |-> {}]
  /\ server = [i \in Instances |-> NoName]
  /\ auth = [i \in Instances |-> << >>]
  /\ sent = [i \in Instances |-> << >>]
  /\ owned = [i \in Instances |-> 0]
  /\ overlap = {} /\ again = {} /\ failed = {} /\ died = FALSE
  /\ inits = 0 /\ faults = 0

Fault == faults < MaxFaults /\ faults' = faults + 1
Return(i, code) == pc' = [pc EXCEPT ![i] = "idle"] /\ status' = [status EXCEPT ![i] = code]

(* initialize_constructor begins: host and username are assigned.           *)
Assign_Once(old, new) == IF old = NoName THEN new ELSE old
Assign(old, new) == new
Call(i, c) ==
  /\ pc[i] = "idle" /\ inits < MaxInits /\ inits' = inits + 1
  /\ pc' = [pc EXCEPT ![i] = "password"]
  /\ asked' = [asked EXCEPT ![i] = c] /\ status' = [status EXCEPT ![i] = 0]
  /\ m_connection' = [m_connection EXCEPT !.host = Assign(@, c.host),
                                          !.user = Assign(@, c.user)]
  /\ overlap' = (overlap \ {i}) \cup (IF Busy = {} THEN {} ELSE Busy \cup {i})
  /\ again' = IF session[i] = "null" THEN again ELSE again \cup {i}
  /\ UNCHANGED << driver, owned, failed, died, faults >>

(* The other fields, and a cluster and a session if there are none yet.     *)
CopyRest(i) ==
  /\ pc[i] = "password" /\ pc' = [pc EXCEPT ![i] = "mode"]
  /\ m_connection' = [m_connection EXCEPT !.pass = Assign(@, asked[i].pass),
                                          !.keyspace = Assign(@, asked[i].keyspace)]
  /\ IF session[i] = "null"
     THEN /\ session' = [session EXCEPT ![i] = "closed"]
          /\ owned' = [owned EXCEPT ![i] = @ + 2]
     ELSE UNCHANGED << session, owned >>
  /\ UNCHANGED << asked, status, future, contact, server, auth, sent, history, died, faults >>

StoredMode(i) == asked[i].mode
CopyMode(i) ==
  /\ pc[i] = "mode" /\ pc' = [pc EXCEPT ![i] = "dispatch"]
  /\ m_connection' = [m_connection EXCEPT !.mode = StoredMode(i)]
  /\ UNCHANGED << asked, status, driver, owned, history, died, faults >>

(* The switch is over the static auth_mode and the contact point added is   *)
(* the static host.  A session that is not closed refuses to connect.       *)
AddContact(i) ==
  \E h \in Seen({i}, m_connection.host) : contact' = [contact EXCEPT ![i] = @ \cup {h}]
Connect(i) ==
  /\ future' = [future EXCEPT ![i] = IF session[i] = "closed" THEN "pending" ELSE "error"]
  /\ session' = [session EXCEPT ![i] = IF @ = "closed" THEN "connecting" ELSE @]
  /\ owned' = [owned EXCEPT ![i] = @ + 1]
Dispatch(i) ==
  /\ pc[i] = "dispatch"
  /\ \/ /\ m_connection.mode = "password"
        /\ AddContact(i) /\ Connect(i)
        /\ pc' = [pc EXCEPT ![i] = "wait"] /\ UNCHANGED status
     \/ /\ m_connection.mode = "allow_all"
        /\ AddContact(i)
        /\ pc' = [pc EXCEPT ![i] = "wait"] /\ UNCHANGED << status, future, session, owned >>
     \/ /\ m_connection.mode \notin {"password", "allow_all"}
        /\ Return(i, -1) /\ UNCHANGED << future, session, contact, owned >>
  /\ UNCHANGED << m_connection, asked, server, auth, sent, history, died, faults >>

(* cass_future_error_code waits for the future; a null one is undefined.    *)
Outcome_Ignored(i) == 1
Outcome(i) == IF future[i] = "ok" THEN 1 ELSE -2
Await(i) ==
  /\ pc[i] = "wait"
  /\ \/ future[i] = "null" /\ died' = TRUE /\ UNCHANGED << pc, status >>
     \/ future[i] \in {"ok", "error"} /\ Return(i, Outcome(i)) /\ UNCHANGED died
  /\ UNCHANGED << m_connection, asked, driver, owned, history, faults >>

-----------------------------------------------------------------------------
(* The driver authenticates a session that connects or lost its connection: *)
(* OnAuth::initialize reads the username, then the password, then answers.  *)
AuthUser(i) ==
  /\ session[i] \in {"connecting", "lost"} /\ auth[i] = << >>
  /\ \E u \in Seen({}, m_connection.user) : auth' = [auth EXCEPT ![i] = << u >>]
  /\ IF session[i] = "connecting"
     THEN \E h \in contact[i] : server' = [server EXCEPT ![i] = h]
     ELSE UNCHANGED server
  /\ UNCHANGED << m_connection, pc, asked, status, future, session, contact, sent, owned,
                  history, died, faults >>

(* A server lets in who sends a username and a password it knows.           *)
Admits(h, pair) == \E c \in Conns : c.host = h /\ << c.user, c.pass >> = pair
Admitted(i) ==
  /\ session' = [session EXCEPT ![i] = "up"]
  /\ future' = IF session[i] = "connecting" THEN [future EXCEPT ![i] = "ok"] ELSE future
Refused(i) ==
  IF session[i] = "connecting"
  THEN session' = [session EXCEPT ![i] = "closed"] /\ future' = [future EXCEPT ![i] = "error"]
  ELSE UNCHANGED << session, future >>
Forget_Never(i) == auth
Forget(i) == [auth EXCEPT ![i] = << >>]
AuthPass(i) ==
  /\ session[i] \in {"connecting", "lost"} /\ auth[i] # << >>
  /\ \E p \in Seen({}, m_connection.pass) :
       LET pair == Append(auth[i], p) IN
         /\ sent' = IF session[i] = "connecting" THEN [sent EXCEPT ![i] = pair] ELSE sent
         /\ \/ Admits(server[i], pair) /\ Admitted(i) /\ UNCHANGED faults
            \/ ~Admits(server[i], pair) /\ Refused(i) /\ UNCHANGED faults
            \/ Refused(i) /\ Fault
  /\ auth' = Forget(i)
  /\ UNCHANGED << m_connection, pc, asked, status, contact, server, owned, history, died >>

Lose(i) ==
  /\ session[i] = "up" /\ Fault
  /\ session' = [session EXCEPT ![i] = "lost"]
  /\ UNCHANGED << m_connection, pc, asked, status, future, contact, server, auth, sent, owned,
                  history, died >>

-----------------------------------------------------------------------------
(* execute_cqlsh frees its statement and its future unless the query fails. *)
KeptByOk_Statement == 1
KeptByOk == 0
Execute(i) ==
  /\ pc[i] = "idle" /\ session[i] # "null"
  /\ \/ /\ session[i] = "up" /\ owned' = [owned EXCEPT ![i] = @ + KeptByOk]
        /\ UNCHANGED << failed, faults >>
     \/ /\ Fault /\ owned' = [owned EXCEPT ![i] = @ + 2] /\ failed' = failed \cup {i}
  /\ UNCHANGED << m_connection, pc, asked, status, driver, overlap, again, inits, died >>

(* ~_IScyllaDb frees the future, the cluster and the session.               *)
Destroy(i) ==
  /\ pc[i] = "idle"
  /\ IF future[i] = "null"
     THEN died' = TRUE /\ UNCHANGED << pc, future, session, auth, owned >>
     ELSE /\ pc' = [pc EXCEPT ![i] = "gone"]
          /\ future' = [future EXCEPT ![i] = "null"]
          /\ session' = [session EXCEPT ![i] = "null"]
          /\ auth' = [auth EXCEPT ![i] = << >>]
          /\ owned' = [owned EXCEPT ![i] = @ - 3] /\ UNCHANGED died
  /\ UNCHANGED << m_connection, asked, status, contact, server, sent, history, faults >>

Step(i)   == CopyRest(i) \/ CopyMode(i) \/ Dispatch(i) \/ Await(i)
Driver(i) == AuthUser(i) \/ AuthPass(i)
Client(i) == (\E c \in Conns : Call(i, c)) \/ Execute(i) \/ Destroy(i)
Ended == (died \/ \A i \in Instances : pc[i] = "gone") /\ UNCHANGED vars
Next == (~died /\ \E i \in Instances : Client(i) \/ Step(i) \/ Driver(i) \/ Lose(i)) \/ Ended

Spec == Init /\ [][Next]_vars
(* A call goes on in its thread and the driver's IO threads keep running.   *)
FairSpec == Spec /\ \A i \in Instances : WF_vars(~died /\ Step(i)) /\ WF_vars(~died /\ Driver(i))

-----------------------------------------------------------------------------
(* The type of every variable; no object is freed more often than made.     *)
TypeOK ==
  /\ m_connection \in Connection
  /\ pc \in [Instances -> {"idle", "password", "mode", "dispatch", "wait", "gone"}]
  /\ asked \in [Instances -> Connection]
  /\ status \in [Instances -> {0, 1, -1, -2}]
  /\ future \in [Instances -> {"null", "pending", "ok", "error"}]
  /\ session \in [Instances -> {"null", "closed", "connecting", "up", "lost"}]
  /\ contact \in [Instances -> SUBSET (Field \cup {Garbage})]
  /\ server \in [Instances -> Field \cup {Garbage}]
  /\ auth \in [Instances -> Seq(Field \cup {Garbage})]
  /\ sent \in [Instances -> Seq(Field \cup {Garbage})]
  /\ owned \in [Instances -> Nat]
  /\ overlap \subseteq Instances /\ again \subseteq Instances /\ failed \subseteq Instances
  /\ died \in BOOLEAN /\ inits \in 0 .. MaxInits /\ faults \in 0 .. MaxFaults

(* When initialize_constructor has returned 1, the object's own session is  *)
(* connected or being reconnected, whatever the other objects and their     *)
(* threads do and however often it was called (129-144).                    *)
OkMeansConnected ==
  \A i \in Instances : status[i] = 1 /\ pc[i] # "gone" => session[i] \in {"up", "lost"}

(* Objects initialised one after the other do not mix: although host and    *)
(* credentials go through one static, an object initialised once, in        *)
(* password mode, with no other init in progress, is connected to the host  *)
(* it asked for under its own credentials (72-74, 106-116, 20-33).          *)
OwnConnection ==
  \A i \in Instances \ (overlap \cup again) :
    status[i] = 1 => server[i] = asked[i].host /\ sent[i] = << asked[i].user, asked[i].pass >>

(* Without overlap the error -1 tells what it says: the mode that was asked *)
(* for is one the switch does not implement (104-127).                      *)
UnsupportedRefused ==
  \A i \in Instances \ overlap :
    /\ status[i] = -1 => asked[i].mode \notin {"password", "allow_all"}
    /\ status[i] \in {1, -2} => asked[i].mode \in {"password", "allow_all"}

(* An object initialised once whose queries all succeeded leaves no driver  *)
(* object behind when it is destroyed (56-60, 248-249).                     *)
DestroyFreesAll ==
  \A i \in Instances \ (again \cup failed) : pc[i] = "gone" => owned[i] = 0

(* A session that lost its connection comes back if the credentials in the  *)
(* shared m_connection, whoever put them there, end up being some that its  *)
(* server knows: OnAuth::initialize reads them anew each time (20-21).      *)
LostComesBack ==
  \A i \in Instances :
    <>[]Admits(server[i], << m_connection.user, m_connection.pass >>)
      => (session[i] = "lost" ~> session[i] # "lost" \/ died)
=============================================================================
