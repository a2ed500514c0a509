----------------------------- MODULE PostgresCore -----------------------------
(***************************************************************************)
(* IPostgreSqlCoreInterface::_IPostgreSQL: initialize_database, the two     *)
(* uuid queries and the destructor, of several objects that are each used   *)
(* by a thread of its own, against a server that may refuse a connection,   *)
(* drop one, fail a statement or lack the uuid extension.                   *)
(*                                                                         *)
(* The static m_connection is written by every initialize_database and      *)
(* read by nothing: what it holds is left out, that two threads write it at *)
(* once is not.                                                             *)
(***************************************************************************)
CONSTANTS Object, Handle    \* Handle: the PGconn there can be, a bound
None == "none"

ASSUME HandleAssumption == None \notin Handle

VARIABLES
  process,   \* "running", or how it ended: "aborted" or "crashed"
  pc,        \* what the thread of an object is in, "gone" once it is destroyed
  m_pConn,   \* the handle an object holds, or None
  status,    \* what initialize_database returned: "1", "-69", or None
  uuid,      \* what a uuid query returned: "value", "empty" or None
  made,      \* handles that PQconnectdb has returned
  finished,  \* handles that PQfinish has released
  bad,       \* handles of which PQstatus is not CONNECTION_OK
  dropped,   \* handles whose session the server has ended
  replaced,  \* history: handles that an object held before its present one
  extension  \* the server has the functions of uuid-ossp

vars == << process, pc, m_pConn, status, uuid, made, finished, bad, dropped, replaced,
           extension >>

Init ==
  /\ process = "running" /\ pc = [o \in Object |-> "idle"]
  /\ m_pConn = [o \in Object |-> None]
  /\ status = [o \in Object |-> None] /\ uuid = [o \in Object |-> None]
  /\ made = {} /\ finished = {} /\ bad = {} /\ dropped = {} /\ replaced = {}
  /\ extension \in BOOLEAN

Goto(o, from, to) == process = "running" /\ pc[o] = from /\ pc' = [pc EXCEPT ![o] = to]
Held(o) == {m_pConn[o]} \ {None}

-----------------------------------------------------------------------------
Initialize(o) ==
  /\ Goto(o, "idle", "copy")
  /\ status' = [status EXCEPT ![o] = None] /\ uuid' = [uuid EXCEPT ![o] = None]
  /\ UNCHANGED << process, m_pConn, made, finished, bad, dropped, replaced, extension >>

(* The five strings are in the static.  Without create_db that was all.     *)
Copied(o, create_db) ==
  /\ Goto(o, "copy", IF create_db THEN "connect" ELSE "idle")
  /\ status' = [status EXCEPT ![o] = IF create_db THEN None ELSE "1"]
  /\ UNCHANGED << process, m_pConn, uuid, made, finished, bad, dropped, replaced, extension >>
(* Two threads that assign to one string at once: undefined, and it may end *)
(* the process.                                                             *)
Copying(o) == \E p \in Object \ {o} : pc[p] = "copy"
CopyRace(o) ==
  /\ Copying(o) /\ Goto(o, "copy", "crash") /\ process' = "crashed"
  /\ UNCHANGED << m_pConn, status, uuid, made, finished, bad, dropped, replaced, extension >>

(* Building a string may throw, before and after the connection is made.    *)
Throw(o) ==
  /\ pc[o] \in {"connect", "create"} /\ Goto(o, pc[o], "idle")
  /\ status' = [status EXCEPT ![o] = "-69"]
  /\ UNCHANGED << process, m_pConn, uuid, made, finished, bad, dropped, replaced, extension >>

(* The handle goes into m_pConn whatever stood there.                       *)
Assigned_Static(o, h) == [p \in Object |-> h]
Assigned(o, h) == [m_pConn EXCEPT ![o] = h]
Connect(o) ==
  \E h \in Handle \ made :
    /\ Goto(o, "connect", "create") /\ made' = made \cup {h}
    /\ m_pConn' = Assigned(o, h) /\ replaced' = replaced \cup Held(o)
    /\ UNCHANGED << process, status, uuid, finished, bad, dropped, extension >>
(* A connection that is not made ends the process, all objects with it.     *)
Refuse(o) ==
  \E h \in Handle \ made :
    /\ Goto(o, "connect", "abort") /\ made' = made \cup {h}
    /\ m_pConn' = Assigned(o, h) /\ bad' = bad \cup {h}
    /\ replaced' = replaced \cup Held(o)
    /\ process' = "aborted"
    /\ UNCHANGED << status, uuid, finished, dropped, extension >>

(* The database is created, or not: nobody looks.  libpq sees here that     *)
(* the session is gone.                                                     *)
Noticed_OfAnyFailure(h) == bad \cup {h}
Noticed(h) == IF h \in dropped THEN bad \cup {h} ELSE bad
CreateDatabase_UntilMade(o) ==
  /\ Goto(o, "create", "create") /\ bad' = Noticed(m_pConn[o])
  /\ UNCHANGED << process, m_pConn, status, uuid, made, finished, dropped, replaced, extension >>
CreateDatabase(o) ==
  /\ Goto(o, "create", "idle") /\ status' = [status EXCEPT ![o] = "1"]
  /\ bad' = Noticed(m_pConn[o])
  /\ UNCHANGED << process, m_pConn, uuid, made, finished, dropped, replaced, extension >>

(* generate_uuid_v1_as_string and generate_uuid_v4_as_string: PQstatus of   *)
(* no handle is not CONNECTION_OK, and of a handle is what libpq last saw.  *)
Usable(o) == m_pConn[o] # None /\ m_pConn[o] \notin bad
NoConnection(o) ==
  /\ ~Usable(o) /\ Goto(o, "idle", "idle") /\ uuid' = [uuid EXCEPT ![o] = "empty"]
  /\ UNCHANGED << process, m_pConn, status, made, finished, bad, dropped, replaced, extension >>
StartQuery(o) ==
  /\ Usable(o) /\ Goto(o, "idle", "query") /\ uuid' = [uuid EXCEPT ![o] = None]
  /\ UNCHANGED << process, m_pConn, status, made, finished, bad, dropped, replaced, extension >>
Answer(o) ==
  /\ extension /\ m_pConn[o] \notin dropped
  /\ Goto(o, "query", "idle") /\ uuid' = [uuid EXCEPT ![o] = "value"]
  /\ UNCHANGED << process, m_pConn, status, made, finished, bad, dropped, replaced, extension >>
(* A query that failed, for whatever reason, has no row: PQgetvalue is a    *)
(* null pointer, and assigning that to a string reads address 0.            *)
AnswerWithoutRow(o) ==
  /\ Goto(o, "query", "crash") /\ process' = "crashed"
  /\ UNCHANGED << m_pConn, status, uuid, made, finished, bad, dropped, replaced, extension >>

Freed_None(o) == {}
Freed(o) == Held(o)
Destroy(o) ==
  /\ Goto(o, "idle", "gone") /\ finished' = finished \cup Freed(o)
  /\ UNCHANGED << process, m_pConn, status, uuid, made, bad, dropped, replaced, extension >>

(* The server, or the network.                                              *)
Drop(h) ==
  /\ process = "running" /\ h \in made \ dropped /\ dropped' = dropped \cup {h}
  /\ UNCHANGED << process, pc, m_pConn, status, uuid, made, finished, bad, replaced, extension >>

Thread(o) == \/ \E create_db \in BOOLEAN : Copied(o, create_db)
             \/ CopyRace(o) \/ Connect(o) \/ Refuse(o)
             \/ CreateDatabase(o) \/ Answer(o) \/ AnswerWithoutRow(o)
Next == \/ \E o \in Object : \/ Initialize(o) \/ Throw(o) \/ NoConnection(o) \/ StartQuery(o)
                             \/ Destroy(o) \/ Thread(o)
        \/ \E h \in Handle : Drop(h)
Spec == Init /\ [][Next]_vars
(* The thread of a call runs and the server answers it, well or badly.      *)
FairSpec == Spec /\ \A o \in Object : WF_vars(Thread(o))

-----------------------------------------------------------------------------
TypeOK ==
  /\ process \in {"running", "aborted", "crashed"}
  /\ pc \in [Object -> {"idle", "copy", "connect", "create", "query", "abort", "crash", "gone"}]
  /\ m_pConn \in [Object -> made \cup {None}]
  /\ status \in [Object -> {"1", "-69", None}] /\ uuid \in [Object -> {"value", "empty", None}]
  /\ made \subseteq Handle /\ finished \subseteq made /\ bad \subseteq made /\ dropped \subseteq made
  /\ replaced \subseteq made /\ extension \in BOOLEAN

(* Every object has its handle for itself, made and until its destruction   *)
(* not released: nothing is queried or released after PQfinish (7-11).      *)
OwnHandle ==
  \A o \in Object : pc[o] # "gone" /\ m_pConn[o] # None =>
    /\ m_pConn[o] \in made \ (finished \cup replaced)
    /\ \A p \in Object \ {o} : m_pConn[p] # m_pConn[o]

(* What is not released is held by an object that lives or was lost to a    *)
(* second initialize_database of its object (32): when all are destroyed,   *)
(* only those sessions stay.                                                *)
HandlesAccounted ==
  made \ finished = replaced \cup {h \in made : \E o \in Object : pc[o] # "gone" /\ m_pConn[o] = h}

(* A uuid query that returns an empty string had no connection: none was    *)
(* made, or the server has ended it and libpq knows.  So after an           *)
(* initialize_database with create_db that returned 1, an object whose      *)
(* session lives gets a value.                                              *)
EmptyHasCause ==
  [][\A o \in Object :
       uuid[o] # "empty" /\ uuid'[o] = "empty" =>
         m_pConn[o] = None \/ m_pConn[o] \in bad \cap dropped]_vars

(* Every call returns, or the process ends, unless all connections of the   *)
(* instance are made before it has one.                                     *)
CallReturns ==
  \A o \in Object : pc[o] \in {"copy", "create", "query"} ~>
    \/ pc[o] = "idle" \/ process # "running"
    \/ pc[o] = "connect" /\ made = Handle
=============================================================================
