----------------------------- MODULE CouchbaseCore -----------------------------
(***************************************************************************)
(* ICouchbaseCoreInterface::_ICouchbase (icouchbase_core_interface.cc):     *)
(* initialize_constructor moves the caller's strings into m_connection,     *)
(* connects, looks for the bucket, the scope and the collection and creates *)
(* those it did not find.  Several objects, of one program or of several,   *)
(* do so against one server, and one may drop its collection (the cleanup   *)
(* of tests/test_database_couchbase_rw.cc).                                 *)
(***************************************************************************)
EXTENDS Integers, Sequences, FiniteSetsExt

CONSTANTS
  Instances,    \* interface objects
  Conns,        \* couchbase_connection_t values callers fill in
  Names,        \* strings that are not empty
  Empty,        \* the empty string
  Default,      \* "bucket_default"
  Debug,        \* the objects of programs built with BEHH_IS_DEBUG
  MaxCalls,     \* bound: calls of initialize_constructor
  MaxFaults     \* bound: requests that fail though they might have been served

Field == {"host", "username", "password", "scope", "bucket", "collection"}
Connection == [Field -> Names \cup {Empty}]
(* What a release build returns for an empty field; the fields are looked   *)
(* at in the order of these codes.                                          *)
Code == [host |-> -1, username |-> -2, password |-> -3, scope |-> -4, bucket |-> -5,
         collection |-> -7]

ASSUME NamesAssumption == Empty \notin Names /\ Default \notin Names \cup {Empty}
ASSUME ConnsAssumption == Conns \subseteq Connection
ASSUME DebugAssumption == Debug \subseteq Instances
ASSUME BoundsAssumption == MaxCalls \in Nat /\ MaxFaults \in Nat

VARIABLES
  conn,     \* the caller's connection variable
  m_connection, pc, status,
  linked,   \* m_cluster is a connected cluster
  exists,   \* the m_current_..._exists that are 1
  server,   \* buckets, scopes and collections of the server, by their path
  hurt,     \* history: objects with a request that failed in their last call
  dropped,  \* history: collections that were dropped
  calls, faults

vars == << conn, m_connection, pc, status, linked, exists, server, hurt, dropped, calls, faults >>

Moved == [f \in Field |-> Empty]
Bucket(c)     == << c["bucket"] >>
Scope(c)      == << c["bucket"], c["scope"] >>
Collection(c) == << c["bucket"], c["scope"], c["collection"] >>
(* The server keeps nothing without a parent, and nothing of an empty name. *)
Creatable(path) ==
  /\ path[Len(path)] # Empty
  /\ Len(path) > 1 => SubSeq(path, 1, Len(path) - 1) \in server

Init ==
  /\ conn = [i \in Instances |-> Moved] /\ m_connection = [i \in Instances |-> Moved]
  /\ pc = [i \in Instances |-> "idle"] /\ status = [i \in Instances |-> 0]
  /\ linked = {} /\ exists = [i \in Instances |-> {}]
  /\ server = {} /\ hurt = {} /\ dropped = {}
  /\ calls = 0 /\ faults = 0

Goto(i, from, to) == pc[i] = from /\ pc' = [pc EXCEPT ![i] = to]
Return(i, from, code) == Goto(i, from, "idle") /\ status' = [status EXCEPT ![i] = code]
Fault(i) == faults < MaxFaults /\ faults' = faults + 1 /\ hurt' = hurt \cup {i}
Fine == UNCHANGED << hurt, faults >>

Fill(i, c) ==
  /\ pc[i] = "idle" /\ conn' = [conn EXCEPT ![i] = c]
  /\ UNCHANGED << m_connection, pc, status, linked, exists, server, hurt, dropped, calls, faults >>

Missing(c) == {f \in Field : c[f] = Empty}
(* Only a release build refuses empty fields; std::forward moves the rest   *)
(* out of the caller's variable before anything is known to work.           *)
Call(i) ==
  /\ calls < MaxCalls /\ calls' = calls + 1
  /\ IF i \notin Debug /\ Missing(conn[i]) # {}
     THEN /\ Return(i, "idle", Max({Code[f] : f \in Missing(conn[i])}))
          /\ UNCHANGED << conn, m_connection, hurt >>
     ELSE /\ Goto(i, "idle", "connect") /\ status' = [status EXCEPT ![i] = 0]
          /\ m_connection' = [m_connection EXCEPT ![i] = conn[i]]
          /\ conn' = [conn EXCEPT ![i] = Moved] /\ hurt' = hurt \ {i}
  /\ UNCHANGED << linked, exists, server, dropped, faults >>

Reset_Never(i) == exists
Reset(i) == [exists EXCEPT ![i] = {}]
Connect(i) ==
  /\ \/ /\ {"host", "username", "password"} \cap Missing(m_connection[i]) = {}
        /\ Goto(i, "connect", "list_buckets")
        /\ linked' = linked \cup {i} /\ exists' = Reset(i)
        /\ Fine /\ UNCHANGED status
     \/ /\ {"host", "username", "password"} \cap Missing(m_connection[i]) # {} /\ Fine
        /\ Return(i, "connect", -9) /\ UNCHANGED << linked, exists >>
     \/ Return(i, "connect", -9) /\ Fault(i) /\ UNCHANGED << linked, exists >>
  /\ UNCHANGED << conn, m_connection, server, dropped, calls >>

(* A list that fails is an empty list.                                      *)
ListBuckets(i) ==
  LET b == Bucket(m_connection[i]) IN
  /\ \/ /\ b \in server /\ Fine
        /\ exists' = [exists EXCEPT ![i] = exists[i] \cup {"bucket"}]
        /\ Goto(i, "list_buckets", "list_scopes")
     \/ b \notin server /\ Fine /\ Goto(i, "list_buckets", "create_bucket") /\ UNCHANGED exists
     \/ Fault(i) /\ Goto(i, "list_buckets", "create_bucket") /\ UNCHANGED exists
  /\ UNCHANGED << conn, m_connection, status, linked, server, dropped, calls >>

(* The error of a create request is not looked at, an exception is.         *)
Create(i, path) ==
  \/ Creatable(path) /\ server' = server \cup {path} /\ Fine
  \/ ~Creatable(path) /\ UNCHANGED server /\ Fine
  \/ UNCHANGED server /\ Fault(i)

NewBucket(c) == IF c["bucket"] = Empty THEN << Default >> ELSE Bucket(c)
CreateBucket(i) ==
  /\ \/ /\ Create(i, NewBucket(m_connection[i]))
        /\ Goto(i, "create_bucket", "list_scopes") /\ UNCHANGED status
     \/ Return(i, "create_bucket", -69) /\ Fault(i) /\ UNCHANGED server
  /\ UNCHANGED << conn, m_connection, linked, exists, dropped, calls >>

ListScopes(i) ==
  LET c == m_connection[i]
      found == (IF Scope(c) \in server THEN {"scope"} ELSE {})
               \cup (IF Collection(c) \in server THEN {"collection"} ELSE {})
  IN
  /\ Goto(i, "list_scopes", "create_scope")
  /\ \/ exists' = [exists EXCEPT ![i] = exists[i] \cup found] /\ Fine
     \/ Fault(i) /\ UNCHANGED exists
  /\ UNCHANGED << conn, m_connection, status, linked, server, dropped, calls >>

CreateScope(i) ==
  /\ Goto(i, "create_scope", "create_collection")
  /\ IF "scope" \in exists[i] THEN Fine /\ UNCHANGED server
                              ELSE Create(i, Scope(m_connection[i]))
  /\ UNCHANGED << conn, m_connection, status, linked, exists, dropped, calls >>
CreateCollection_WithScope(i) ==
  /\ Return(i, "create_collection", 1)
  /\ IF "scope" \in exists[i] THEN Fine /\ UNCHANGED server
                              ELSE Create(i, Collection(m_connection[i]))
  /\ UNCHANGED << conn, m_connection, linked, exists, dropped, calls >>
CreateCollection(i) ==
  /\ Return(i, "create_collection", 1)
  /\ IF "collection" \in exists[i] THEN Fine /\ UNCHANGED server
                                   ELSE Create(i, Collection(m_connection[i]))
  /\ UNCHANGED << conn, m_connection, linked, exists, dropped, calls >>

(* get_bucket_collection_manager().drop_collection of the cleanup.          *)
Cleanup(i) ==
  /\ pc[i] = "idle" /\ i \in linked /\ Collection(m_connection[i]) \in server
  /\ server' = server \ {Collection(m_connection[i])}
  /\ dropped' = dropped \cup {Collection(m_connection[i])}
  /\ UNCHANGED << conn, m_connection, pc, status, linked, exists, hurt, calls, faults >>

(* ~_ICouchbase closes the cluster, connected or not.                       *)
Destroy(i) ==
  /\ Goto(i, "idle", "gone") /\ linked' = linked \ {i}
  /\ UNCHANGED << conn, m_connection, status, exists, server, hurt, dropped, calls, faults >>

Step(i) == \/ Connect(i) \/ ListBuckets(i) \/ CreateBucket(i)
           \/ ListScopes(i) \/ CreateScope(i) \/ CreateCollection(i)
Client(i) == (\E c \in Conns : Fill(i, c)) \/ Call(i) \/ Cleanup(i) \/ Destroy(i)
Done == (\A i \in Instances : pc[i] = "gone") /\ UNCHANGED vars
Next == (\E i \in Instances : Client(i) \/ Step(i)) \/ Done

Spec == Init /\ [][Next]_vars

-----------------------------------------------------------------------------
Named(i) == {"bucket", "scope", "collection"} \cap Missing(m_connection[i]) = {}

(* However the objects interleave, and whichever finds what another just    *)
(* made: a call that returned 1 and had no request fail leaves its          *)
(* collection on the server until somebody drops it (119-181).              *)
OkMeansCollection ==
  \A i \in Instances :
    status[i] = 1 /\ i \notin hurt /\ Named(i) /\ Collection(m_connection[i]) \notin dropped
      => Collection(m_connection[i]) \in server

(* After a call that returned 1, what the getters say exists exists for the *)
(* connection that the other getters name (100-102, 119-171).               *)
FlagsRight(i) ==
  /\ "bucket" \in exists[i] => Bucket(m_connection[i]) \in server
  /\ "scope" \in exists[i] => Scope(m_connection[i]) \in server
  /\ "collection" \in exists[i] /\ Collection(m_connection[i]) \notin dropped
       => Collection(m_connection[i]) \in server
OkFlagsRight == \A i \in Instances : status[i] = 1 => FlagsRight(i)
=============================================================================
