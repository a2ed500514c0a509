---------------------------- MODULE CouchbaseProofs ----------------------------
(***************************************************************************)
(* Theorems about CouchbaseCore, for any objects, connections, names,       *)
(* builds, calls and failing requests, and about CouchbaseQuery, for any    *)
(* threads and any number of queries, inserts and failures.                 *)
(***************************************************************************)
EXTENDS CouchbaseCore, CouchbaseQuery, SequenceTheorems, TLAPS

Places == {"idle", "connect", "list_buckets", "create_bucket", "list_scopes",
           "create_scope", "create_collection", "gone"}
Typed ==
  /\ conn \in [Instances -> Connection] /\ m_connection \in [Instances -> Connection]
  /\ pc \in [Instances -> Places] /\ status \in [Instances -> Int]
  /\ exists \in [Instances -> SUBSET {"bucket", "scope", "collection"}]

(* What is there, or was until somebody dropped it: only collections are.   *)
Kept(c) == Collection(c) \in server \/ Collection(c) \in dropped
(* What the call of an object whose requests were all served has made sure  *)
(* of by the time it is at its next request.                                *)
Sure(i) ==
  LET c == m_connection[i] IN
  /\ pc[i] \in {"list_scopes", "create_scope"} => Bucket(c) \in server
  /\ pc[i] = "create_collection" => Scope(c) \in server
  /\ pc[i] \notin {"idle", "gone"} => status[i] = 0
  /\ pc[i] \in {"list_buckets", "create_bucket", "list_scopes"} => exists[i] \subseteq {"bucket"}
  /\ pc[i] \in {"create_scope", "create_collection"} =>
       /\ "scope" \in exists[i] => Scope(c) \in server
       /\ "collection" \in exists[i] => Kept(c)
  /\ status[i] = 1 => Kept(c)
Inv == Typed /\ \A i \in Instances : i \notin hurt /\ Named(i) => Sure(i)

-----------------------------------------------------------------------------
LEMMA InitInv == Init => Inv
BY NamesAssumption DEF Init, Inv, Typed, Sure, Moved, Connection, Places

(* The largest of some codes is one of them, and none is 1.                 *)
LEMMA CodeIsNoStatus ==
  ASSUME NEW c \in Connection, Missing(c) # {}
  PROVE  Max({Code[f] : f \in Missing(c)}) \in {-1, -2, -3, -4, -5, -7}
<1> DEFINE S == {Code[f] : f \in Missing(c)}
<1>1. S # {} /\ S \subseteq {-1, -2, -3, -4, -5, -7}
  BY DEF Missing, Field, Code
<1>2. \E x \in S : \A y \in S : x >= y
  <2> HIDE DEF S
  <2>1. CASE -1 \in S
    BY <1>1, <2>1
  <2>2. CASE -1 \notin S /\ -2 \in S
    BY <1>1, <2>2
  <2>3. CASE -1 \notin S /\ -2 \notin S /\ -3 \in S
    BY <1>1, <2>3
  <2>4. CASE S \subseteq {-4, -5, -7} /\ -4 \in S
    BY <1>1, <2>4
  <2>5. CASE S \subseteq {-5, -7} /\ -5 \in S
    BY <1>1, <2>5
  <2>6. CASE S = {-7}
    BY <2>6
  <2> QED
    BY <1>1, <2>1, <2>2, <2>3, <2>4, <2>5, <2>6
<1> QED
  BY <1>1, <1>2 DEF Max

(* Paths of different lengths are different, and what makes one creatable.  *)
LEMMA PathFacts ==
  ASSUME NEW c \in Connection, NEW d \in Connection
  PROVE  /\ Collection(d) # Bucket(c) /\ Collection(d) # Scope(c)
         /\ c["bucket"] # Empty => Creatable(Bucket(c))
         /\ c["scope"] # Empty /\ Bucket(c) \in server => Creatable(Scope(c))
         /\ c["collection"] # Empty /\ Scope(c) \in server => Creatable(Collection(c))
<1>1. Len(Bucket(c)) = 1 /\ Len(Scope(c)) = 2 /\ Len(Collection(c)) = 3 /\ Len(Collection(d)) = 3
  BY DEF Bucket, Scope, Collection
<1>2. Collection(d) # Bucket(c) /\ Collection(d) # Scope(c)
  BY <1>1
<1>3. SubSeq(Scope(c), 1, 1) = Bucket(c)
  <2> DEFINE S == Names \cup {Empty}
  <2>1. Bucket(c) \in Seq(S) /\ \A i \in 1 .. 1 : Scope(c)[i] \in S
    BY DEF Bucket, Scope, Connection, Field
  <2> HIDE DEF S
  <2>2. /\ SubSeq(Scope(c), 1, 1) \in Seq(S) /\ Len(SubSeq(Scope(c), 1, 1)) = 1
        /\ \A i \in 1 .. 1 : SubSeq(Scope(c), 1, 1)[i] = Scope(c)[i]
    BY <2>1, SubSeqProperties
  <2>3. \A i \in 1 .. 1 : Bucket(c)[i] = Scope(c)[i]
    BY DEF Bucket, Scope
  <2> QED
    BY <1>1, <2>1, <2>2, <2>3, SeqEqual
<1>5. SubSeq(Collection(c), 1, 2) = Scope(c)
  <2> DEFINE S == Names \cup {Empty}
  <2>1. Scope(c) \in Seq(S) /\ \A i \in 1 .. 2 : Collection(c)[i] \in S
    BY DEF Scope, Collection, Connection, Field
  <2> HIDE DEF S
  <2>2. /\ SubSeq(Collection(c), 1, 2) \in Seq(S) /\ Len(SubSeq(Collection(c), 1, 2)) = 2
        /\ \A i \in 1 .. 2 : SubSeq(Collection(c), 1, 2)[i] = Collection(c)[i]
    BY <2>1, SubSeqProperties
  <2>3. \A i \in 1 .. 2 : Scope(c)[i] = Collection(c)[i]
    BY DEF Scope, Collection
  <2> QED
    BY <1>1, <2>1, <2>2, <2>3, SeqEqual
<1>4. Bucket(c)[1] = c["bucket"] /\ Scope(c)[2] = c["scope"] /\ Collection(c)[3] = c["collection"]
  BY DEF Bucket, Scope, Collection
<1>6. \A path, n, up :
        Len(path) = n /\ path[n] # Empty /\ (n > 1 => SubSeq(path, 1, n - 1) = up /\ up \in server)
          => Creatable(path)
  BY DEF Creatable
<1>7. c["bucket"] # Empty => Creatable(Bucket(c))
  <2> HIDE DEF Bucket, Creatable
  <2>1. Len(Bucket(c)) = 1 /\ Bucket(c)[1] = c["bucket"] /\ ~(1 > 1)
    BY <1>1, <1>4
  <2> QED
    BY <1>6, <2>1
<1>8. c["scope"] # Empty /\ Bucket(c) \in server => Creatable(Scope(c))
  <2> HIDE DEF Bucket, Scope, Creatable
  <2>1. Len(Scope(c)) = 2 /\ Scope(c)[2] = c["scope"] /\ SubSeq(Scope(c), 1, 2 - 1) = Bucket(c)
    BY <1>1, <1>3, <1>4
  <2> QED
    BY <1>6, <2>1
<1>9. c["collection"] # Empty /\ Scope(c) \in server => Creatable(Collection(c))
  <2> HIDE DEF Scope, Collection, Creatable
  <2>1. /\ Len(Collection(c)) = 3 /\ Collection(c)[3] = c["collection"]
        /\ SubSeq(Collection(c), 1, 3 - 1) = Scope(c)
    BY <1>1, <1>4, <1>5
  <2> QED
    BY <1>6, <2>1
<1> QED
  BY <1>2, <1>7, <1>8, <1>9

-----------------------------------------------------------------------------
Only(i) ==
  /\ \A j \in Instances \ {i} :
       /\ m_connection'[j] = m_connection[j] /\ pc'[j] = pc[j] /\ status'[j] = status[j]
       /\ exists'[j] = exists[j] /\ (j \in hurt <=> j \in hurt')
  /\ \A p \in server : p \in server' \/ (p \in dropped' /\ \E d \in Connection : p = Collection(d))
  /\ dropped \subseteq dropped'

LEMMA TypedStep == ASSUME Typed, Next PROVE Typed'
<1> SUFFICES ASSUME NEW i \in Instances, Client(i) \/ Step(i) PROVE Typed'
  BY DEF Next, Done, Typed, vars
<1> USE DEF Typed, Goto, Return, Places
<1>1. ASSUME NEW c \in Conns, Fill(i, c) PROVE Typed'
  BY <1>1, ConnsAssumption DEF Fill
<1>2. CASE Call(i)
  <2>1. Moved \in Connection
    BY DEF Moved, Connection
  <2>2. CASE i \notin Debug /\ Missing(conn[i]) # {}
    <3>1. Max({Code[f] : f \in Missing(conn[i])}) \in Int
      BY <2>2, CodeIsNoStatus
    <3> QED
      BY <1>2, <2>2, <3>1 DEF Call
  <2> QED
    BY <1>2, <2>1, <2>2 DEF Call
<1>3. CASE Cleanup(i) \/ Destroy(i)
  BY <1>3 DEF Cleanup, Destroy
<1>4. CASE Connect(i)
  BY <1>4 DEF Connect, Reset
<1>5. CASE ListBuckets(i)
  BY <1>5 DEF ListBuckets
<1>6. CASE CreateBucket(i)
  BY <1>6 DEF CreateBucket
<1>7. CASE ListScopes(i)
  BY <1>7 DEF ListScopes
<1>8. CASE CreateScope(i)
  BY <1>8 DEF CreateScope
<1>9. CASE CreateCollection(i)
  BY <1>9 DEF CreateCollection
<1> QED
  BY <1>1, <1>2, <1>3, <1>4, <1>5, <1>6, <1>7, <1>8, <1>9 DEF Client, Step

(* What an object has made sure of outlives the steps of the others.        *)
LEMMA OthersStay ==
  ASSUME Typed, NEW i \in Instances, NEW j \in Instances, j # i, Only(i),
         Sure(j)
  PROVE  Sure(j)'
<1> DEFINE c == m_connection[j]
<1>1. c \in Connection /\ m_connection'[j] = c
  BY DEF Typed, Only
<1>2. Bucket(c) \in server => Bucket(c) \in server'
  BY <1>1, PathFacts DEF Only
<1>3. Scope(c) \in server => Scope(c) \in server'
  BY <1>1, PathFacts DEF Only
<1>4. Kept(c) => Kept(c)'
  BY <1>1 DEF Kept, Only
<1> HIDE DEF c
<1> QED
  BY <1>1, <1>2, <1>3, <1>4 DEF Sure, Only, c

LEMMA OnlyOne == ASSUME Typed, NEW i \in Instances, Client(i) \/ Step(i) PROVE Only(i)
<1> USE DEF Goto, Return, Only, Typed
<1> DEFINE c == m_connection[i]
<1>2. c \in Connection
  OBVIOUS
<1>3. ASSUME Create(i, Bucket(c)) \/ Create(i, NewBucket(c)) \/ Create(i, Scope(c))
               \/ Create(i, Collection(c))
      PROVE  server \subseteq server' /\ hurt' \subseteq hurt \cup {i} /\ hurt \subseteq hurt'
  BY <1>3 DEF Create, Fault, Fine
<1>4. ASSUME NEW d \in Conns, Fill(i, d) PROVE Only(i)
  BY <1>4 DEF Fill
<1>5. CASE Call(i)
  BY <1>5 DEF Call
<1>6. CASE Cleanup(i)
  BY <1>2, <1>6 DEF Cleanup
<1>7. CASE Destroy(i)
  BY <1>7 DEF Destroy
<1>8. CASE Connect(i)
  BY <1>8 DEF Connect, Reset, Fault, Fine
<1>9. CASE ListBuckets(i)
  BY <1>9 DEF ListBuckets, Fault, Fine
<1>10. CASE CreateBucket(i)
  BY <1>3, <1>10 DEF CreateBucket, Fault
<1>11. CASE ListScopes(i)
  BY <1>11 DEF ListScopes, Fault, Fine
<1>12. CASE CreateScope(i)
  BY <1>3, <1>12 DEF CreateScope, Fine
<1>13. CASE CreateCollection(i)
  BY <1>3, <1>13 DEF CreateCollection, Fine
<1> QED
  BY <1>4, <1>5, <1>6, <1>7, <1>8, <1>9, <1>10, <1>11, <1>12, <1>13 DEF Client, Step

LEMMA NextInv == ASSUME Inv, Next PROVE Inv'
<1>1. Typed'
  BY TypedStep DEF Inv
<1> SUFFICES ASSUME NEW i \in Instances, Client(i) \/ Step(i),
                    NEW j \in Instances, j \notin hurt', Named(j)'
             PROVE  Sure(j)'
  <2>1. CASE UNCHANGED vars
    BY <1>1, <2>1 DEF Inv, Named, Missing, Sure, Kept, vars
  <2> QED
    BY <1>1, <2>1 DEF Inv, Next, Done
<1> USE DEF Goto, Return
<1> DEFINE c == m_connection[i]
<1>2. c \in Connection
  BY DEF Inv, Typed
<1>4. Only(i)
  BY OnlyOne DEF Inv
<1>5. CASE j # i
  BY <1>4, <1>5, OthersStay DEF Inv, Only, Named, Missing, Typed
<1>6. CASE j = i
  <2>1. ASSUME NEW d \in Conns, Fill(i, d) PROVE Sure(i)'
    BY <1>6, <2>1 DEF Fill, Inv, Typed, Sure, Kept, Named, Missing
  <2>2. CASE Call(i)
    <3>1. CASE i \notin Debug /\ Missing(conn[i]) # {}
      <4>1. Max({Code[f] : f \in Missing(conn[i])}) \notin {0, 1}
        BY <3>1, CodeIsNoStatus DEF Inv, Typed
      <4> QED
        BY <1>6, <2>2, <3>1, <4>1 DEF Call, Inv, Typed, Sure
    <3>2. CASE ~(i \notin Debug /\ Missing(conn[i]) # {})
      BY <1>6, <2>2, <3>2 DEF Call, Inv, Typed, Sure
    <3> QED
      BY <3>1, <3>2
  <2>3. CASE ~Call(i) /\ ~(\E d \in Conns : Fill(i, d))
    <3>1. i \notin hurt /\ Named(i) /\ Sure(i) /\ m_connection' = m_connection
      BY <1>6, <2>3 DEF Client, Step, Cleanup, Destroy, Connect, ListBuckets, CreateBucket,
         ListScopes, CreateScope, CreateCollection, Create, Fault, Fine, Inv, Named, Missing
    <3>2. i \notin hurt'
      BY <1>6
    <3>3. c["bucket"] # Empty /\ c["scope"] # Empty /\ c["collection"] # Empty
      BY <3>1 DEF Named, Missing, Field
    <3>4. /\ Creatable(Bucket(c)) /\ NewBucket(c) = Bucket(c)
          /\ Bucket(c) \in server => Creatable(Scope(c))
          /\ Scope(c) \in server => Creatable(Collection(c))
      BY <1>2, <3>3, PathFacts DEF NewBucket
    <3>5. ASSUME NEW path, Create(i, path), Creatable(path) PROVE server' = server \cup {path}
      BY <3>2, <3>5 DEF Create, Fault, Inv, Typed
    <3>6. /\ Bucket(c) \in server => Bucket(c) \in server'
          /\ Scope(c) \in server => Scope(c) \in server'
          /\ Kept(c) => Collection(c) \in server' \/ Collection(c) \in dropped'
      BY <1>2, <1>4, PathFacts DEF Only, Kept
    <3> DEFINE after == Collection(c) \in server' \/ Collection(c) \in dropped'
    <3>7. Kept(c) <=> Collection(c) \in server \/ Collection(c) \in dropped
      BY DEF Kept
    <3> SUFFICES
          /\ pc'[i] \in {"list_scopes", "create_scope"} => Bucket(c) \in server'
          /\ pc'[i] = "create_collection" => Scope(c) \in server'
          /\ pc'[i] \notin {"idle", "gone"} => status'[i] = 0
          /\ pc'[i] \in {"list_buckets", "create_bucket", "list_scopes"} =>
               exists'[i] \subseteq {"bucket"}
          /\ pc'[i] \in {"create_scope", "create_collection"} =>
               /\ "scope" \in exists'[i] => Scope(c) \in server'
               /\ "collection" \in exists'[i] => after
          /\ status'[i] = 1 => after
      BY <1>6, <3>1 DEF Sure, Kept
    <3> HIDE DEF after
    <3>8. after <=> Collection(c) \in server' \/ Collection(c) \in dropped'
      BY DEF after
    <3>9. m_connection[i] = c
      OBVIOUS
    <3>10. /\ pc[i] \in {"list_scopes", "create_scope"} => Bucket(c) \in server
           /\ pc[i] = "create_collection" => Scope(c) \in server
           /\ pc[i] \notin {"idle", "gone"} => status[i] = 0
           /\ pc[i] \in {"list_buckets", "create_bucket", "list_scopes"} =>
                exists[i] \subseteq {"bucket"}
           /\ pc[i] \in {"create_scope", "create_collection"} =>
                /\ "scope" \in exists[i] => Scope(c) \in server
                /\ "collection" \in exists[i] => Kept(c)
           /\ status[i] = 1 => Kept(c)
      BY <3>1 DEF Sure
    <3>11. /\ pc \in [Instances -> Places] /\ status \in [Instances -> Int]
           /\ exists \in [Instances -> SUBSET {"bucket", "scope", "collection"}]
      BY DEF Inv, Typed
    <3> HIDE DEF c
    <3>12. CASE Cleanup(i)
      BY <3>2, <3>6, <3>7, <3>8, <3>9, <3>10, <3>11, <3>12 DEF Cleanup
    <3>13. CASE Destroy(i)
      BY <3>2, <3>6, <3>7, <3>8, <3>9, <3>10, <3>11, <3>13 DEF Destroy
    <3>14. CASE Connect(i)
      BY <3>2, <3>6, <3>7, <3>8, <3>9, <3>10, <3>11, <3>14 DEF Connect, Reset, Fault
    <3>15. CASE ListBuckets(i)
      BY <3>2, <3>6, <3>7, <3>8, <3>9, <3>10, <3>11, <3>15 DEF ListBuckets, Fault, Fine
    <3>16. CASE CreateBucket(i)
      BY <3>2, <3>6, <3>7, <3>8, <3>9, <3>10, <3>11, <3>4, <3>5, <3>16 DEF CreateBucket, Fault
    <3>17. CASE ListScopes(i)
      BY <3>2, <3>6, <3>7, <3>8, <3>9, <3>10, <3>11, <3>17 DEF ListScopes, Fault, Fine
    <3>18. CASE CreateScope(i)
      BY <3>2, <3>6, <3>7, <3>8, <3>9, <3>10, <3>11, <3>4, <3>5, <3>18 DEF CreateScope, Fine
    <3>19. CASE CreateCollection(i)
      BY <3>2, <3>6, <3>7, <3>8, <3>9, <3>10, <3>11, <3>4, <3>5, <3>19 DEF CreateCollection, Fine
    <3> QED
      BY <2>3, <3>12, <3>13, <3>14, <3>15, <3>16, <3>17, <3>18, <3>19 DEF Client, Step
  <2> QED
    BY <1>6, <2>1, <2>2, <2>3
<1> QED
  BY <1>5, <1>6

(* However the objects interleave, a call that returned 1 and had no        *)
(* request fail leaves its collection on the server until somebody drops it *)
(* (119-181).                                                               *)
THEOREM CollectionsAreThere == Spec => []OkMeansCollection
<1>1. Inv /\ [Next]_vars => Inv'
  <2>1. CASE Next
    BY <2>1, NextInv
  <2>2. CASE UNCHANGED vars
    BY <2>2 DEF Inv, Typed, Named, Missing, Sure, Kept, vars
  <2> QED
    BY <2>1, <2>2
<1>2. Inv => OkMeansCollection
  BY DEF Inv, OkMeansCollection, Sure, Kept
<1> QED
  BY InitInv, <1>1, <1>2, PTL DEF Spec

-----------------------------------------------------------------------------
(* The flags are of this connection from the moment it is connected, and    *)
(* nobody calls a call in progress returned.                                *)
Middle == {"list_buckets", "create_bucket", "list_scopes", "create_scope", "create_collection"}
Flagged(i) ==
  /\ pc[i] \in Middle \/ status[i] = 1 => FlagsRight(i)
  /\ pc[i] \notin {"idle", "gone"} => status[i] = 0
FlagInv == Typed /\ \A i \in Instances : Flagged(i)

(* A flag that is right stays right while others, or the object itself,     *)
(* make and drop: only collections are dropped.                             *)
LEMMA FlagsStay ==
  ASSUME Typed, NEW i \in Instances, NEW j \in Instances, Only(j),
         m_connection'[i] = m_connection[i], exists'[i] = exists[i], FlagsRight(i)
  PROVE  FlagsRight(i)'
<1> DEFINE c == m_connection[i]
<1>1. c \in Connection /\ m_connection'[i] = c
  BY DEF Typed
<1>2. Bucket(c) \in server => Bucket(c) \in server'
  BY <1>1, PathFacts DEF Only
<1>3. Scope(c) \in server => Scope(c) \in server'
  BY <1>1, PathFacts DEF Only
<1>4. Collection(c) \in server => Collection(c) \in server' \/ Collection(c) \in dropped'
  BY <1>1 DEF Only
<1>5. Collection(c) \notin dropped' => Collection(c) \notin dropped
  BY DEF Only
<1> HIDE DEF c
<1> QED
  BY <1>1, <1>2, <1>3, <1>4, <1>5 DEF FlagsRight, c

LEMMA FlagStep == ASSUME FlagInv, Next PROVE FlagInv'
<1>1. Typed'
  BY TypedStep DEF FlagInv
<1> SUFFICES ASSUME NEW j \in Instances, Client(j) \/ Step(j), NEW i \in Instances
             PROVE  Flagged(i)'
  <2>1. CASE UNCHANGED vars
    BY <1>1, <2>1 DEF FlagInv, Flagged, FlagsRight, vars
  <2> QED
    BY <1>1, <2>1 DEF FlagInv, Next, Done
<1>2. Only(j)
  BY OnlyOne DEF FlagInv
<1>3. ASSUME m_connection'[i] = m_connection[i], exists'[i] = exists[i], FlagsRight(i)
      PROVE  FlagsRight(i)'
  BY <1>2, <1>3, FlagsStay DEF FlagInv
<1>4. CASE i # j
  BY <1>2, <1>3, <1>4 DEF FlagInv, Flagged, Only
<1>5. CASE i = j
  <2> USE DEF FlagInv, Typed, Flagged, Goto, Return, Middle
  <2>1. ASSUME NEW d \in Conns, Fill(i, d) PROVE Flagged(i)'
    BY <1>3, <2>1 DEF Fill
  <2>2. CASE Call(i)
    <3>1. CASE i \notin Debug /\ Missing(conn[i]) # {}
      <4>1. Max({Code[f] : f \in Missing(conn[i])}) \notin {0, 1}
        BY <3>1, CodeIsNoStatus
      <4> QED
        BY <2>2, <3>1, <4>1 DEF Call
    <3>2. CASE ~(i \notin Debug /\ Missing(conn[i]) # {})
      BY <2>2, <3>2 DEF Call
    <3> QED
      BY <3>1, <3>2
  <2>3. CASE Cleanup(i) \/ Destroy(i)
    BY <1>3, <2>3 DEF Cleanup, Destroy
  <2>4. CASE Connect(i)
    <3>1. exists'[i] = {} => FlagsRight(i)'
      BY DEF FlagsRight
    <3> QED
      BY <2>4, <3>1 DEF Connect, Reset
  <2>5. CASE ListBuckets(i)
    <3>1. CASE exists' = exists
      BY <1>3, <2>5, <3>1 DEF ListBuckets
    <3>2. CASE /\ Bucket(m_connection[i]) \in server
               /\ exists' = [exists EXCEPT ![i] = exists[i] \cup {"bucket"}]
      <4>1. UNCHANGED << m_connection, server, dropped >> /\ FlagsRight(i)
        BY <2>5 DEF ListBuckets
      <4>2. FlagsRight(i)'
        BY <3>2, <4>1 DEF FlagsRight
      <4> QED
        BY <2>5, <4>2 DEF ListBuckets
    <3> QED
      BY <2>5, <3>1, <3>2 DEF ListBuckets
  <2>6. CASE ListScopes(i)
    <3> DEFINE c == m_connection[i]
               found == (IF Scope(c) \in server THEN {"scope"} ELSE {})
                        \cup (IF Collection(c) \in server THEN {"collection"} ELSE {})
    <3>1. UNCHANGED << m_connection, server, dropped, status >> /\ FlagsRight(i)
      BY <2>6 DEF ListScopes
    <3>2. exists' = [exists EXCEPT ![i] = exists[i] \cup found] \/ exists' = exists
      BY <2>6 DEF ListScopes
    <3>3. FlagsRight(i)'
      BY <3>1, <3>2 DEF FlagsRight
    <3> QED
      BY <2>6, <3>1, <3>3 DEF ListScopes
  <2>7. CASE CreateBucket(i) \/ CreateScope(i) \/ CreateCollection(i)
    <3>1. /\ m_connection' = m_connection /\ exists' = exists /\ FlagsRight(i)
          /\ pc'[i] \in {"list_scopes", "create_collection", "idle"}
          /\ pc'[i] # "idle" => status'[i] = 0
      BY <2>7 DEF CreateBucket, CreateScope, CreateCollection
    <3> QED
      BY <1>3, <3>1
  <2> QED
    BY <1>5, <2>1, <2>2, <2>3, <2>4, <2>5, <2>6, <2>7 DEF Client, Step
<1> QED
  BY <1>4, <1>5

(* After a call that returned 1, whatever failed in it, the getters of      *)
(* existence speak of what is there, or was dropped (100-102, 119-171).     *)
THEOREM FlagsAreRight == Spec => []OkFlagsRight
<1>1. Init => FlagInv
  BY InitInv DEF Init, Inv, FlagInv, Flagged, Middle
<1>2. FlagInv /\ [Next]_vars => FlagInv'
  <2>1. CASE UNCHANGED vars
    BY <2>1 DEF FlagInv, Typed, Flagged, FlagsRight, vars
  <2> QED
    BY <2>1, FlagStep
<1>3. FlagInv => OkFlagsRight
  BY DEF FlagInv, Flagged, OkFlagsRight
<1> QED
  BY <1>1, <1>2, <1>3, PTL DEF Spec

-----------------------------------------------------------------------------
(* The queries, in CouchbaseQuery.                                          *)
(* What the steps need to know of types.                                    *)
QueryTyped ==
  /\ query \in [Slot -> Select \cup Insert]
  /\ state \in [Slot -> {"free", "asked", "arrived", "served", "failed", "done"}]
  /\ target \in [Slot -> Nat] /\ data \in [Slot -> Nat] /\ must \in [Slot -> Nat]
  /\ indexed \in Nat /\ written \in Nat /\ acked \in Nat

(* Nobody knows of an insert that the data nodes do not have.               *)
Known ==
  /\ acked <= written
  /\ \A s \in Slot : must[s] <= acked /\ (query[s].insert /\ state[s] = "served" => data[s] <= written)

(* A select that is to be consistent carries what it must see from the      *)
(* caller to the service: what the caller knew of had been written when the request       *)
(* arrived, so the index has it when the service answers; it only grows,    *)
(* and inserts done meanwhile are none of its business.                     *)
Carries(s) ==
  (s \in Calls <=> query[s].consistent) /\ ~query[s].insert =>
    /\ state[s] = "arrived" => target[s] >= must[s]
    /\ state[s] \in {"served", "done"} => data[s] >= must[s]
Consistent == QueryTyped /\ Known /\ \A s \in Slot : Carries(s)

-----------------------------------------------------------------------------
LEMMA InitConsistent == QueryInit => Consistent
BY DEF QueryInit, Consistent, QueryTyped, Known, Carries, Calls, Select, Insert

LEMMA QueryTypedStep == QueryTyped /\ [QueryNext]_qvars => QueryTyped'
<1> SUFFICES ASSUME QueryTyped, [QueryNext]_qvars PROVE QueryTyped'
  OBVIOUS
<1> USE DEF QueryTyped
<1>1. ASSUME NEW s \in Slot, NEW q \in Select \cup Insert, Ask(s, q) PROVE QueryTyped'
  BY <1>1 DEF Ask
<1>2. ASSUME NEW s \in Slot, Arrive(s) PROVE QueryTyped'
  BY <1>2 DEF Arrive
<1>3. ASSUME NEW s \in Slot, Serve(s) PROVE QueryTyped'
  BY <1>3 DEF Serve
<1>4. CASE Index
  BY <1>4 DEF Index
<1>5. ASSUME NEW s \in Slot, Get(s) PROVE QueryTyped'
  BY <1>5 DEF Get
<1>6. CASE UNCHANGED qvars
  BY <1>6 DEF qvars
<1> QED
  BY <1>1, <1>2, <1>3, <1>4, <1>5, <1>6 DEF QueryNext

LEMMA KnownStep == QueryTyped /\ Known /\ [QueryNext]_qvars => Known'
<1> SUFFICES ASSUME QueryTyped, Known, [QueryNext]_qvars PROVE Known'
  OBVIOUS
<1> USE DEF QueryTyped, Known
<1>1. ASSUME NEW s \in Slot, NEW q \in Select \cup Insert, Ask(s, q) PROVE Known'
  BY <1>1 DEF Ask
<1>2. ASSUME NEW s \in Slot, Arrive(s) PROVE Known'
  BY <1>2 DEF Arrive
<1>3. ASSUME NEW s \in Slot, Serve(s) PROVE Known'
  BY <1>3 DEF Serve
<1>4. CASE Index
  BY <1>4 DEF Index
<1>5. ASSUME NEW s \in Slot, Get(s) PROVE Known'
  <2>1. KnownDone(s) => query[s].insert /\ state[s] = "served"
    BY <1>5 DEF Get, KnownDone, Answer, Answered
  <2> QED
    BY <1>5, <2>1 DEF Get
<1>6. CASE UNCHANGED qvars
  BY <1>6 DEF qvars
<1> QED
  BY <1>1, <1>2, <1>3, <1>4, <1>5, <1>6 DEF QueryNext

LEMMA ConsistentStep == Consistent /\ [QueryNext]_qvars => Consistent'
<1> SUFFICES ASSUME Consistent, [QueryNext]_qvars, NEW c \in Slot PROVE Carries(c)'
  BY QueryTypedStep, KnownStep DEF Consistent
<1> USE DEF Consistent, QueryTyped, Carries
<1>1. ASSUME NEW s \in Slot, NEW q \in Select \cup Insert, Ask(s, q) PROVE Carries(c)'
  BY <1>1 DEF Ask
<1>2. ASSUME NEW s \in Slot, Arrive(s) PROVE Carries(c)'
  <2>1. s = c => (RequestPlus(c) <=> (c \in Calls <=> query[c].consistent))
    BY DEF RequestPlus, Calls
  <2>2. must[c] <= written
    BY DEF Known
  <2> QED
    BY <1>2, <2>1, <2>2 DEF Arrive
<1>3. ASSUME NEW s \in Slot, Serve(s) PROVE Carries(c)'
  BY <1>3 DEF Serve
<1>4. CASE Index
  BY <1>4 DEF Index
<1>5. ASSUME NEW s \in Slot, Get(s) PROVE Carries(c)'
  BY <1>5 DEF Get, Answered
<1>6. CASE UNCHANGED qvars
  BY <1>6 DEF qvars
<1> QED
  BY <1>1, <1>2, <1>3, <1>4, <1>5, <1>6 DEF QueryNext

(* A select through execute_sqlpp with consistent = true, and one through   *)
(* execute_sqlpp_future with false, sees every insert that any caller knew  *)
(* to be done when it was asked: what was known had been written, and       *)
(* request_plus takes that to the service (196, 215).                       *)
THEOREM SelectsAreConsistent == QuerySpec => []ReadsWhatWasWritten
<1>1. Consistent => ReadsWhatWasWritten
  BY DEF Consistent, QueryTyped, Carries, ReadsWhatWasWritten, SeesAll, Calls, Futures
<1> QED
  BY InitConsistent, ConsistentStep, <1>1, PTL DEF QuerySpec
=============================================================================
