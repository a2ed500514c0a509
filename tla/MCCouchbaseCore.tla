--------------------------- MODULE MCCouchbaseCore ---------------------------
(* One object of a release build and one of a debug build; connections to two *)
(* collections of one scope, and ones without a name, which only the debug    *)
(* build lets pass.                                                           *)
EXTENDS CouchbaseCore
CONSTANTS i1, i2, nm, colA, colB

MCInstances == {i1, i2}
MCDebug == {i2}
MCNames == {nm, colA, colB}
To(coll) == [f \in Field |-> IF f = "collection" THEN coll ELSE nm]
MCConns == {To(colA), To(colB), To(Empty), [To(colA) EXCEPT !["bucket"] = Empty]}
=============================================================================
