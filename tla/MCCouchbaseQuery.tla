--------------------------- MODULE MCCouchbaseQuery ---------------------------
(* Two threads, one of which has a future in the air as well.                 *)
EXTENDS CouchbaseQuery
CONSTANTS c1, c2
MCSlot == {<< c1, "execute_sqlpp" >>, << c2, "execute_sqlpp" >>, << c2, "execute_sqlpp_future" >>}
=============================================================================
