---------------------------- MODULE MCScyllaCore ----------------------------
(* Two interface objects and four connections: two users of one host, one of *)
(* them with empty credentials as in test_database_scylla_rw.json.debug, the *)
(* allow_all mode on a second host, and a mode without a case.               *)
EXTENDS ScyllaCore
CONSTANTS i1, i2, h1, h2, u1, p1, ks1, ks2

MCInstances == {i1, i2}
MCNames == {h1, h2, u1, p1, ks1, ks2}
Conn(h, u, p, ks, m) == [host |-> h, user |-> u, pass |-> p, keyspace |-> ks, mode |-> m]
MCConns == {Conn(h1, u1, p1, ks1, "password"), Conn(h1, NoName, NoName, ks2, "password"),
            Conn(h2, u1, p1, ks1, "allow_all"), Conn(h2, u1, p1, ks1, "transitional")}
=============================================================================
