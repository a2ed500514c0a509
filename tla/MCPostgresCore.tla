---------------------------- MODULE MCPostgresCore ----------------------------
(* Two objects, and a connection more than one for each.                      *)
EXTENDS PostgresCore
CONSTANTS o1, o2, h1, h2, h3
MCObject == {o1, o2}
MCHandle == {h1, h2, h3}
=============================================================================
