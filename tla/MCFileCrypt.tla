---------------------------- MODULE MCFileCrypt ----------------------------
(* Small instances of FileCrypt: a file of three windows (16 + 16 + 8) and an *)
(* empty one, chunk sizes that match a segment of the other (16 -> 32) and    *)
(* that do not.                                                               *)
EXTENDS FileCrypt
CONSTANTS k1, k2

MCPlainSizes == {0, 40}
MCChunkSizes == {0, 16, 32}
MCKeys       == {k1, k2}
MCTornSizes  == {5}
=============================================================================
