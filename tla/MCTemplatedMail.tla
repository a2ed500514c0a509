--------------------------- MODULE MCTemplatedMail ---------------------------
(* Three characters, the placeholders of the command and one that the shell   *)
(* expands: queries that overlap themselves, the empty query, replacements    *)
(* that contain the query, texts that look like the command's placeholders,   *)
(* hold what the shell expands or outgrow MaxSize.                            *)
EXTENDS TemplatedMail
CONSTANTS c1, chA, chB, chS
MCCalls == {c1}
MCChar == {chA, chB, chS}
MCSpecial == {chS}
MCExpansion == [ch \in MCSpecial |-> << chB, chA >>]
=============================================================================
