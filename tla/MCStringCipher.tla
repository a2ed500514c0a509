---------------------------- MODULE MCStringCipher ----------------------------
(* Messages of less than a block and of a block; a secret; characters         *)
(* with the first, the last and all bits, with a sixth bit, and no digit.     *)
EXTENDS StringCipher
CONSTANT k
MCSecret == {k}
MCMessage == {<< >>, << 255 >>, << 1, 254 >>}
MCOctet == {1, 254}
MCLetter == {0, 31, 33, Other}
=============================================================================
