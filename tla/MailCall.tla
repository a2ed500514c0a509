-------------------------------- MODULE MailCall --------------------------------
(***************************************************************************)
(* What the calls of both mail functions have: a place in the function, and *)
(* the promise whose future they return (communication.cc:12-14, 95-97).    *)
(***************************************************************************)
EXTENDS Integers

CONSTANT Calls

VARIABLES
  pc,       \* where the call is
  future,   \* its response_future: the value or one of the next two
  mails     \* mails the server took from it

NoFuture == 10
Unset    == 11

Goto(c, from, to) == pc[c] = from /\ pc' = [pc EXCEPT ![c] = to]
Set(c, value) == future' = [future EXCEPT ![c] = value]
=============================================================================
