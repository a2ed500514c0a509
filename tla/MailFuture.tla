------------------------------ MODULE MailFuture ------------------------------
(***************************************************************************)
(* What communication.hh:22-36, 42-57 promise of a function that sends one  *)
(* mail and returns a std::future<int32_t> of which 1 means ok: the call    *)
(* ends in one answer, 1 is answered of a mail the server took and -1 of    *)
(* one that was never sent, and after the answer nothing is sent.           *)
(***************************************************************************)
EXTENDS Integers

CONSTANT Calls

VARIABLES
  answer,   \* [Calls -> what the call ended in, or one of the next two]
  mails     \* [Calls -> mails the server took]

None    == 10                       \* not called
Pending == 11                       \* not answered
Threw   == 12                       \* an exception came instead of a future
Answers == {1, -1, -2, -3, Threw}
avars   == << answer, mails >>

Init == answer = [c \in Calls |-> None] /\ mails = [c \in Calls |-> 0]

Ask(c) ==
  /\ answer[c] = None /\ answer' = [answer EXCEPT ![c] = Pending]
  /\ UNCHANGED mails
Take(c) ==
  /\ answer[c] = Pending /\ mails[c] = 0 /\ mails' = [mails EXCEPT ![c] = 1]
  /\ UNCHANGED answer
Answer(c, a) ==
  /\ answer[c] = Pending /\ answer' = [answer EXCEPT ![c] = a]
  /\ (a = 1 => mails[c] = 1) /\ (a \in {-1, Threw} => mails[c] = 0)
  /\ UNCHANGED mails

Next == \E c \in Calls : Ask(c) \/ Take(c) \/ \E a \in Answers : Answer(c, a)

Promise == Init /\ [][Next]_avars
(* Every call that was made is answered.                                    *)
Answered == \A c \in Calls : answer[c] = Pending ~> answer[c] \in Answers
=============================================================================
