------------------------------- MODULE CurlMail -------------------------------
(***************************************************************************)
(* curl_cmd_impl::smtps_send_mail_by_template_future (communication.cc): it *)
(* reads the template, fills the placeholders in, and runs the curl command *)
(* to its end before it returns, in a thread of its own when the machine is *)
(* said to have several.  Calls come from different threads and share       *)
(* nothing.  TemplatedMail has the filling in round by round.               *)
(***************************************************************************)
EXTENDS MailCall

VARIABLES
  curl,     \* its curl process: "none", "running", "ended"
  code      \* the status system() returned

vars == << pc, future, curl, code, mails >>

Init ==
  /\ pc = [c \in Calls |-> "idle"] /\ future = [c \in Calls |-> NoFuture]
  /\ curl = [c \in Calls |-> "none"] /\ code = [c \in Calls |-> 0]
  /\ mails = [c \in Calls |-> 0]

Call(c) == Goto(c, "idle", "open") /\ Set(c, Unset) /\ UNCHANGED << curl, code, mails >>

(* The template is missing, or it is read and filled in.                    *)
OpenTemplate(c) ==
  /\ \/ Goto(c, "open", "returned") /\ Set(c, -1)
     \/ Goto(c, "open", "run") /\ UNCHANGED future
  /\ UNCHANGED << curl, code, mails >>

(* hardware_concurrency() is a hint and may be 0.  std::async throws if it  *)
(* cannot start a thread, and the promise and its future go with the frame; *)
(* system() fails with -1 if it cannot fork.                                *)
Ways == {"async", "system"}
Run(c) ==
  /\ \/ /\ \E way \in Ways : Goto(c, "run", way)
        /\ curl' = [curl EXCEPT ![c] = "running"]
        /\ UNCHANGED << future, code >>
     \/ /\ \E way \in Ways : Goto(c, "run", way)
        /\ curl' = [curl EXCEPT ![c] = "ended"] /\ code' = [code EXCEPT ![c] = -1]
        /\ UNCHANGED future
     \/ Goto(c, "run", "threw") /\ Set(c, NoFuture) /\ UNCHANGED << curl, code >>
  /\ UNCHANGED mails

(* curl: the server takes the mail or not; the exit status is 0 only if it  *)
(* did, and may be an error although it did (a connection lost in the end). *)
Deliver(c) ==
  /\ curl[c] = "running" /\ mails[c] = 0 /\ mails' = [mails EXCEPT ![c] = 1]
  /\ UNCHANGED << pc, future, curl, code >>
Exit(c) ==
  /\ curl[c] = "running" /\ curl' = [curl EXCEPT ![c] = "ended"]
  /\ \E s \in IF mails[c] = 1 THEN {0, 1} ELSE {1} : code' = [code EXCEPT ![c] = s]
  /\ UNCHANGED << pc, future, mails >>

Response_Sign(c) == IF code[c] >= 0 THEN 1 ELSE -2
Response(c) == IF code[c] = 0 THEN 1 ELSE IF pc[c] = "async" THEN -2 ELSE -3
Waited_ForMail(c) == curl[c] = "ended" /\ mails[c] = 1
Waited(c) == curl[c] = "ended"
Finish(c) ==
  /\ Waited(c) /\ pc[c] \in Ways /\ Goto(c, pc[c], "returned") /\ Set(c, Response(c))
  /\ UNCHANGED << curl, code, mails >>

Thread(c) == OpenTemplate(c) \/ Run(c) \/ Finish(c)
Next == \E c \in Calls : Call(c) \/ Thread(c) \/ Deliver(c) \/ Exit(c)

Spec == Init /\ [][Next]_vars
(* The calling thread runs on, and the curl process ends.                   *)
FairSpec == Spec /\ \A c \in Calls : WF_vars(Thread(c)) /\ WF_vars(Exit(c))

-----------------------------------------------------------------------------
(* What a caller of get() sees of a call; 10, 11 and 12 are None, Pending   *)
(* and Threw of MailFuture.                                                 *)
Answer == [c \in Calls |->
  CASE pc[c] = "idle"     -> 10
    [] pc[c] = "threw"    -> 12
    [] pc[c] = "returned" -> future[c]
    [] OTHER              -> 11]
Abstract == INSTANCE MailFuture WITH answer <- Answer

(* The function implements what communication.hh:22-36 promises: the future *)
(* it returns holds the one answer already, 1 is said of a mail the server  *)
(* took, -1 of one that was not sent, and no mail is sent after the answer. *)
KeepsPromise == Abstract!Promise

(* Every call comes back with an answer once its curl process ends.         *)
CallAnswered == Abstract!Answered
=============================================================================
