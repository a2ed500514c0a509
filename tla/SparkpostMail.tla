----------------------------- MODULE SparkpostMail -----------------------------
(***************************************************************************)
(* drogon_sparkpost_impl::send_mail_by_template_future (communication.cc):  *)
(* the request goes to drogon's event loop with a callback that captures    *)
(* the address of the local promise, and the function returns.  Returning   *)
(* destroys the promise: a future that has no value is broken, and a        *)
(* callback that comes later uses what is no longer there.                  *)
(***************************************************************************)
EXTENDS MailCall

CONSTANTS
  LoopCalls,    \* calls made on the event loop's own thread, from a handler
  Debug         \* BEHH_IS_DEBUG

ASSUME LoopCallsAssumption == LoopCalls \subseteq Calls
ASSUME DebugAssumption == Debug \in BOOLEAN

VARIABLES
  request,  \* "none", "queued", "sent", or the outcome the callback is to get
  callback, \* "none", "running" or "done"
  undefined \* calls whose callback used a null response or a dead promise

svars == << pc, future, request, callback, mails, undefined >>

Broken  == 13   \* of a future: its promise went unset
Results == {"ok", "rejected", "failed"}    \* 200, another status, no response at all

SparkpostInit ==
  /\ pc = [c \in Calls |-> "idle"] /\ future = [c \in Calls |-> NoFuture]
  /\ request = [c \in Calls |-> "none"] /\ callback = [c \in Calls |-> "none"]
  /\ mails = [c \in Calls |-> 0] /\ undefined = {}

(* The event loop does nothing else while a call of its own thread runs.    *)
LoopFree == \A c \in LoopCalls : pc[c] \in {"idle", "returned"}

CallSparkpost(c) ==
  /\ Goto(c, "idle", "open") /\ Set(c, Unset)
  /\ c \in LoopCalls => LoopFree /\ \A d \in Calls : callback[d] # "running"
  /\ UNCHANGED << request, callback, mails, undefined >>

(* The template is missing, or it is read and filled in.                    *)
OpenSparkpostTemplate(c) ==
  /\ \/ Goto(c, "open", "returned") /\ Set(c, -1)
     \/ Goto(c, "open", "send") /\ UNCHANGED future
  /\ UNCHANGED << request, callback, mails, undefined >>

(* sendRequest queues the request; on the loop's own thread a url that      *)
(* cannot be used makes it call back at once, with no response.             *)
Send(c) ==
  /\ Goto(c, "send", "sent")
  /\ \/ request' = [request EXCEPT ![c] = "queued"] /\ UNCHANGED callback
     \/ /\ c \in LoopCalls /\ request' = [request EXCEPT ![c] = "failed"]
        /\ callback' = [callback EXCEPT ![c] = "running"]
  /\ UNCHANGED << future, mails, undefined >>

(* The frame goes: the promise breaks what it has not set.                  *)
Frame_Kept(c)  == UNCHANGED future
Frame(c) == IF future[c] = Unset THEN Set(c, Broken) ELSE UNCHANGED future
Return(c) ==
  /\ Goto(c, "sent", "returned") /\ (c \in LoopCalls => callback[c] # "running")
  /\ Frame(c)
  /\ UNCHANGED << request, callback, mails, undefined >>

-----------------------------------------------------------------------------
(* The loop sends the request, the server takes the mail or not, and the    *)
(* loop hands the outcome to the callback.                                  *)
Transmit(c) ==
  /\ LoopFree /\ request[c] = "queued"
  /\ \/ mails' = [mails EXCEPT ![c] = 1] /\ request' = [request EXCEPT ![c] = "sent"]
     \/ UNCHANGED mails /\ request' = [request EXCEPT ![c] = "rejected"]
     \/ UNCHANGED mails /\ request' = [request EXCEPT ![c] = "failed"]
  /\ UNCHANGED << pc, future, callback, undefined >>
Reply(c) ==
  /\ request[c] = "sent"
  /\ \E r \in {"ok", "failed"} : request' = [request EXCEPT ![c] = r]
  /\ UNCHANGED << pc, future, callback, mails, undefined >>
Begin(c) ==
  /\ LoopFree /\ request[c] \in Results /\ callback[c] = "none"
  /\ callback' = [callback EXCEPT ![c] = "running"]
  /\ UNCHANGED << pc, future, request, mails, undefined >>

SparkpostResponse_AnyReply(c) == IF request[c] \in {"ok", "rejected"} THEN 1 ELSE -2
SparkpostResponse(c) == IF request[c] = "ok" THEN 1 ELSE -2
(* The debug output of the else branch dereferences pResp; set_value uses   *)
(* the promise, if it is still there.                                       *)
NullResponse(c) == Debug /\ request[c] = "failed"
Callback(c) ==
  /\ callback[c] = "running" /\ callback' = [callback EXCEPT ![c] = "done"]
  /\ IF NullResponse(c) \/ pc[c] = "returned"
     THEN undefined' = undefined \cup {c} /\ UNCHANGED future
     ELSE Set(c, SparkpostResponse(c)) /\ UNCHANGED undefined
  /\ UNCHANGED << pc, request, mails >>

SparkpostThread(c) == OpenSparkpostTemplate(c) \/ Send(c) \/ Return(c)
Loop(c) == Transmit(c) \/ Begin(c) \/ Callback(c)
SparkpostNext == undefined = {} /\ \E c \in Calls : CallSparkpost(c) \/ SparkpostThread(c) \/ Loop(c) \/ Reply(c)

SparkpostSpec == SparkpostInit /\ [][SparkpostNext]_svars
(* The calling threads and the event loop run on; a server need not answer. *)
FairSparkpostSpec ==
  SparkpostSpec /\ \A c \in Calls : WF_svars(undefined = {} /\ SparkpostThread(c)) /\ WF_svars(undefined = {} /\ Loop(c))

-----------------------------------------------------------------------------
(* A value in the future is true: 1 only of a mail the server took with     *)
(* status 200, -1 only of a call that sent nothing, -2 only after the       *)
(* outcome was known (103-106, 141-154).                                    *)
AnswerTrue ==
  \A c \in Calls :
    /\ future[c] = 1 => mails[c] = 1 /\ request[c] = "ok"
    /\ future[c] = -1 => request[c] = "none"
    /\ future[c] = -2 => request[c] \in {"rejected", "failed"}

(* Every call made returns to its caller, also on the thread of the loop    *)
(* that has to send its mail, and then get() ends: the future holds a value *)
(* or is broken, also when the server never answers (141, 156-158).         *)
GetEnds ==
  \A c \in Calls : pc[c] = "open" ~> (pc[c] = "returned" /\ future[c] # Unset) \/ undefined # {}

(* What a caller of get() sees: 13, a broken promise, is no answer.         *)
SparkpostAnswer == [c \in Calls |->
  CASE pc[c] = "idle"     -> 10
    [] pc[c] = "returned" -> future[c]
    [] OTHER              -> 11]
SparkpostFuture == INSTANCE MailFuture WITH answer <- SparkpostAnswer

(* communication.hh:42-57 promises a future<int32_t> of which 1 means ok:   *)
(* the answer of the call, as MailFuture has it.                            *)
SparkpostKeepsPromise == SparkpostFuture!Promise
=============================================================================
