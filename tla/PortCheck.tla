------------------------------ MODULE PortCheck ------------------------------
(***************************************************************************)
(* system_functions::is_port_available: it binds a socket to the port,      *)
(* remembers whether that went well, and closes the socket again.  Threads  *)
(* check while servers outside the process come and go.  The socket has no  *)
(* SO_REUSEADDR, so a port is not to be had while connections of a server   *)
(* that is gone linger on it (TIME_WAIT), nor one that the process may not  *)
(* bind.                                                                    *)
(***************************************************************************)
EXTENDS Integers, Descriptors

CONSTANTS
  Checker,     \* the threads that check
  PortArg,     \* what they ask about
  Denied,      \* the ports the process has no right to bind
  MaxPort      \* 65535 in the code

ASSUME PortAssumption == MaxPort \in Nat /\ PortArg \subseteq Int /\ Denied \subseteq 1 .. MaxPort

VARIABLES
  at,      \* "idle", "socket" once there is one, "bound" once bind was tried
  port,    \* the argument of the check
  bound,   \* the port its socket is bound to, or NoPort
  answer,  \* "true", "false", or "none" while it runs
  served,  \* the ports of servers outside the process
  lingering, \* the ports on which connections of such servers linger
  free,    \* history: at some moment of the check the port was not taken
  clear,   \* history: at no moment was it taken or did another check ask for it
  starved  \* history: there was no descriptor for the socket

pvars == << at, port, bound, answer, served, lingering, free, clear, starved >>

NoPort == -1
PortInit ==
  /\ at = [t \in Checker |-> "idle"] /\ port = [t \in Checker |-> 0]
  /\ bound = [t \in Checker |-> NoPort] /\ answer = [t \in Checker |-> "none"]
  /\ free = [t \in Checker |-> FALSE] /\ clear = [t \in Checker |-> FALSE]
  /\ starved = [t \in Checker |-> FALSE]
  /\ served = {} /\ lingering = {}

(* htons takes the low 16 bits.  Port 0 is any port that is free.           *)
Htons(p) == p % (MaxPort + 1)
Taken == served \cup lingering
Bound(q) == \E t \in Checker : bound[t] = q
Asks(t, q) == at[t] # "idle" /\ Htons(port[t]) = q

TooLarge(p) == p > MaxPort
LeaksSocket(p) == TooLarge(p)
Answer(t, a) == answer' = [answer EXCEPT ![t] = a]
Check(t, p) ==
  LET q == Htons(p) IN
  /\ at[t] = "idle" /\ MayCall
  /\ port' = [port EXCEPT ![t] = p] /\ starved' = [starved EXCEPT ![t] = Exhausted]
  /\ free' = [free EXCEPT ![t] = q \notin Taken]
  /\ \/ /\ Exhausted /\ Answer(t, "false") /\ UNCHANGED << at, clear, used, leaked >>
     \/ /\ ~Exhausted /\ TooLarge(p) /\ Answer(t, "false") /\ UNCHANGED << at, clear >>
        /\ IF LeaksSocket(p) THEN TakeFd /\ leaked' = leaked + 1 ELSE UNCHANGED << used, leaked >>
     \/ /\ ~TooLarge(p) /\ TakeFd /\ at' = [at EXCEPT ![t] = "socket"] /\ Answer(t, "none")
        /\ clear' = [u \in Checker |-> IF u = t THEN q \notin Taken /\ ~\E v \in Checker : Asks(v, q)
                                       ELSE clear[u] /\ ~Asks(u, q)]
        /\ UNCHANGED leaked
  /\ UNCHANGED << bound, served, lingering >>

CanBind(q) == q = 0 \/ (q \notin Taken \cup Denied /\ ~Bound(q))
(* The answer is kept until the socket is closed.                           *)
Bind(t) ==
  LET q == Htons(port[t]) IN
  /\ at[t] = "socket" /\ at' = [at EXCEPT ![t] = "bound"]
  /\ bound' = [bound EXCEPT ![t] = IF CanBind(q) THEN q ELSE NoPort]
  /\ UNCHANGED << port, answer, served, lingering, free, clear, starved, used, leaked, calls >>
StillBound_AsIs(t) == bound[t]
StillBound(t) == NoPort
CloseSocket(t) ==
  /\ at[t] = "bound" /\ at' = [at EXCEPT ![t] = "idle"] /\ DropFd
  /\ Answer(t, IF bound[t] = NoPort THEN "false" ELSE "true")
  /\ bound' = [bound EXCEPT ![t] = StillBound(t)]
  /\ UNCHANGED << port, served, lingering, free, clear, starved, leaked, calls >>

(* Servers of other processes: one that finds its port bound by a check     *)
(* does not come up; one that goes may leave connections behind, which do   *)
(* not keep the next server away.  Those on a port that the process may not *)
(* bind make no difference to it and are left out.                          *)
Listen(q) ==
  /\ q \notin served /\ ~Bound(q) /\ served' = served \cup {q}
  /\ clear' = [t \in Checker |-> clear[t] /\ ~Asks(t, q)]
  /\ UNCHANGED << at, port, bound, answer, lingering, free, starved, used, leaked, calls >>
Freed(q) == free' = [t \in Checker |-> free[t] \/ (q \notin Taken' /\ Asks(t, q))]
Stop(q) ==
  /\ q \in served /\ served' = served \ {q} /\ lingering' \in {lingering, lingering \cup {q}}
  /\ Freed(q) /\ UNCHANGED << at, port, bound, answer, clear, starved, used, leaked, calls >>
Expire(q) ==
  /\ q \in lingering /\ lingering' = lingering \ {q} /\ UNCHANGED served
  /\ Freed(q) /\ UNCHANGED << at, port, bound, answer, clear, starved, used, leaked, calls >>

PortStep(t) == Bind(t) \/ CloseSocket(t)
PortNext ==
  \/ \E t \in Checker : PortStep(t) \/ \E p \in PortArg : Check(t, p)
  \/ \E q \in {Htons(p) : p \in PortArg} \ ({0} \cup Denied) : Listen(q) \/ Stop(q) \/ Expire(q)
PortCrash ==
  /\ at' = [t \in Checker |-> "idle"] /\ bound' = [t \in Checker |-> NoPort]
  /\ answer' = [t \in Checker |-> "none"]
  /\ free' = [t \in Checker |-> FALSE] /\ clear' = [t \in Checker |-> FALSE]
  /\ starved' = [t \in Checker |-> FALSE] /\ UNCHANGED << port, served, lingering >>

-----------------------------------------------------------------------------
(* A port 1 .. 65535 that is said to be available is one the process may    *)
(* bind, and nobody had it at a moment of the check.  One the process may   *)
(* bind, that nobody had while the check ran and no other check asked for,  *)
(* is said to be available, if only there was a descriptor (10-37).         *)
AnswerHasReason ==
  \A t \in Checker :
    answer[t] # "none" /\ port[t] \in 1 .. MaxPort =>
      /\ answer[t] = "true" => free[t] /\ port[t] \notin Denied
      /\ answer[t] = "false" => starved[t] \/ port[t] \in Denied \/ ~clear[t]
=============================================================================
