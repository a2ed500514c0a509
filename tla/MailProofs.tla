------------------------------ MODULE MailProofs ------------------------------
(***************************************************************************)
(* Theorems about the two mail functions, for any calls, texts and bounds.  *)
(* By curl: TemplatedMail implements CurlMail, and CurlMail the promise of   *)
(* MailFuture; the texts are replaced as they should be, and what curl      *)
(* reads is what the shell makes of the filled template.  By sparkpost, on any threads, in a debug  *)
(* or a release build: the values the future holds are true.                *)
(***************************************************************************)
EXTENDS TemplatedMail, SparkpostMail, SequenceTheorems, WellFoundedInduction, TLAPS

(* Where the call is, the process and the mail go together: no process      *)
(* before the call waits for it, no answer while it runs, no mail without   *)
(* it, and status 0 only of a mail that was taken.                          *)
CallInv(c) ==
  /\ pc[c] \in {"idle", "open", "run", "threw"} => curl[c] = "none"
  /\ curl[c] = "none" => mails[c] = 0
  /\ curl[c] = "running" => pc[c] \in Ways
  /\ pc[c] \in Ways => curl[c] # "none"
  /\ curl[c] = "ended" /\ code[c] = 0 => mails[c] = 1
  /\ pc[c] = "returned" => future[c] \in {1, -1, -2, -3}
Places == {"idle", "open", "run", "async", "system", "threw", "returned"}
CurlInv ==
  /\ pc \in [Calls -> Places] /\ future \in [Calls -> Int]
  /\ curl \in [Calls -> {"none", "running", "ended"}]
  /\ code \in [Calls -> {-1, 0, 1}] /\ mails \in [Calls -> {0, 1}]
  /\ \A c \in Calls : CallInv(c)

LEMMA InitCurl == Init => CurlInv
BY DEF Init, CurlInv, CallInv, NoFuture, Ways, Places

LEMMA CurlStep == CurlInv /\ [Next]_vars => CurlInv'
<1> SUFFICES ASSUME CurlInv, [Next]_vars PROVE CurlInv'
  OBVIOUS
<1> USE DEF CurlInv, CallInv, Places, Goto, Set, Ways, NoFuture, Unset
<1>1. ASSUME NEW c \in Calls, Call(c) PROVE CurlInv'
  BY <1>1 DEF Call
<1>2. ASSUME NEW c \in Calls, OpenTemplate(c) PROVE CurlInv'
  BY <1>2 DEF OpenTemplate
<1>3. ASSUME NEW c \in Calls, Run(c) PROVE CurlInv'
  BY <1>3 DEF Run
<1>4. ASSUME NEW c \in Calls, Finish(c) PROVE CurlInv'
  BY <1>4 DEF Finish, Waited, Response
<1>5. ASSUME NEW c \in Calls, Deliver(c) PROVE CurlInv'
  BY <1>5 DEF Deliver
<1>6. ASSUME NEW c \in Calls, Exit(c) PROVE CurlInv'
  BY <1>6 DEF Exit
<1>7. CASE UNCHANGED vars
  BY <1>7 DEF vars
<1> QED
  BY <1>1, <1>2, <1>3, <1>4, <1>5, <1>6, <1>7 DEF Next, Thread

-----------------------------------------------------------------------------
(* The step of CurlMail that a step of MailFuture is: the call asks, the    *)
(* server takes the mail, the answer comes; all others change nothing that  *)
(* a caller sees.                                                           *)
LEMMA Simulates == CurlInv /\ [Next]_vars => [Abstract!Next]_(Abstract!avars)
<1> SUFFICES ASSUME CurlInv, Next PROVE Abstract!Next \/ UNCHANGED Abstract!avars
  BY DEF vars, Answer, Abstract!avars
<1> USE DEF CurlInv, CallInv, Places, Goto, Set, Ways, NoFuture, Unset, Answer
<1> USE DEF Abstract!None, Abstract!Pending, Abstract!Threw, Abstract!Answers
<1>1. ASSUME NEW c \in Calls, Call(c) PROVE Abstract!Ask(c)
  BY <1>1 DEF Call, Abstract!Ask
<1>2. ASSUME NEW c \in Calls, OpenTemplate(c) PROVE Abstract!Answer(c, -1) \/ UNCHANGED Abstract!avars
  <2>1. CASE Goto(c, "open", "returned") /\ Set(c, -1)
    <3>1. Answer[c] = 11 /\ mails[c] = 0 /\ mails' = mails
      BY <1>2, <2>1 DEF OpenTemplate
    <3>2. Answer' = [Answer EXCEPT ![c] = -1]
      BY <1>2, <2>1
    <3> QED
      BY <3>1, <3>2 DEF Abstract!Answer
  <2>2. CASE Goto(c, "open", "run") /\ UNCHANGED future
    BY <1>2, <2>2 DEF OpenTemplate, Abstract!avars
  <2> QED
    BY <1>2, <2>1, <2>2 DEF OpenTemplate
<1>3. ASSUME NEW c \in Calls, Run(c) PROVE Abstract!Answer(c, 12) \/ UNCHANGED Abstract!avars
  <2>1. CASE Goto(c, "run", "threw") /\ Set(c, NoFuture)
    <3>1. Answer[c] = 11 /\ mails[c] = 0 /\ mails' = mails
      BY <1>3, <2>1 DEF Run
    <3>2. Answer' = [Answer EXCEPT ![c] = 12]
      BY <1>3, <2>1
    <3> QED
      BY <3>1, <3>2 DEF Abstract!Answer
  <2>2. CASE \E way \in Ways : Goto(c, "run", way) /\ UNCHANGED future
    <3>1. Answer' = Answer
      BY <2>2
    <3> QED
      BY <1>3, <3>1 DEF Run, Abstract!avars
  <2> QED
    BY <1>3, <2>1, <2>2 DEF Run
<1>4. ASSUME NEW c \in Calls, Finish(c) PROVE \E a \in {1, -2, -3} : Abstract!Answer(c, a)
  <2>1. Response(c) \in {1, -2, -3} /\ (Response(c) = 1 => mails[c] = 1)
    BY <1>4 DEF Finish, Waited, Response
  <2>2. Answer[c] = 11 /\ mails' = mails
    BY <1>4 DEF Finish
  <2>3. Answer' = [Answer EXCEPT ![c] = Response(c)]
    <3>1. pc' = [pc EXCEPT ![c] = "returned"] /\ future' = [future EXCEPT ![c] = Response(c)]
      BY <1>4 DEF Finish
    <3> HIDE DEF Answer
    <3>2. Answer \in [Calls -> Int] /\ Answer' = [d \in Calls |-> Answer'[d]]
      BY DEF Answer
    <3>3. Answer'[c] = Response(c) /\ \A d \in Calls \ {c} : Answer'[d] = Answer[d]
      BY <3>1 DEF Answer
    <3> QED
      BY <2>1, <3>2, <3>3
  <2> HIDE DEF Answer
  <2>4. Abstract!Answer(c, Response(c))
    BY <2>1, <2>2, <2>3 DEF Abstract!Answer
  <2> QED
    BY <2>1, <2>4
<1>5. ASSUME NEW c \in Calls, Deliver(c) PROVE Abstract!Take(c)
  BY <1>5 DEF Deliver, Abstract!Take
<1>6. ASSUME NEW c \in Calls, Exit(c) PROVE UNCHANGED Abstract!avars
  BY <1>6 DEF Exit, Abstract!avars
<1> QED
  BY <1>1, <1>2, <1>3, <1>4, <1>5, <1>6 DEF Next, Thread, Abstract!Next

(* The future holds the one right answer: 1 of a mail the server took, -1   *)
(* or no future of one that was not sent, and nothing is sent after it.     *)
THEOREM CurlKeepsPromise == Spec => KeepsPromise
<1>1. Init => Abstract!Init
  BY DEF Init, Abstract!Init, Abstract!None, Answer
<1> QED
  BY InitCurl, CurlStep, Simulates, <1>1, PTL DEF Spec, KeepsPromise, Abstract!Promise

-----------------------------------------------------------------------------
(* Filling in the texts changes nothing that CurlMail knows of.             *)

Steps == Places \cup {"fill", "command"}
PcOK == pc \in [Calls -> Steps]

LEMMA PcStep == PcOK /\ [MailNext]_<< vars, texts >> => PcOK'
BY DEF MailNext, Ask, Missing, Read, Text, After, RunShell, FillPair, FillCommand, Round, Filled, Ready,
       Call, OpenTemplate, Run, Finish, Deliver, Exit, Goto, Ways, vars, PcOK, Steps, Places

LEMMA FillingIsOpening ==
  PcOK /\ [MailNext]_<< vars, texts >> => [Atomic!Next]_(Atomic!vars)
<1> SUFFICES ASSUME PcOK, MailNext PROVE Atomic!Next \/ UNCHANGED Atomic!vars
  BY DEF vars, Atomic!vars
<1> USE DEF PcOK, Steps, Places, Goto, Set, Ways, vars, NoFuture,
            Atomic!vars, Atomic!Goto, Atomic!Set, Atomic!Ways,
            Atomic!NoFuture, Unset, Atomic!Unset
<1>1. ASSUME NEW c \in Calls, Ask(c) PROVE Atomic!Call(c)
  BY <1>1 DEF Ask, Call, Atomic!Call
<1>2. ASSUME NEW c \in Calls, Missing(c) PROVE Atomic!OpenTemplate(c)
  BY <1>2 DEF Missing, OpenTemplate, Atomic!OpenTemplate
<1>3. ASSUME NEW c \in Calls, Read(c) PROVE UNCHANGED Atomic!vars
  BY <1>3 DEF Read
<1>4. ASSUME NEW c \in Calls, FillPair(c) \/ FillCommand(c) \/ Round(c) PROVE UNCHANGED Atomic!vars
  BY <1>4 DEF FillPair, FillCommand, Round
<1>5. ASSUME NEW c \in Calls, Filled(c) PROVE UNCHANGED Atomic!vars
  BY <1>5 DEF Filled
<1>6. ASSUME NEW c \in Calls, Ready(c) PROVE Atomic!OpenTemplate(c)
  BY <1>6 DEF Ready, Atomic!OpenTemplate
<1>7. ASSUME NEW c \in Calls, Run(c) PROVE Atomic!Run(c)
  BY <1>7 DEF Run, Atomic!Run
<1>8. ASSUME NEW c \in Calls, Finish(c) PROVE Atomic!Finish(c)
  BY <1>8 DEF Finish, Atomic!Finish, Waited, Atomic!Waited, Response, Atomic!Response
<1>9. ASSUME NEW c \in Calls, Deliver(c) PROVE Atomic!Deliver(c)
  BY <1>9 DEF Deliver, Atomic!Deliver
<1>10. ASSUME NEW c \in Calls, Exit(c) PROVE Atomic!Exit(c)
  BY <1>10 DEF Exit, Atomic!Exit
<1> QED
  BY <1>1, <1>2, <1>3, <1>4, <1>5, <1>6, <1>7, <1>8, <1>9, <1>10
  DEF MailNext, Text, After, RunShell, Atomic!Next, Atomic!Thread

(* The call with its texts implements the call whose template is opened and *)
(* filled in one step.                                                      *)
THEOREM TextsAreInvisible == MailSpec => ImplementsCurlMail
<1>1. Init => PcOK /\ Atomic!Init
  BY DEF Init, Atomic!Init, NoFuture, Atomic!NoFuture, PcOK, Steps, Places
<1> QED
  BY <1>1, PcStep, FillingIsOpening, PTL DEF MailSpec, MailInit, ImplementsCurlMail, Atomic!Spec

-----------------------------------------------------------------------------
(* Induction on the natural numbers, for a set of them: library theorems    *)
(* that take an operator cannot be used.                                    *)
LEMMA Least ==
  ASSUME NEW T \in SUBSET Nat, T # {}
  PROVE \E x \in T : \A y \in T : x <= y
<1>1. PICK x \in T : \A y \in T : <<y, x>> \notin OpToRel(<, Nat)
  BY WFMin, NatLessThanWellFounded, Zenon
<1>2. \A y \in T : ~(y < x)
  BY <1>1, Zenon DEF OpToRel
<1>3. \A y \in T : y \in Int /\ x \in Int
  OBVIOUS
<1> QED
  BY <1>2, <1>3

LEMMA Induct ==
  ASSUME NEW S, 0 \in S, \A n \in Nat : n \in S => n + 1 \in S
  PROVE Nat \subseteq S
<1> SUFFICES ASSUME Nat \ S # {} PROVE FALSE
  OBVIOUS
<1>1. PICK x \in Nat \ S : \A y \in Nat \ S : x <= y
  BY Least, Nat \ S \in SUBSET Nat
<1>2. x # 0 /\ x - 1 \in Nat /\ ~(x <= x - 1)
  BY <1>1
<1>3. x - 1 \in S
  BY <1>1, <1>2
<1> QED
  BY <1>1, <1>2, <1>3

-----------------------------------------------------------------------------
(* The first R elements behind x in s are those behind y in t.              *)
Same(s, x, t, y, R) ==
  /\ s \in Seq(Char) /\ t \in Seq(Char) /\ x \in Nat /\ y \in Nat /\ R \in Nat
  /\ x + R <= Len(s) /\ y + R <= Len(t) /\ \A i \in 1 .. R : s[x + i] = t[y + i]
SameCut(s, x, t, y, a, b) == SubSeq(s, x + a + 1, x + b) = SubSeq(t, y + a + 1, y + b)

LEMMA CutOfSame ==
  ASSUME NEW s, NEW x, NEW t, NEW y, NEW R, Same(s, x, t, y, R), NEW b \in 0 .. R, NEW a \in 0 .. b
  PROVE SameCut(s, x, t, y, a, b)
<1> USE DEF Same
<1>1. PICK c, d : c = SubSeq(s, x + a + 1, x + b) /\ d = SubSeq(t, y + a + 1, y + b)
  OBVIOUS
<1>2. \A i \in x + a + 1 .. x + b : s[i] \in Char
  OBVIOUS
<1>3. \A i \in y + a + 1 .. y + b : t[i] \in Char
  OBVIOUS
<1>4. c \in Seq(Char) /\ Len(c) = b - a /\ \A i \in 1 .. b - a : c[i] = s[x + (a + i)]
  <2>1. /\ c \in Seq(Char)
        /\ Len(c) = (IF x + a + 1 <= x + b THEN (x + b) - (x + a + 1) + 1 ELSE 0)
        /\ \A i \in 1 .. (x + b) - (x + a + 1) + 1 : c[i] = s[x + a + 1 + i - 1]
    BY <1>1, <1>2, SubSeqProperties
  <2> QED
    BY <2>1
<1>5. d \in Seq(Char) /\ Len(d) = b - a /\ \A i \in 1 .. b - a : d[i] = t[y + (a + i)]
  <2>1. /\ d \in Seq(Char)
        /\ Len(d) = (IF y + a + 1 <= y + b THEN (y + b) - (y + a + 1) + 1 ELSE 0)
        /\ \A i \in 1 .. (y + b) - (y + a + 1) + 1 : d[i] = t[y + a + 1 + i - 1]
    BY <1>1, <1>3, SubSeqProperties
  <2> QED
    BY <2>1
<1>6. ASSUME NEW i \in 1 .. b - a PROVE c[i] = d[i]
  <2>1. PICK j \in 1 .. R : j = a + i
    OBVIOUS
  <2>2. s[x + j] = t[y + j]
    OBVIOUS
  <2>3. c[i] = s[x + j] /\ d[i] = t[y + j]
    BY <1>4, <1>5, <2>1
  <2> QED
    BY <2>2, <2>3
<1>7. c = d
  <2>1. PICK k \in Nat : k = b - a
    OBVIOUS
  <2>2. c = [i \in 1 .. k |-> c[i]] /\ d = [i \in 1 .. k |-> d[i]]
    BY <1>4, <1>5, <2>1
  <2>3. [i \in 1 .. k |-> c[i]] = [i \in 1 .. k |-> d[i]]
    BY <1>6, <2>1
  <2> QED
    BY <2>2, <2>3, Zenon
<1> QED
  BY <1>1, <1>7, Zenon DEF SameCut

-----------------------------------------------------------------------------
(* The recursion of Scan has one solution.                                  *)
Scans(f, s, q, r, N) ==
  f = [n \in 0 .. N |-> IF n = 0 THEN F!Unread ELSE F!Take(s, q, r, f[n - 1], n)]

LEMMA ScanExists ==
  ASSUME NEW s, NEW q, NEW r, NEW N \in Nat
  PROVE \E f : Scans(f, s, q, r, N)
<1> DEFINE Done == {n \in Nat : \E f : Scans(f, s, q, r, n)}
<1>1. 0 \in Done
  <2> DEFINE f == [n \in 0 .. 0 |-> F!Unread]
  <2>1. \A n \in 0 .. 0 : n = 0 /\ f[n] = F!Unread
    OBVIOUS
  <2>2. f = [n \in 0 .. 0 |-> f[n]]
    OBVIOUS
  <2> HIDE DEF f
  <2>3. \A n \in 0 .. 0 : f[n] = IF n = 0 THEN F!Unread ELSE F!Take(s, q, r, f[n - 1], n)
    BY <2>1, Zenon
  <2>4. f = [n \in 0 .. 0 |-> IF n = 0 THEN F!Unread ELSE F!Take(s, q, r, f[n - 1], n)]
    BY <2>2, <2>3
  <2> QED
    BY <2>4 DEF Scans
<1>2. ASSUME NEW n \in Nat, n \in Done PROVE n + 1 \in Done
  <2>1. PICK f : Scans(f, s, q, r, n)
    BY <1>2
  <2> DEFINE g == [m \in 0 .. n + 1 |-> IF m = n + 1 THEN F!Take(s, q, r, f[n], n + 1) ELSE f[m]]
  <2>2. \A m \in 0 .. n : f[m] = IF m = 0 THEN F!Unread ELSE F!Take(s, q, r, f[m - 1], m)
    BY <2>1 DEF Scans
  <2>3. \A m \in 0 .. n : g[m] = f[m]
    OBVIOUS
  <2>4. ASSUME NEW m \in 0 .. n + 1
        PROVE g[m] = IF m = 0 THEN F!Unread ELSE F!Take(s, q, r, g[m - 1], m)
    <3>1. CASE m = n + 1
      <4>1. g[m] = F!Take(s, q, r, f[n], n + 1) /\ m - 1 = n /\ m # 0
        BY <3>1
      <4>2. g[m - 1] = f[n]
        BY <2>3, <4>1
      <4> QED
        BY <3>1, <4>1, <4>2, Zenon
    <3>2. CASE m \in 0 .. n
      <4>1. g[m] = f[m] /\ (m # 0 => g[m - 1] = f[m - 1])
        BY <2>3, <3>2
      <4> QED
        BY <2>2, <3>2, <4>1, Zenon
    <3> QED
      BY <3>1, <3>2
  <2>5. DOMAIN g = 0 .. n + 1 /\ g = [m \in 0 .. n + 1 |-> g[m]]
    OBVIOUS
  <2> HIDE DEF g
  <2>6. g = [m \in 0 .. n + 1 |-> IF m = 0 THEN F!Unread ELSE F!Take(s, q, r, g[m - 1], m)]
    BY <2>4, <2>5
  <2>7. Scans(g, s, q, r, n + 1)
    BY <2>6 DEF Scans
  <2> QED
    BY <2>7
<1> HIDE DEF Done
<1>3. Nat \subseteq Done
  BY <1>1, <1>2, Induct
<1> QED
  BY <1>3 DEF Done

LEMMA ScanIs ==
  ASSUME NEW s \in Seq(Char), NEW q, NEW r
  PROVE Scans(F!Scan(s, q, r), s, q, r, Len(s))
<1>1. PICK f : Scans(f, s, q, r, Len(s))
  BY ScanExists, Len(s) \in Nat
<1> QED
  BY <1>1 DEF Scans, F!Scan

Scanned(f, s, q, r, N) ==
  /\ f[0] = F!Unread
  /\ \A n \in 0 .. N : n # 0 => f[n] = F!Take(s, q, r, f[n - 1], n)
LEMMA ScanSteps ==
  ASSUME NEW f, NEW s, NEW q, NEW r, NEW N \in Nat, Scans(f, s, q, r, N)
  PROVE Scanned(f, s, q, r, N)
<1>1. 0 \in 0 .. N
  OBVIOUS
<1>2. \A n \in 0 .. N : f[n] = IF n = 0 THEN F!Unread ELSE F!Take(s, q, r, f[n - 1], n)
  BY DEF Scans
<1> QED
  BY <1>1, <1>2, Zenon DEF Scanned

(* What has been read up to n ends at n or before.                          *)
LEMMA EndOf ==
  ASSUME NEW f, NEW s, NEW q, NEW r, NEW N \in Nat, Scanned(f, s, q, r, N)
  PROVE \A n \in 0 .. N : f[n].end \in 0 .. n
<1> DEFINE Done == {n \in Nat : n <= N => f[n].end \in 0 .. n}
<1>1. 0 \in Done
  BY DEF Scanned, F!Unread
<1>2. ASSUME NEW n \in Nat, n \in Done PROVE n + 1 \in Done
  <2> SUFFICES ASSUME n + 1 <= N PROVE f[n + 1].end \in 0 .. n + 1
    OBVIOUS
  <2>1. n + 1 \in 0 .. N /\ n + 1 # 0 /\ (n + 1) - 1 = n /\ n <= N
    OBVIOUS
  <2>2. f[n + 1] = F!Take(s, q, r, f[n], n + 1)
    BY <2>1 DEF Scanned
  <2>3. f[n].end \in 0 .. n
    BY <1>2, <2>1
  <2>4. F!Take(s, q, r, f[n], n + 1).end \in {f[n].end, n + 1}
    BY DEF F!Take
  <2> QED
    BY <2>2, <2>3, <2>4
<1> HIDE DEF Done
<1>3. Nat \subseteq Done
  BY <1>1, <1>2, Induct
<1> QED
  BY <1>3 DEF Done

(* A string is read as the beginning of a longer one is.                    *)
Agree(f, g, d) == \A n \in 0 .. d : g[n] = f[n]
LEMMA ScanOfBeginning ==
  ASSUME NEW f, NEW g, NEW s, NEW t, NEW q \in Seq(Char), NEW r, NEW d,
         Same(t, 0, s, 0, d), Scanned(f, s, q, r, d), Scanned(g, t, q, r, d)
  PROVE Agree(f, g, d)
<1> d \in Nat
  BY DEF Same
<1> DEFINE Done == {n \in Nat : n <= d => g[n] = f[n]}
<1>1. 0 \in Done
  BY DEF Scanned
<1>2. ASSUME NEW n \in Nat, n \in Done PROVE n + 1 \in Done
  <2> SUFFICES ASSUME n + 1 <= d PROVE g[n + 1] = f[n + 1]
    OBVIOUS
  <2>1. n + 1 \in 0 .. d /\ n + 1 # 0 /\ (n + 1) - 1 = n /\ n <= d /\ n \in 0 .. d
    OBVIOUS
  <2>2. f[n + 1] = F!Take(s, q, r, f[n], n + 1) /\ g[n + 1] = F!Take(t, q, r, f[n], n + 1)
    BY <1>2, <2>1 DEF Scanned
  <2>3. PICK a : a = f[n]
    OBVIOUS
  <2>4. PICK e \in 0 .. n : e = a.end
    BY <2>1, <2>3, EndOf
  <2>5. PICK l \in Nat, m \in Nat : l = Len(q) /\ m = n + 1
    OBVIOUS
  <2>6. CASE e + l <= m
    <3>1. m - l \in 0 .. d /\ m \in 0 .. d /\ e \in 0 .. m - l /\ m - l \in 0 .. m
      BY <2>1, <2>5, <2>6
    <3>2. SameCut(t, 0, s, 0, e, m - l) /\ SameCut(t, 0, s, 0, m - l, m)
      BY <3>1, CutOfSame, Zenon
    <3>3. SubSeq(t, e + 1, m - l) = SubSeq(s, e + 1, m - l) /\ SubSeq(t, m - l + 1, m) = SubSeq(s, m - l + 1, m)
      BY <3>1, <3>2 DEF SameCut
    <3>4. F!Ends(t, q, m) <=> F!Ends(s, q, m)
      BY <2>5, <3>3, Zenon DEF F!Ends
    <3>5. F!Take(s, q, r, a, m) = F!Take(t, q, r, a, m)
      BY <2>5, <2>4, <3>3, <3>4, Zenon DEF F!Take
    <3> QED
      BY <2>2, <2>3, <2>5, <3>5, Zenon
  <2>7. CASE ~(e + l <= m)
    <3>1. F!Take(s, q, r, a, m) = a /\ F!Take(t, q, r, a, m) = a
      BY <2>5, <2>7, <2>4 DEF F!Take
    <3> QED
      BY <2>2, <2>3, <2>5, <3>1, Zenon
  <2> QED
    BY <2>6, <2>7
<1> HIDE DEF Done
<1>3. Nat \subseteq Done
  BY <1>1, <1>2, Induct
<1> QED
  BY <1>3 DEF Done, Agree

NoneEnds(a, s, q, d, m) == \A n \in d + 1 .. m : ~(a.end + Len(q) <= n /\ F!Ends(s, q, n))
(* Nothing is taken while no query ends.                                    *)
LEMMA Stays ==
  ASSUME NEW f, NEW s, NEW q, NEW r, NEW N \in Nat, Scanned(f, s, q, r, N),
         NEW d \in 0 .. N, NEW m \in d .. N, NoneEnds(f[d], s, q, d, m)
  PROVE f[m] = f[d]
<1> DEFINE Done == {k \in Nat : d + k <= m => f[d + k] = f[d]}
<1>1. 0 \in Done
  OBVIOUS
<1>2. ASSUME NEW k \in Nat, k \in Done PROVE k + 1 \in Done
  <2> SUFFICES ASSUME d + (k + 1) <= m PROVE f[d + (k + 1)] = f[d]
    OBVIOUS
  <2>1. PICK n \in 0 .. N : n = d + (k + 1) /\ n # 0 /\ n - 1 = d + k /\ n \in d + 1 .. m
    OBVIOUS
  <2>2. f[n] = F!Take(s, q, r, f[d], n)
    BY <1>2, <2>1 DEF Scanned
  <2>3. F!Take(s, q, r, f[d], n) = f[d]
    BY <2>1, Zenon DEF F!Take, NoneEnds
  <2> QED
    BY <2>1, <2>2, <2>3, Zenon
<1> HIDE DEF Done
<1>3. Nat \subseteq Done
  BY <1>1, <1>2, Induct
<1>4. PICK k \in Nat : d + k = m
  <2>1. m - d \in Nat /\ d + (m - d) = m
    OBVIOUS
  <2> QED
    BY <2>1
<1>5. k \in Done
  BY <1>3
<1> QED
  BY <1>4, <1>5 DEF Done

Hit(s, q, h) == SubSeq(s, h + 1, h + Len(q)) = q
LEMMA FindIs ==
  ASSUME NEW s \in Seq(Char), NEW q \in Seq(Char), NEW x \in Nat, NEW p, p = F!Find(s, q, x)
  PROVE \/ p = -1 /\ \A h \in x .. Len(s) - Len(q) : ~Hit(s, q, h)
        \/ p \in x .. Len(s) - Len(q) /\ Hit(s, q, p) /\ \A h \in x .. p - 1 : ~Hit(s, q, h)
<1> DEFINE hits == {h \in x .. Len(s) - Len(q) : SubSeq(s, h + 1, h + Len(q)) = q}
<1>1. p = IF hits = {} THEN -1 ELSE F!Min(hits)
  BY DEF F!Find, F!NPos
<1>2. CASE hits = {}
  BY <1>1, <1>2 DEF Hit
<1>3. CASE hits # {}
  <2>1. hits \in SUBSET Nat
    OBVIOUS
  <2> HIDE DEF hits
  <2>2. PICK m \in hits : \A h \in hits : m <= h
    BY <1>3, <2>1, Least
  <2>3. p \in hits /\ \A h \in hits : p <= h
    BY <1>1, <1>3, <2>2 DEF F!Min
  <2>4. p \in x .. Len(s) - Len(q) /\ Hit(s, q, p)
    BY <2>3 DEF hits, Hit
  <2>5. ASSUME NEW h \in x .. p - 1 PROVE ~Hit(s, q, h)
    <3>1. ~(p <= h) /\ h \in x .. Len(s) - Len(q)
      BY <2>4
    <3> QED
      BY <2>3, <3>1 DEF hits, Hit
  <2> QED
    BY <2>4, <2>5
<1> QED
  BY <1>2, <1>3

(* t is read to d: its rest stands behind x in s, what is finished before.  *)
ReadTo(s, x, t, d, q, r) ==
  /\ x \in 0 .. Len(s) /\ Same(s, x, t, d, Len(s) - x) /\ Len(t) = d + (Len(s) - x)
  /\ F!Scan(t, q, r)[d] = [out |-> SubSeq(s, 1, x), end |-> d]

(* A query that begins in the rest ends in it at the same place.            *)
EndsAt(s, x, t, d, q, h, n) == n = d + h + Len(q) /\ (Hit(s, q, x + h) <=> F!Ends(t, q, n))
LEMMA HitEnds ==
  ASSUME NEW s, NEW x, NEW t, NEW d, NEW R, Same(s, x, t, d, R), NEW q \in Seq(Char),
         NEW h \in Nat, h + Len(q) <= R, NEW n, n = d + h + Len(q)
  PROVE EndsAt(s, x, t, d, q, h, n)
<1>1. x \in Nat /\ d \in Nat /\ R \in Nat
  BY DEF Same
<1>2. PICK l \in Nat : l = Len(q)
  OBVIOUS
<1>3. PICK b \in 0 .. R : b = h + l /\ h \in 0 .. b
  BY <1>1, <1>2
<1>4. SubSeq(s, x + h + 1, x + b) = SubSeq(t, d + h + 1, d + b)
  <2>1. SameCut(s, x, t, d, h, b)
    BY <1>3, CutOfSame, Zenon
  <2> QED
    BY <2>1 DEF SameCut
<1>5. n - l + 1 = d + h + 1 /\ n = d + b /\ x + b = (x + h) + l
  BY <1>1, <1>2, <1>3
<1> QED
  BY <1>2, <1>4, <1>5, Zenon DEF EndsAt, Hit, F!Ends

NoHit(s, q, x, k) == \A h \in Nat : h + Len(q) <= k => ~Hit(s, q, x + h)
(* Nothing ends before the next query does, or before the end.              *)
Unmoved(s, x, t, d, q, r, n) == F!Scan(t, q, r)[n] = [out |-> SubSeq(s, 1, x), end |-> d]
LEMMA Between ==
  ASSUME NEW s, NEW x, NEW t, NEW d, NEW q \in Seq(Char), NEW r, ReadTo(s, x, t, d, q, r),
         NEW k \in 0 .. Len(s) - x, NoHit(s, q, x, k)
  PROVE Unmoved(s, x, t, d, q, r, d + k)
<1>1. x \in Nat /\ d \in Nat /\ s \in Seq(Char) /\ t \in Seq(Char) /\ Len(s) - x \in Nat
  BY DEF ReadTo, Same
<1>2. PICK f : f = F!Scan(t, q, r)
  OBVIOUS
<1>3. PICK N \in Nat : N = Len(t) /\ Scanned(f, t, q, r, N)
  BY <1>1, <1>2, ScanIs, ScanSteps
<1>4. f[d] = [out |-> SubSeq(s, 1, x), end |-> d] /\ N = d + (Len(s) - x)
  BY <1>2, <1>3 DEF ReadTo
<1>5. f[d].end = d
  BY <1>4
<1>6. PICK l \in Nat : l = Len(q)
  OBVIOUS
<1>7. ASSUME NEW n \in d + 1 .. d + k, d + l <= n, F!Ends(t, q, n) PROVE FALSE
  <2>1. PICK h \in Nat : n = d + h + l /\ h + l <= k
    <3>1. n - d - l \in Nat /\ n = d + (n - d - l) + l /\ (n - d - l) + l <= k
      BY <1>1, <1>7
    <3> QED
      BY <3>1
  <2>2. h + Len(q) <= Len(s) - x /\ n = d + h + Len(q)
    BY <1>1, <1>6, <2>1
  <2>3. EndsAt(s, x, t, d, q, h, n)
    <3>1. Same(s, x, t, d, Len(s) - x)
      BY DEF ReadTo
    <3> QED
      BY <2>2, <3>1, HitEnds, Zenon
  <2> QED
    BY <1>6, <1>7, <2>1, <2>3 DEF EndsAt, NoHit
<1>8. d \in 0 .. N /\ d + k \in d .. N
  BY <1>1, <1>4
<1>9. NoneEnds(f[d], t, q, d, d + k)
  BY <1>5, <1>6, <1>7, Zenon DEF NoneEnds
<1>10. f[d + k] = f[d]
  BY <1>3, <1>8, <1>9, Stays, Zenon
<1> QED
  BY <1>2, <1>4, <1>10, Zenon DEF Unmoved

(* What replace makes of s, and what stays behind the replacement.          *)
Replaces(s, p, n, r, new) ==
  /\ new \in Seq(Char) /\ Len(new) = p + Len(r) + (Len(s) - p - n)
  /\ SubSeq(new, 1, p + Len(r)) = SubSeq(s, 1, p) \o r
  /\ \A i \in 1 .. Len(s) - p - n : new[p + Len(r) + i] = s[p + n + i]

(* o is the first b elements of s.                                          *)
Begins(o, s, b) == o \in Seq(Char) /\ Len(o) = b /\ \A i \in 1 .. b : o[i] = s[i]
LEMMA Beginning ==
  ASSUME NEW s \in Seq(Char), NEW b \in Nat, b <= Len(s), NEW o, o = SubSeq(s, 1, b)
  PROVE Begins(o, s, b)
<1>1. \A i \in 1 .. b : s[i] \in Char
  OBVIOUS
<1>2. /\ o \in Seq(Char) /\ Len(o) = (IF 1 <= b THEN b - 1 + 1 ELSE 0)
      /\ \A i \in 1 .. b - 1 + 1 : o[i] = s[1 + i - 1]
  BY <1>1, SubSeqProperties
<1> QED
  BY <1>2 DEF Begins

LEMMA End ==
  ASSUME NEW s \in Seq(Char), NEW b \in Nat, b <= Len(s), NEW o, o = SubSeq(s, b + 1, Len(s))
  PROVE o \in Seq(Char) /\ Len(o) = Len(s) - b /\ \A i \in 1 .. Len(s) - b : o[i] = s[b + i]
<1>1. \A i \in b + 1 .. Len(s) : s[i] \in Char
  OBVIOUS
<1>2. /\ o \in Seq(Char) /\ Len(o) = (IF b + 1 <= Len(s) THEN Len(s) - (b + 1) + 1 ELSE 0)
      /\ \A i \in 1 .. Len(s) - (b + 1) + 1 : o[i] = s[b + 1 + i - 1]
  BY <1>1, SubSeqProperties
<1>3. PICK m \in Nat : m = Len(s) - b /\ Len(s) - (b + 1) + 1 = m
  OBVIOUS
<1>4. Len(o) = m
  BY <1>2, <1>3
<1>5. ASSUME NEW i \in 1 .. m PROVE o[i] = s[b + i]
  <2>1. b + 1 + i - 1 = b + i
    OBVIOUS
  <2>2. o[i] = s[b + 1 + i - 1]
    BY <1>2, <1>3
  <2> QED
    BY <2>1, <2>2
<1> QED
  BY <1>2, <1>3, <1>4, <1>5

(* Two strings one behind the other.                                        *)
Behind(u, v, w) ==
  /\ w \in Seq(Char) /\ Len(w) = Len(u) + Len(v)
  /\ \A i \in 1 .. Len(u) : w[i] = u[i]
  /\ \A i \in 1 .. Len(v) : w[Len(u) + i] = v[i]
LEMMA Joins ==
  ASSUME NEW u \in Seq(Char), NEW v \in Seq(Char)
  PROVE Behind(u, v, u \o v)
<1>1. u \o v \in Seq(Char) /\ Len(u \o v) = Len(u) + Len(v)
      /\ \A i \in 1 .. Len(u) : (u \o v)[i] = u[i]
  OBVIOUS
<1>2. \A i \in 1 .. Len(v) : (u \o v)[Len(u) + i] = v[i]
  OBVIOUS
<1> QED
  BY <1>1, <1>2 DEF Behind

LEMMA Equal ==
  ASSUME NEW u \in Seq(Char), NEW v \in Seq(Char), Len(u) = Len(v), \A i \in 1 .. Len(u) : u[i] = v[i]
  PROVE u = v
<1>1. PICK n \in Nat : n = Len(u)
  OBVIOUS
<1>2. u = [i \in 1 .. n |-> u[i]] /\ v = [i \in 1 .. n |-> v[i]]
  BY <1>1
<1>3. [i \in 1 .. n |-> u[i]] = [i \in 1 .. n |-> v[i]]
  BY <1>1
<1> QED
  BY <1>2, <1>3, Zenon

LEMMA ReplaceIs ==
  ASSUME NEW s \in Seq(Char), NEW p \in Nat, NEW n \in Nat, p + n <= Len(s), NEW r \in Seq(Char),
         NEW new, new = F!Replace(s, p, n, r)
  PROVE Replaces(s, p, n, r, new)
<1>1. PICK a, c : a = SubSeq(s, 1, p) /\ c = SubSeq(s, p + n + 1, Len(s))
  OBVIOUS
<1>2. a \in Seq(Char) /\ Len(a) = p
  <2>1. p <= Len(s)
    OBVIOUS
  <2>2. Begins(a, s, p)
    BY <1>1, <2>1, Beginning, Zenon
  <2> QED
    BY <2>2 DEF Begins
<1>3. PICK m \in Nat : m = Len(s) - p - n /\ c \in Seq(Char) /\ Len(c) = m /\ \A i \in 1 .. m : c[i] = s[p + n + i]
  <2>1. p + n \in Nat
    OBVIOUS
  <2>2. c \in Seq(Char) /\ Len(c) = Len(s) - (p + n) /\ \A i \in 1 .. Len(s) - (p + n) : c[i] = s[p + n + i]
    BY <1>1, <2>1, End
  <2>3. Len(s) - (p + n) = Len(s) - p - n /\ Len(s) - p - n \in Nat
    OBVIOUS
  <2> QED
    BY <2>2, <2>3
<1>4. PICK w : w = a \o r /\ Behind(a, r, w)
  BY <1>2, Joins
<1>5. PICK k \in Nat : k = p + Len(r) /\ w \in Seq(Char) /\ Len(w) = k
  BY <1>2, <1>4 DEF Behind
<1>6. new = w \o c
  BY <1>1, <1>4, Zenon DEF F!Replace
<1>7. Behind(w, c, new)
  BY <1>3, <1>5, <1>6, Joins
<1>8. new \in Seq(Char) /\ Len(new) = k + m /\ (\A i \in 1 .. k : new[i] = w[i])
      /\ \A i \in 1 .. m : new[k + i] = c[i]
  BY <1>3, <1>5, <1>7 DEF Behind
<1>9. SubSeq(new, 1, k) = w
  <2>1. PICK o : o = SubSeq(new, 1, k)
    OBVIOUS
  <2>2. o \in Seq(Char) /\ Len(o) = k /\ \A i \in 1 .. k : o[i] = new[i]
    <3>1. k <= Len(new)
      BY <1>8
    <3>2. Begins(o, new, k)
      BY <1>8, <2>1, <3>1, Beginning, Zenon
    <3> QED
      BY <3>2, Zenon DEF Begins
  <2>3. o = w
    BY <1>5, <1>8, <2>2, Equal
  <2> QED
    BY <2>1, <2>3
<1>10. \A i \in 1 .. m : new[k + i] = s[p + n + i]
  BY <1>3, <1>8
<1>11. Len(new) = p + Len(r) + (Len(s) - p - n)
  BY <1>3, <1>5, <1>8
<1>12. SubSeq(new, 1, p + Len(r)) = SubSeq(s, 1, p) \o r
  BY <1>1, <1>4, <1>5, <1>9, Zenon
<1>13. \A i \in 1 .. Len(s) - p - n : new[p + Len(r) + i] = s[p + n + i]
  BY <1>3, <1>5, <1>10, Zenon
<1> QED
  BY <1>8, <1>11, <1>12, <1>13 DEF Replaces

(* One round: the query found is taken by Scan.                             *)
LEMMA RoundReads ==
  ASSUME NEW s, NEW x, NEW t, NEW d, NEW q \in Seq(Char), NEW r \in Seq(Char), ReadTo(s, x, t, d, q, r),
         q # << >>, NEW p, p = F!Find(s, q, x), p # -1,
         NEW new, new = F!Replace(s, p, Len(q), r)
  PROVE \E e \in Nat : ReadTo(new, p + Len(r), t, e, q, r)
<1>1. x \in Nat /\ d \in Nat /\ s \in Seq(Char) /\ t \in Seq(Char) /\ x <= Len(s)
  BY DEF ReadTo, Same
<1>2. PICK l \in Nat, lr \in Nat, L \in Nat : l = Len(q) /\ lr = Len(r) /\ L = Len(s) /\ l # 0
  <2>1. Len(q) \in Nat /\ Len(r) \in Nat /\ Len(s) \in Nat /\ Len(q) # 0
    BY <1>1
  <2> QED
    BY <2>1
<1>3. p \in x .. L - l /\ Hit(s, q, p) /\ \A g \in x .. p - 1 : ~Hit(s, q, g)
  BY <1>1, <1>2, FindIs
<1>4. PICK h \in Nat : p = x + h /\ h + l <= L - x
  <2>1. p - x \in Nat /\ p = x + (p - x) /\ (p - x) + l <= L - x
    BY <1>1, <1>3, SMTT(20)
  <2> QED
    BY <2>1
<1>5. PICK e \in Nat : e = d + h + l /\ e - l = d + h /\ e # 0 /\ e - 1 = d + (h + l - 1) /\ d + l <= e
  <2>1. d + h + l \in Nat /\ (d + h + l) - l = d + h /\ d + h + l # 0 /\ (d + h + l) - 1 = d + (h + l - 1)
        /\ d + l <= d + h + l
    BY <1>1, <1>2
  <2> QED
    BY <2>1
<1>6. Replaces(s, p, l, r, new)
  <2>1. p \in Nat /\ p + Len(q) <= Len(s)
    BY <1>1, <1>2, <1>3
  <2>2. Len(q) \in Nat
    BY <1>2
  <2>3. Replaces(s, p, Len(q), r, new)
    BY <1>1, <2>1, <2>2, ReplaceIs, Zenon
  <2> QED
    BY <1>2, <2>3, Zenon
<1>7. /\ new \in Seq(Char) /\ Len(new) = p + lr + (L - p - l)
      /\ SubSeq(new, 1, p + lr) = SubSeq(s, 1, p) \o r
      /\ \A i \in 1 .. L - p - l : new[p + lr + i] = s[p + l + i]
  BY <1>2, <1>6 DEF Replaces
<1>8. Len(t) = d + (L - x) /\ \A i \in 1 .. L - x : s[x + i] = t[d + i]
  BY <1>2 DEF ReadTo, Same
<1>9. PICK R \in Nat : R = L - p - l /\ R = Len(new) - (p + lr) /\ Len(t) = e + R
  <2>1. L - p - l \in Nat /\ L - p - l = Len(new) - (p + lr)
    <3>1. p \in Nat /\ L - p - l \in Nat
      BY <1>1, <1>2, <1>3
    <3>2. PICK m \in Nat : m = L - p - l
      BY <3>1
    <3>3. Len(new) = p + lr + m
      BY <1>7, <3>2
    <3> QED
      BY <1>2, <3>1, <3>2, <3>3, SMTT(20)
  <2>2. Len(t) = e + (L - p - l)
    <3>1. d + (L - x) = d + h + l + (L - (x + h) - l)
      BY <1>1
    <3> QED
      BY <1>4, <1>5, <1>8, <3>1, Zenon
  <2> QED
    BY <2>1, <2>2
<1>10. Same(new, p + lr, t, e, R) /\ p + lr \in 0 .. Len(new)
  <2>1. ASSUME NEW i \in 1 .. R PROVE new[p + lr + i] = t[e + i]
    <3>1. PICK j \in 1 .. L - x : j = h + l + i
      <4>1. h + l + i \in 1 .. L - x
        BY <1>1, <1>2, <1>4, <1>9
      <4> QED
        BY <4>1
    <3>2. s[x + j] = t[d + j]
      BY <1>8
    <3>3. p + l + i = x + j /\ e + i = d + j
      BY <1>1, <1>2, <1>4, <1>5, <3>1
    <3>4. new[p + lr + i] = s[p + l + i]
      BY <1>7, <1>9
    <3> QED
      BY <3>2, <3>3, <3>4, Zenon
  <2>2. p + lr \in Nat /\ p + lr + R <= Len(new) /\ e + R <= Len(t)
    <3>1. p \in Nat /\ p + lr \in Nat /\ Len(new) \in Nat /\ Len(t) = e + R
      <4>1. p \in Nat /\ p + lr \in Nat
        BY <1>1, <1>2, <1>3
      <4>2. Len(new) \in Nat
        BY <1>7
      <4> QED
        BY <1>9, <4>1, <4>2
    <3>2. PICK n \in Nat, m \in Nat : n = Len(new) /\ m = p + lr
      BY <3>1
    <3>3. n - m = R /\ m \in Nat
      BY <1>9, <3>2
    <3>4. m + R <= n
      BY <3>3
    <3>5. e + R <= e + R
      BY <1>5
    <3> QED
      BY <3>1, <3>2, <3>3, <3>4, <3>5, Zenon
  <2>3. new \in Seq(Char) /\ t \in Seq(Char) /\ p + lr \in Nat /\ e \in Nat /\ R \in Nat
    BY <1>1, <1>5, <1>7, <1>9, <2>2, Zenon
  <2>4. Same(new, p + lr, t, e, R)
    BY <2>1, <2>2, <2>3, Zenon DEF Same
  <2>5. p + lr \in 0 .. Len(new)
    <3>1. PICK n \in Nat, m \in Nat : n = Len(new) /\ m = p + lr
      <4>1. Len(new) \in Nat
        BY <1>7
      <4> QED
        BY <2>2, <4>1, Zenon
    <3>2. m + R <= n
      BY <2>2, <3>1, Zenon
    <3>3. m \in 0 .. n
      BY <1>9, <3>1, <3>2
    <3> QED
      BY <3>1, <3>3, Zenon
  <2> QED
    BY <2>4, <2>5, Zenon
<1>11. F!Scan(t, q, r)[e] = [out |-> SubSeq(new, 1, p + lr), end |-> e]
  <2>1. PICK f : f = F!Scan(t, q, r)
    OBVIOUS
  <2>2. Scanned(f, t, q, r, Len(t))
    <3>1. Len(t) \in Nat
      BY <1>1
    <3> QED
      BY <1>1, <2>1, <3>1, ScanIs, ScanSteps
  <2>3. e \in 0 .. Len(t)
    BY <1>9
  <2>4. f[e] = F!Take(t, q, r, f[e - 1], e)
    BY <1>5, <2>2, <2>3 DEF Scanned
  <2>5. f[e - 1] = [out |-> SubSeq(s, 1, x), end |-> d]
    <3>1. h + l - 1 \in 0 .. Len(s) - x
      BY <1>1, <1>2, <1>4
    <3>2. ASSUME NEW g \in Nat, g + Len(q) <= h + l - 1 PROVE ~Hit(s, q, x + g)
      <4>1. x + g \in x .. p - 1
        <5>1. g + l <= h + l - 1
          BY <1>2, <3>2
        <5> QED
          BY <1>1, <1>2, <1>4, <5>1
      <4> QED
        BY <1>3, <4>1
    <3>3. f[d + (h + l - 1)] = [out |-> SubSeq(s, 1, x), end |-> d]
      <4>1. PICK k \in 0 .. Len(s) - x : k = h + l - 1
        BY <3>1
      <4>2. NoHit(s, q, x, k)
        BY <3>2, <4>1, Zenon DEF NoHit
      <4>3. Unmoved(s, x, t, d, q, r, d + k)
        BY <4>2, Between, Zenon
      <4> QED
        BY <2>1, <4>1, <4>3, Zenon DEF Unmoved
    <3> QED
      BY <1>5, <3>3
  <2>6. F!Ends(t, q, e)
    <3>1. Same(s, x, t, d, Len(s) - x)
      BY DEF ReadTo
    <3>2. h + Len(q) <= Len(s) - x /\ e = d + h + Len(q)
      BY <1>2, <1>4, <1>5
    <3>3. EndsAt(s, x, t, d, q, h, e)
      BY <3>1, <3>2, HitEnds, Zenon
    <3> QED
      BY <1>3, <1>4, <3>3 DEF EndsAt
  <2>7. SubSeq(s, 1, x) \o SubSeq(t, d + 1, d + h) = SubSeq(s, 1, p)
    <3>1. PICK a, b, o : a = SubSeq(s, 1, x) /\ b = SubSeq(s, x + 1, x + h) /\ o = SubSeq(s, 1, p)
      OBVIOUS
    <3>2. b = SubSeq(t, d + 1, d + h)
      <4>1. h \in 0 .. Len(s) - x /\ 0 \in 0 .. h
        BY <1>1, <1>2, <1>4
      <4>2. SameCut(s, x, t, d, 0, h)
        BY <4>1, CutOfSame, Zenon DEF ReadTo
      <4>3. x + 0 + 1 = x + 1 /\ d + 0 + 1 = d + 1
        BY <1>1
      <4> QED
        BY <3>1, <4>2, <4>3 DEF SameCut
    <3>3. a \in Seq(Char) /\ Len(a) = x /\ \A i \in 1 .. x : a[i] = s[i]
      <4>1. Begins(a, s, x)
        BY <1>1, <3>1, Beginning, Zenon
      <4> QED
        BY <4>1, Zenon DEF Begins
    <3>4. o \in Seq(Char) /\ Len(o) = p /\ \A i \in 1 .. p : o[i] = s[i]
      <4>1. p \in Nat /\ p <= Len(s)
        BY <1>1, <1>2, <1>3
      <4>2. Begins(o, s, p)
        BY <1>1, <3>1, <4>1, Beginning, Zenon
      <4> QED
        BY <4>2, Zenon DEF Begins
    <3>5. b \in Seq(Char) /\ Len(b) = h /\ \A i \in 1 .. h : b[i] = s[x + i]
      <4>1. \A i \in x + 1 .. x + h : s[i] \in Char
        BY <1>1, <1>2, <1>4
      <4>2. /\ b \in Seq(Char) /\ Len(b) = (IF x + 1 <= x + h THEN (x + h) - (x + 1) + 1 ELSE 0)
            /\ \A i \in 1 .. (x + h) - (x + 1) + 1 : b[i] = s[x + 1 + i - 1]
        BY <1>1, <3>1, <4>1, SubSeqProperties
      <4>3. (x + h) - (x + 1) + 1 = h
        BY <1>1
      <4>4. Len(b) = h
        BY <1>1, <4>2, <4>3
      <4>5. ASSUME NEW i \in 1 .. h PROVE b[i] = s[x + i]
        <5>1. x + 1 + i - 1 = x + i
          BY <1>1
        <5> QED
          BY <4>2, <4>3, <5>1
      <4> QED
        BY <4>2, <4>4, <4>5
    <3>6. PICK w : w = a \o b /\ Behind(a, b, w)
      BY <3>3, <3>5, Joins
    <3>7. w \in Seq(Char) /\ Len(w) = x + h /\ (\A i \in 1 .. x : w[i] = s[i])
          /\ \A i \in 1 .. h : w[x + i] = s[x + i]
      BY <3>3, <3>5, <3>6 DEF Behind
    <3>8. ASSUME NEW i \in 1 .. Len(w) PROVE w[i] = o[i]
      <4>1. i \in 1 .. p
        BY <1>4, <3>7
      <4>2. CASE i <= x
        <5>1. i \in 1 .. x
          BY <4>1, <4>2
        <5>2. w[i] = s[i] /\ o[i] = s[i]
          BY <3>4, <3>7, <4>1, <5>1
        <5> QED
          BY <5>2
      <4>3. CASE ~(i <= x)
        <5>1. PICK j \in 1 .. h : i = x + j
          <6>1. i - x \in 1 .. h /\ i = x + (i - x)
            BY <1>1, <3>7, <4>3
          <6> QED
            BY <6>1
        <5> QED
          <6>1. w[i] = s[x + j]
            BY <3>7, <5>1
          <6>2. o[i] = s[i]
            BY <3>4, <4>1
          <6> QED
            BY <5>1, <6>1, <6>2, Zenon
      <4> QED
        BY <4>2, <4>3
    <3>9. w = o
      BY <1>4, <3>4, <3>7, <3>8, Equal
    <3> QED
      BY <3>1, <3>2, <3>6, <3>9, Zenon
  <2>8. PICK a : a = [out |-> SubSeq(s, 1, x), end |-> d]
    OBVIOUS
  <2>9. a = [out |-> SubSeq(s, 1, x), end |-> d] /\ a.out = SubSeq(s, 1, x) /\ a.end = d
    BY <2>8
  <2>10. F!Take(t, q, r, a, e) = [out |-> SubSeq(s, 1, x) \o SubSeq(t, d + 1, d + h) \o r, end |-> e]
    <3>1. a.end + Len(q) <= e
      BY <1>2, <1>5, <2>9
    <3>2. SubSeq(t, a.end + 1, e - Len(q)) = SubSeq(t, d + 1, d + h)
      BY <1>2, <1>5, <2>9, Zenon
    <3> QED
      BY <2>6, <2>9, <3>1, <3>2, Zenon DEF F!Take
  <2>11. f[e - 1] = a
    BY <2>5, <2>9, Zenon
  <2>12. f[e] = [out |-> SubSeq(s, 1, p) \o r, end |-> e]
    BY <2>4, <2>7, <2>10, <2>11, Zenon
  <2> QED
    BY <1>7, <2>1, <2>12, Zenon
<1>12. ReadTo(new, p + lr, t, e, q, r)
  BY <1>9, <1>10, <1>11 DEF ReadTo
<1> QED
  BY <1>2, <1>12, Zenon

(* What has been read and what has not, put together.                       *)
LEMMA Halves ==
  ASSUME NEW s \in Seq(Char), NEW x \in Nat, x <= Len(s)
  PROVE s = SubSeq(s, 1, x) \o SubSeq(s, x + 1, Len(s))
<1>1. PICK a, b : a = SubSeq(s, 1, x) /\ b = SubSeq(s, x + 1, Len(s))
  OBVIOUS
<1>2. PICK L \in Nat : L = Len(s)
  OBVIOUS
<1>3. a \in Seq(Char) /\ Len(a) = x /\ \A i \in 1 .. x : a[i] = s[i]
  <2>1. Begins(a, s, x)
    BY <1>1, Beginning, Zenon
  <2> QED
    BY <2>1, Zenon DEF Begins
<1>4. PICK m \in Nat : m = L - x
  <2>1. L - x \in Nat
    BY <1>2
  <2> QED
    BY <2>1
<1>5. b \in Seq(Char) /\ Len(b) = m /\ \A i \in 1 .. m : b[i] = s[x + i]
  <2>1. b \in Seq(Char) /\ Len(b) = Len(s) - x /\ \A i \in 1 .. Len(s) - x : b[i] = s[x + i]
    BY <1>1, End
  <2> QED
    BY <1>2, <1>4, <2>1, Zenon
<1>6. PICK w : w = a \o b /\ Behind(a, b, w)
  BY <1>3, <1>5, Joins
<1>7. x + m = L
  BY <1>2, <1>4
<1>8. w \in Seq(Char) /\ Len(w) = L /\ (\A i \in 1 .. x : w[i] = s[i]) /\ \A i \in 1 .. m : w[x + i] = s[x + i]
  BY <1>3, <1>5, <1>6, <1>7, Zenon DEF Behind
<1>9. ASSUME NEW i \in 1 .. L PROVE w[i] = s[i]
  <2>1. CASE i <= x
    BY <1>8, <2>1
  <2>2. CASE ~(i <= x)
    <3>1. PICK j \in 1 .. m : i = x + j
      <4>1. i - x \in 1 .. m /\ i = x + (i - x)
        BY <1>4, <2>2
      <4> QED
        BY <4>1
    <3>2. w[x + j] = s[x + j]
      BY <1>8
    <3> QED
      BY <3>1, <3>2, Zenon
  <2> QED
    BY <2>1, <2>2
<1>10. w = s
  BY <1>2, <1>8, <1>9, Equal
<1> QED
  BY <1>1, <1>6, <1>10, Zenon

IsReplaced(s, t, q, r) == F!Replaced(t, q, r) = s
LEMMA ReadOut ==
  ASSUME NEW s, NEW x, NEW t, NEW d, NEW q \in Seq(Char), NEW r, ReadTo(s, x, t, d, q, r),
         F!Find(s, q, x) = -1
  PROVE IsReplaced(s, t, q, r)
<1>1. x \in Nat /\ x <= Len(s) /\ d \in Nat /\ s \in Seq(Char) /\ t \in Seq(Char)
  BY DEF ReadTo, Same
<1>2. PICK L \in Nat, l \in Nat : L = Len(s) /\ l = Len(q)
  BY <1>1
<1>3. PICK k \in 0 .. Len(s) - x : k = L - x
  <2>1. L - x \in 0 .. L - x
    BY <1>1, <1>2
  <2> QED
    BY <1>2, <2>1
<1>4. NoHit(s, q, x, k)
  <2>1. \A h \in x .. L - l : ~Hit(s, q, h)
    BY <1>1, <1>2, FindIs
  <2>2. ASSUME NEW h \in Nat, h + l <= k PROVE ~Hit(s, q, x + h)
    <3>1. x + h \in x .. L - l
      BY <1>1, <1>3, <2>2
    <3> QED
      BY <2>1, <3>1
  <2> QED
    BY <1>2, <2>2, Zenon DEF NoHit
<1>5. Unmoved(s, x, t, d, q, r, d + k)
  BY <1>4, Between, Zenon
<1>6. Len(t) = d + k
  BY <1>2, <1>3 DEF ReadTo
<1>7. PICK a : a = F!Scan(t, q, r)[Len(t)]
  OBVIOUS
<1>8. a = [out |-> SubSeq(s, 1, x), end |-> d]
  BY <1>5, <1>6, <1>7, Zenon DEF Unmoved
<1>9. F!Replaced(t, q, r) = a.out \o SubSeq(t, a.end + 1, Len(t))
  BY <1>7, Zenon DEF F!Replaced
<1>10. SubSeq(t, d + 1, Len(t)) = SubSeq(s, x + 1, Len(s))
  <2>1. SameCut(s, x, t, d, 0, k)
    <3>1. Same(s, x, t, d, Len(s) - x) /\ 0 \in 0 .. k
      BY DEF ReadTo
    <3> QED
      BY <3>1, CutOfSame, Zenon
  <2>2. x + 0 + 1 = x + 1 /\ d + 0 + 1 = d + 1 /\ x + k = Len(s)
    BY <1>1, <1>2, <1>3
  <2> QED
    BY <1>6, <2>1, <2>2 DEF SameCut
<1>11. a.out = SubSeq(s, 1, x) /\ a.end = d
  BY <1>8
<1>12. s = SubSeq(s, 1, x) \o SubSeq(s, x + 1, Len(s))
  BY <1>1, Halves
<1>13. F!Replaced(t, q, r) = s
  BY <1>9, <1>10, <1>11, <1>12, Zenon
<1> QED
  BY <1>13 DEF IsReplaced

Parted(s, x, t, q, r, rest, done) == t = done \o rest /\ SubSeq(s, 1, x) = F!Replaced(done, q, r)
LEMMA ReadDone ==
  ASSUME NEW s, NEW x, NEW t, NEW d, NEW q \in Seq(Char), NEW r, ReadTo(s, x, t, d, q, r),
         NEW rest, rest = SubSeq(s, x + 1, Len(s)),
         NEW done, done = SubSeq(t, 1, Len(t) - Len(rest))
  PROVE Parted(s, x, t, q, r, rest, done)
<1>1. x \in Nat /\ x <= Len(s) /\ d \in Nat /\ s \in Seq(Char) /\ t \in Seq(Char)
  BY DEF ReadTo, Same
<1>2. PICK L \in Nat, k \in Nat : L = Len(s) /\ k = L - x /\ Len(t) = d + k
  <2>1. Len(s) - x \in Nat /\ Len(t) = d + (Len(s) - x) /\ Len(s) \in Nat
    BY <1>1 DEF ReadTo
  <2> QED
    BY <2>1
<1>3. Len(rest) = k
  <2>1. Len(rest) = Len(s) - x
    BY <1>1, End
  <2> QED
    BY <1>2, <2>1
<1>4. Len(t) - Len(rest) = d /\ d <= Len(t)
  <2>1. (d + k) - k = d /\ d <= d + k
    BY <1>1
  <2> QED
    BY <1>2, <1>3, <2>1, Zenon
<1>5. done = SubSeq(t, 1, d)
  BY <1>4, Zenon
<1>6. done \in Seq(Char) /\ Len(done) = d /\ \A i \in 1 .. d : done[i] = t[i]
  <2>1. d <= Len(t)
    BY <1>4
  <2>2. PICK o : o = SubSeq(t, 1, d)
    OBVIOUS
  <2>3. Begins(o, t, d)
    BY <1>1, <2>1, <2>2, Beginning, Zenon
  <2> QED
    BY <1>5, <2>2, <2>3, Zenon DEF Begins
<1>7. rest = SubSeq(t, d + 1, Len(t))
  <2>1. SameCut(s, x, t, d, 0, k)
    <3>1. Same(s, x, t, d, k) /\ 0 \in 0 .. k /\ k \in 0 .. k
      BY <1>2 DEF ReadTo
    <3> QED
      BY <3>1, CutOfSame, Zenon
  <2>2. x + 0 + 1 = x + 1 /\ d + 0 + 1 = d + 1 /\ x + k = Len(s) /\ d + k = Len(t)
    BY <1>1, <1>2
  <2> QED
    BY <2>1, <2>2, Zenon DEF SameCut
<1>8. t = done \o rest
  BY <1>1, <1>4, <1>5, <1>7, Halves
<1>9. PICK f, g : f = F!Scan(t, q, r) /\ g = F!Scan(done, q, r)
  OBVIOUS
<1>10. Scanned(f, t, q, r, d)
  <2>1. Len(t) \in Nat
    BY <1>1
  <2>2. Scanned(f, t, q, r, Len(t))
    BY <1>1, <1>9, <2>1, ScanIs, ScanSteps
  <2>3. \A n \in 0 .. d : n \in 0 .. Len(t)
    BY <1>1, <1>2
  <2>4. \A n \in 0 .. d : n # 0 => f[n] = F!Take(t, q, r, f[n - 1], n)
    BY <2>2, <2>3, Zenon DEF Scanned
  <2> QED
    BY <2>2, <2>4 DEF Scanned
<1>11. Scanned(g, done, q, r, d)
  <2>1. Scans(g, done, q, r, d)
    BY <1>6, <1>9, ScanIs
  <2> QED
    BY <1>1, <2>1, ScanSteps
<1>12. g[d] = f[d]
  <2>1. Same(done, 0, t, 0, d)
    BY <1>1, <1>4, <1>6 DEF Same
  <2>2. d \in 0 .. d
    BY <1>1
  <2>3. Agree(f, g, d)
    BY <1>10, <1>11, <2>1, ScanOfBeginning, Zenon
  <2> QED
    BY <2>2, <2>3 DEF Agree
<1>13. PICK a : a = g[d]
  OBVIOUS
<1>14. a = [out |-> SubSeq(s, 1, x), end |-> d]
  BY <1>9, <1>12, <1>13, Zenon DEF ReadTo
<1>15. a.out = SubSeq(s, 1, x) /\ a.end = d
  BY <1>14
<1>16. F!Replaced(done, q, r) = SubSeq(s, 1, x) \o SubSeq(done, d + 1, d)
  BY <1>6, <1>9, <1>13, <1>15, Zenon DEF F!Replaced
<1>17. SubSeq(done, d + 1, d) = << >> /\ SubSeq(s, 1, x) \in Seq(Char)
  <2>1. Begins(SubSeq(s, 1, x), s, x)
    BY <1>1, Beginning, Zenon
  <2>2. SubSeq(s, 1, x) \in Seq(Char)
    BY <2>1, Zenon DEF Begins
  <2>3. SubSeq(done, d + 1, d) = << >>
    BY <1>1, <1>6
  <2> QED
    BY <2>2, <2>3, Zenon
<1>18. SubSeq(s, 1, x) \o << >> = SubSeq(s, 1, x)
  BY <1>17
<1> QED
  BY <1>8, <1>16, <1>17, <1>18, Zenon DEF Parted

LEMMA OneOf ==
  ASSUME NEW s \in Seq(Char), NEW m \in 1 .. Len(s)
  PROVE SubSeq(s, m, m) = << s[m] >>
<1>1. \A i \in m .. m : s[i] \in Char
  OBVIOUS
<1>2. PICK o : o = SubSeq(s, m, m)
  OBVIOUS
<1>3. /\ o \in Seq(Char) /\ Len(o) = (IF m <= m THEN m - m + 1 ELSE 0)
      /\ \A i \in 1 .. m - m + 1 : o[i] = s[m + i - 1]
  BY <1>1, <1>2, SubSeqProperties
<1>4. Len(o) = 1 /\ o[1] = s[m]
  <2>1. m - m + 1 = 1 /\ m + 1 - 1 = m
    OBVIOUS
  <2> QED
    BY <1>3, <2>1
<1>5. o = << s[m] >>
  BY <1>3, <1>4
<1> QED
  BY <1>2, <1>5

(* What is sought in a text that has it once, between a and b.              *)
Around(a, ch, b) == a \o << ch >> \o b

LEMMA JoinFacts ==
  ASSUME NEW a \in Seq(Char), NEW b \in Seq(Char)
  PROVE /\ a \o b \in Seq(Char) /\ Len(a \o b) = Len(a) + Len(b)
        /\ SubSeq(a \o b, 1, Len(a)) = a
        /\ \A i \in 1 .. Len(b) : (a \o b)[Len(a) + i] = b[i]
<1>1. Behind(a, b, a \o b)
  BY Joins
<1>2. PICK t \in Seq(Char) : t = a \o b /\ Len(t) = Len(a) + Len(b)
  BY <1>1 DEF Behind
<1>3. PICK o : o = SubSeq(t, 1, Len(a))
  OBVIOUS
<1>4. Begins(o, t, Len(a))
  <2>1. Len(a) \in Nat /\ Len(a) <= Len(t)
    BY <1>2
  <2> QED
    BY <1>3, <2>1, Beginning, Zenon
<1>5. o = a
  BY <1>1, <1>2, <1>4, Equal DEF Begins, Behind
<1> QED
  BY <1>1, <1>2, <1>3, <1>5 DEF Behind

(* Nothing behind what has been put in.                                     *)
LEMMA NoneBehind ==
  ASSUME NEW a \in Seq(Char), NEW b \in Seq(Char), NEW ch \in Char, ~Contains(b, ch)
  PROVE F!Find(a \o b, << ch >>, Len(a)) = -1
<1>1. PICK t \in Seq(Char) : t = a \o b /\ Len(t) = Len(a) + Len(b)
  BY JoinFacts
<1>2. PICK q \in Seq(Char) : q = << ch >> /\ Len(q) = 1
  <2>1. << ch >> \in Seq(Char) /\ Len(<< ch >>) = 1
    OBVIOUS
  <2> QED
    BY <2>1, Zenon
<1>3. ASSUME NEW h \in Len(a) .. Len(t) - Len(q), Hit(t, q, h) PROVE FALSE
  <2>1. PICK i \in 1 .. Len(b) : h + 1 = Len(a) + i
    <3>1. PICK k : k = h + 1 - Len(a)
      OBVIOUS
    <3>2. k \in 1 .. Len(b) /\ h + 1 = Len(a) + k
      BY <1>1, <1>2, <1>3, <3>1
    <3> QED
      BY <3>2
  <2>2. h + 1 \in 1 .. Len(t) /\ SubSeq(t, h + 1, h + 1) = q
    BY <1>1, <1>2, <1>3 DEF Hit
  <2>3. << t[h + 1] >> = << ch >>
    BY <1>2, <2>2, OneOf, Zenon
  <2>4. t[h + 1] = b[i]
    BY <1>1, <2>1, JoinFacts
  <2> QED
    BY <2>3, <2>4 DEF Contains
<1>4. PICK p : p = F!Find(t, q, Len(a)) /\ Len(a) \in Nat
  OBVIOUS
<1>5. p = -1 \/ (p \in Len(a) .. Len(t) - Len(q) /\ Hit(t, q, p))
  BY <1>4, FindIs
<1> QED
  BY <1>1, <1>2, <1>3, <1>4, <1>5

LEMMA FoundAround ==
  ASSUME NEW a \in Seq(Char), NEW b \in Seq(Char), NEW ch \in Char,
         ~Contains(a, ch), ~Contains(b, ch), NEW r \in Seq(Char)
  PROVE /\ F!Find(Around(a, ch, b), << ch >>, 0) = Len(a)
        /\ F!Replace(Around(a, ch, b), Len(a), 1, r) = a \o r \o b
<1>1. PICK u \in Seq(Char) : u = a \o << ch >> /\ Len(u) = Len(a) + 1 /\ SubSeq(u, 1, Len(a)) = a
                             /\ u[Len(a) + 1] = ch
  <2>1. PICK o \in Seq(Char) : o = << ch >> /\ Len(o) = 1 /\ o[1] = ch
    <3>1. << ch >> \in Seq(Char) /\ Len(<< ch >>) = 1 /\ << ch >>[1] = ch
      OBVIOUS
    <3> QED
      BY <3>1, Zenon
  <2>2. /\ a \o o \in Seq(Char) /\ Len(a \o o) = Len(a) + 1 /\ SubSeq(a \o o, 1, Len(a)) = a
        /\ (a \o o)[Len(a) + 1] = ch
    BY <2>1, JoinFacts
  <2> QED
    BY <2>1, <2>2
<1>2. PICK t \in Seq(Char) : /\ t = u \o b /\ Len(t) = Len(u) + Len(b)
                             /\ \A i \in 1 .. Len(u) : t[i] = u[i]
                             /\ \A i \in 1 .. Len(b) : t[Len(u) + i] = b[i]
  BY <1>1, Joins DEF Behind
<1>3. PICK n \in Nat : n = Len(a)
  OBVIOUS
<1>4. PICK q \in Seq(Char) : q = << ch >> /\ Len(q) = 1
  <2>1. << ch >> \in Seq(Char) /\ Len(<< ch >>) = 1
    OBVIOUS
  <2> QED
    BY <2>1, Zenon
<1>5. n \in 0 .. Len(t) - Len(q) /\ Hit(t, q, n)
  <2>1. n + 1 \in 1 .. Len(t) /\ t[n + 1] = ch
    BY <1>1, <1>2, <1>3
  <2>2. SubSeq(t, n + 1, n + 1) = << ch >>
    BY <2>1, OneOf
  <2> QED
    BY <1>4, <2>1, <2>2 DEF Hit
<1>6. ASSUME NEW h \in 0 .. n - 1 PROVE ~Hit(t, q, h)
  <2>1. h + 1 \in 1 .. n /\ h + 1 \in 1 .. Len(t) /\ h + 1 \in 1 .. Len(u)
    BY <1>1, <1>2, <1>3
  <2>2. t[h + 1] = a[h + 1]
    BY <1>1, <1>2, <1>3, <2>1
  <2>3. a[h + 1] # ch
    BY <1>3, <2>1 DEF Contains
  <2>4. SubSeq(t, h + 1, h + 1) = << t[h + 1] >>
    BY <2>1, OneOf
  <2>5. << t[h + 1] >> # << ch >>
    BY <2>2, <2>3
  <2> QED
    BY <1>4, <2>4, <2>5 DEF Hit
<1>7. F!Find(t, q, 0) = n
  <2>1. PICK p : p = F!Find(t, q, 0)
    OBVIOUS
  <2>2. \/ p = -1 /\ \A h \in 0 .. Len(t) - Len(q) : ~Hit(t, q, h)
        \/ p \in 0 .. Len(t) - Len(q) /\ Hit(t, q, p) /\ \A h \in 0 .. p - 1 : ~Hit(t, q, h)
    BY <2>1, FindIs
  <2> QED
    BY <1>5, <1>6, <2>1, <2>2
<1>8. SubSeq(t, 1, n) = a
  <2>1. PICK o : o = SubSeq(t, 1, n)
    OBVIOUS
  <2>2. Begins(o, t, n)
    <3>1. n <= Len(t)
      BY <1>1, <1>2, <1>3
    <3> QED
      BY <2>1, <3>1, Beginning, Zenon
  <2>3. \A i \in 1 .. n : o[i] = a[i]
    BY <1>1, <1>2, <1>3, <2>2 DEF Begins
  <2> QED
    BY <1>3, <2>1, <2>2, <2>3, Equal DEF Begins
<1>9. SubSeq(t, n + 1 + 1, Len(t)) = b
  <2>1. PICK o : o = SubSeq(t, n + 1 + 1, Len(t))
    OBVIOUS
  <2>2. o \in Seq(Char) /\ Len(o) = Len(t) - (n + 1) /\ \A i \in 1 .. Len(t) - (n + 1) : o[i] = t[n + 1 + i]
    BY <1>1, <1>2, <1>3, <2>1, End
  <2>3. Len(t) - (n + 1) = Len(b) /\ n + 1 = Len(u)
    BY <1>1, <1>2, <1>3
  <2> QED
    BY <1>2, <2>1, <2>2, <2>3, Equal
<1>10. F!Replace(t, n, 1, r) = a \o r \o b
  BY <1>8, <1>9, Zenon DEF F!Replace
<1>11. t = Around(a, ch, b)
  BY <1>1, <1>2 DEF Around
<1> QED
  BY <1>3, <1>4, <1>7, <1>10, <1>11

(* Such a fill has not begun or has thrown for want of room; or it has been *)
(* made and goes on behind it.                                              *)
Placing(s, at, st, on, a, ch, r, b) ==
  \/ /\ s = Around(a, ch, b) /\ at = 0
     /\ on \/ (st = -1 /\ Len(a \o r \o b) > MaxSize)
  \/ /\ s = a \o r \o b /\ at = Len(a \o r) /\ Len(a \o r \o b) <= MaxSize
     /\ on \/ st = 1

LEMMA PlacingStep ==
  ASSUME NEW a \in Seq(Char), NEW b \in Seq(Char), NEW ch \in Char,
         ~Contains(a, ch), ~Contains(b, ch), NEW r \in Seq(Char),
         query = << ch >>, replacement = r, loop, F!Round,
         Placing(source, position, status, loop, a, ch, r, b)
  PROVE Placing(source', position', status', loop', a, ch, r, b)
<1>1. /\ F!Find(Around(a, ch, b), << ch >>, 0) = Len(a)
      /\ F!Replace(Around(a, ch, b), Len(a), 1, r) = a \o r \o b
  BY FoundAround
<1>2. Len(query) = 1 /\ Len(a \o r) = Len(a) + Len(r) /\ Len(a) \in Nat
      /\ Len(a \o r \o b) \in Nat /\ MaxSize \in Nat /\ a \o r \in Seq(Char)
  BY BoundsAssumption
<1>3. CASE source = Around(a, ch, b) /\ position = 0
  <2>1. CASE F!ReplaceNext
    BY <1>1, <1>2, <1>3, <2>1 DEF F!ReplaceNext, F!Behind, Placing
  <2>2. CASE F!Finish
    BY <1>1, <1>2, <1>3, <2>2 DEF F!Finish, F!NPos
  <2>3. CASE F!Throw
    BY <1>1, <1>2, <1>3, <2>3 DEF F!Throw, Placing
  <2> QED
    BY <2>1, <2>2, <2>3 DEF F!Round
<1>4. CASE source = a \o r \o b /\ position = Len(a \o r) /\ Len(a \o r \o b) <= MaxSize
  <2>1. F!Find(source, query, position) = -1
    BY <1>2, <1>4, NoneBehind
  <2> QED
    BY <1>4, <2>1 DEF F!Round, F!ReplaceNext, F!Throw, F!Finish, F!NPos, Placing
<1> QED
  BY <1>3, <1>4 DEF Placing

-----------------------------------------------------------------------------
(* and_replace_all: the text it is given is read as far as it has come.     *)
TextInv ==
  /\ source \in Seq(Char) /\ input \in Seq(Char) /\ query \in Seq(Char) /\ replacement \in Seq(Char)
  /\ position \in Nat /\ (loop => status = 0)
  /\ query # << >> =>
       /\ \E d \in Nat : ReadTo(source, position, input, d, query, replacement)
       /\ status = 1 => F!Find(source, query, position) = -1

LEMMA InvRoundsRight == TextInv => ReplacesEachOnce
<1> SUFFICES ASSUME TextInv, query # << >>,
                    NEW rest, rest = SubSeq(source, position + 1, Len(source)),
                    NEW done, done = SubSeq(input, 1, Len(input) - Len(rest))
             PROVE /\ input = done \o rest
                   /\ SubSeq(source, 1, position) = F!Replaced(done, query, replacement)
                   /\ status = 1 => source = F!Replaced(input, query, replacement)
  BY DEF ReplacesEachOnce, F!RoundsRight
<1>1. PICK d \in Nat : ReadTo(source, position, input, d, query, replacement)
  BY DEF TextInv
<1>2. query \in Seq(Char) /\ (status = 1 => F!Find(source, query, position) = -1)
  BY DEF TextInv
<1>3. Parted(source, position, input, query, replacement, rest, done)
  BY <1>1, <1>2, ReadDone, Zenon
<1>4. ASSUME status = 1 PROVE F!Replaced(input, query, replacement) = source
  <2>1. F!Find(source, query, position) = -1
    BY <1>2, <1>4
  <2> QED
    <3>1. IsReplaced(source, input, query, replacement)
      BY <1>1, <1>2, <2>1, ReadOut, Zenon
    <3> QED
      BY <3>1 DEF IsReplaced
<1> QED
  BY <1>3, <1>4, Zenon DEF Parted

LEMMA StartStep ==
  ASSUME TextInv, NEW s \in Seq(Char), NEW q \in Seq(Char), NEW r \in Seq(Char), F!Start(s, q, r)
  PROVE TextInv'
<1>1. source' = s /\ input' = s /\ query' = q /\ replacement' = r /\ position' = 0 /\ status' = 0
  BY DEF F!Start
<1>2. ReadTo(s, 0, s, 0, q, r)
  <2>1. Len(s) - 0 = Len(s) /\ Len(s) \in Nat /\ 0 + Len(s) = Len(s)
    OBVIOUS
  <2>2. Same(s, 0, s, 0, Len(s) - 0)
    BY <2>1 DEF Same
  <2>3. SubSeq(s, 1, 0) = << >>
    OBVIOUS
  <2>4. F!Scan(s, q, r)[0] = F!Unread
    BY <2>1, ScanIs, ScanSteps DEF Scanned
  <2>5. F!Scan(s, q, r)[0] = [out |-> SubSeq(s, 1, 0), end |-> 0]
    BY <2>3, <2>4 DEF F!Unread
  <2> QED
    BY <2>1, <2>2, <2>5 DEF ReadTo
<1>3. (\E d \in Nat : ReadTo(source, position, input, d, query, replacement))'
  BY <1>1, <1>2
<1> QED
  BY <1>1, <1>3 DEF TextInv

LEMMA RoundStep ==
  ASSUME TextInv, F!Round
  PROVE TextInv'
<1> USE DEF TextInv
<1>1. CASE F!ReplaceNext
  <2>1. PICK p, new : /\ p = F!Find(source, query, position) /\ p # -1
                      /\ new = F!Replace(source, p, Len(query), replacement)
                      /\ source' = new /\ position' = p + Len(replacement)
                      /\ query' = query /\ replacement' = replacement /\ input' = input /\ status' = status
    BY <1>1 DEF F!ReplaceNext, F!NPos, F!Behind
  <2>2. p \in position .. Len(source) - Len(query)
    BY <2>1, FindIs
  <2>3. p \in Nat /\ p + Len(query) <= Len(source) /\ Len(query) \in Nat /\ p + Len(replacement) \in Nat
    BY <2>2
  <2>4. new \in Seq(Char)
    BY <2>1, <2>3, ReplaceIs DEF Replaces
  <2>5. ASSUME query # << >>
        PROVE \E e \in Nat : ReadTo(new, p + Len(replacement), input, e, query, replacement)
    <3>1. PICK d \in Nat : ReadTo(source, position, input, d, query, replacement)
      BY <2>5
    <3> QED
      BY <2>1, <2>5, <3>1, RoundReads, Zenon
  <2>6. status = 0
    BY <1>1 DEF F!ReplaceNext
  <2> QED
    BY <2>1, <2>3, <2>4, <2>5, <2>6
<1>2. CASE F!Finish
  <2>1. /\ UNCHANGED << query, replacement, source, position, input >>
        /\ F!Find(source, query, position) = -1
    BY <1>2 DEF F!Finish, F!NPos
  <2>2. ~loop'
    BY <1>2 DEF F!Finish
  <2> QED
    BY <2>1, <2>2
<1>3. CASE F!Throw
  <2>1. UNCHANGED << query, replacement, source, position, input >> /\ status' = -1 /\ ~loop'
    BY <1>3 DEF F!Throw
  <2> QED
    BY <2>1
<1> QED
  BY <1>1, <1>2, <1>3 DEF F!Round

(* What the command is made of: the name first, the filled template behind  *)
(* it.  The template goes where its placeholder stood, if that was the only *)
(* one.                                                                     *)
Filling(c) ==
  pc[c] \in {"command", "run"} \cup Ways =>
    /\ pairs \in 0 .. 2
    /\ pc[c] # "command" => pairs = 2 /\ ~loop
    /\ pairs = 0 => ~loop
    /\ pairs = 1 =>
         /\ query = << Sender >> /\ replacement = name
         /\ Placing(source, position, status, loop, << >>, Sender, name, << Content >>)
    /\ pairs = 2 /\ ~Contains(name, Content) =>
         /\ query = << Content >> /\ replacement = html
         /\ Placing(source, position, status, loop, FromLine, Content, html, << >>)
Given(c) == curl[c] = "running" => pc[c] \in Ways /\ given = Shell(source)
TextsTyped ==
  /\ html \in Seq(Char) /\ name \in Seq(Char) /\ pairs \in Nat
MailInv ==
  /\ PcOK /\ curl \in [Calls -> {"none", "running", "ended"}]
  /\ TextInv /\ TextsTyped /\ \A c \in Calls : Filling(c) /\ Given(c)

LEMMA FromLineFacts ==
  ASSUME TextsTyped
  PROVE /\ FromLine \in Seq(Char) /\ (~Contains(name, Content) => ~Contains(FromLine, Content))
        /\ << >> \in Seq(Char) /\ ~Contains(<< >>, Sender) /\ ~Contains(<< >>, Content)
        /\ << Content >> \in Seq(Char) /\ ~Contains(<< Content >>, Sender)
<1>1. PICK o \in Seq(Char) : o = << Content >> /\ Len(o) = 1 /\ o[1] = Content
  <2>1. << Content >> \in Seq(Char) /\ Len(<< Content >>) = 1 /\ << Content >>[1] = Content
    BY CharAssumption
  <2> QED
    BY <2>1, Zenon
<1>2. PICK v \in Seq(Char) : v = << Sender >> /\ Len(v) = 1 /\ v[1] = Sender
  <2>1. << Sender >> \in Seq(Char) /\ Len(<< Sender >>) = 1 /\ << Sender >>[1] = Sender
    BY CharAssumption
  <2> QED
    BY <2>1, Zenon
<1>3. Len(<< >>) = 0 /\ << >> \in Seq(Char)
  OBVIOUS
<1>4. ~Contains(o, Sender) /\ ~Contains(v, Content) /\ ~Contains(<< >>, Sender) /\ ~Contains(<< >>, Content)
  BY <1>1, <1>2, <1>3, CharAssumption DEF Contains
<1> QED
  BY <1>1, <1>2, <1>3, <1>4 DEF TextsTyped, FromLine

LEMMA StringsAreSeqs ==
  ASSUME NEW n, NEW s \in Strings(n) PROVE s \in Seq(Char)
BY DEF Strings

LEMMA PairsAre ==
  /\ Command \in Seq(Char) /\ << Sender >> \in Seq(Char) /\ << Content >> \in Seq(Char)
  /\ Len(CommandPairs) = 2 /\ CommandPairs[1] = << Sender, name >> /\ CommandPairs[2] = << Content, html >>
<1>1. Sender \in Char /\ Content \in Char
  BY CharAssumption
<1>2. Command \in Seq(Char) /\ << Sender >> \in Seq(Char) /\ << Content >> \in Seq(Char)
  BY <1>1 DEF Command
<1>3. Len(CommandPairs) = 2 /\ CommandPairs[1] = << Sender, name >> /\ CommandPairs[2] = << Content, html >>
  BY DEF CommandPairs
<1> QED
  BY <1>2, <1>3

LEMMA InitMail == MailInit => MailInv
<1> SUFFICES ASSUME MailInit PROVE MailInv
  OBVIOUS
<1>1. PcOK /\ \A c \in Calls : pc[c] = "idle"
  BY DEF MailInit, Init, PcOK, Steps, Places
<1>2. TextInv
  BY DEF MailInit, TextInit, F!Quiet, TextInv
<1>3. TextsTyped
  BY DEF MailInit, TextInit, TextsTyped
<1>4. curl \in [Calls -> {"none", "running", "ended"}] /\ \A c \in Calls : curl[c] = "none"
  BY DEF MailInit, Init
<1> QED
  BY <1>1, <1>2, <1>3, <1>4 DEF MailInv, Filling, Given, Ways

(* The text is left alone.                                                  *)
LEMMA TextKept ==
  ASSUME TextInv, UNCHANGED text PROVE TextInv'
BY DEF TextInv, text

LEMMA FillPairStep ==
  ASSUME MailInv, NEW c \in Calls, FillPair(c) PROVE MailInv'
<1>1. TextInv'
  <2>1. PICK q \in Strings(MaxQuery), r \in Strings(MaxReplacement) : F!Start(html, q, r)
    BY DEF FillPair
  <2>2. q \in Seq(Char) /\ r \in Seq(Char) /\ html \in Seq(Char) /\ TextInv
    BY StringsAreSeqs DEF MailInv, TextsTyped
  <2> QED
    BY <2>1, <2>2, StartStep, Zenon
<1>2. PcOK' /\ TextsTyped'
  BY DEF MailInv, FillPair, vars, PcOK, TextsTyped
<1>3. ASSUME NEW b \in Calls PROVE Filling(b)' /\ Given(b)'
  <2>1. pc[b] = "fill" /\ pc' = pc /\ curl' = curl
    BY CallsAssumption DEF FillPair, vars
  <2>2. Given(b)
    BY DEF MailInv
  <2> QED
    BY <2>1, <2>2 DEF Filling, Given, Ways
<1> QED
  BY <1>1, <1>2, <1>3 DEF MailInv, FillPair, vars

LEMMA FillCommandStep ==
  ASSUME MailInv, NEW c \in Calls, FillCommand(c) PROVE MailInv'
<1>1. /\ pc[c] = "command" /\ pc' = pc /\ html' = html /\ name' = name /\ curl' = curl
      /\ pairs' = pairs + 1 /\ pairs \in {0, 1}
  BY PairsAre DEF FillCommand, vars, MailInv, TextsTyped
<1>2. F!Start(IF pairs = 0 THEN Command ELSE source, << CommandPairs[pairs + 1][1] >>, CommandPairs[pairs + 1][2])
  BY DEF FillCommand
<1>3. TextInv /\ source \in Seq(Char) /\ name \in Seq(Char) /\ html \in Seq(Char) /\ Filling(c) /\ Given(c)
  BY DEF MailInv, TextInv, TextsTyped
<1>4. PcOK' /\ TextsTyped' /\ curl' \in [Calls -> {"none", "running", "ended"}] /\ FromLine' = FromLine
  BY <1>1 DEF MailInv, PcOK, TextsTyped, FromLine
<1>5. Calls = {c} /\ Given(c)'
  BY <1>1, <1>3, CallsAssumption DEF Given, Ways
<1>6. CASE pairs = 0
  <2>1. CommandPairs[pairs + 1] = << Sender, name >> /\ << Sender, name >>[1] = Sender /\ << Sender, name >>[2] = name
    BY <1>6, PairsAre
  <2>2. F!Start(Command, << Sender >>, name)
    BY <1>2, <1>6, <2>1, Zenon
  <2>3. TextInv'
    BY <1>3, <2>2, PairsAre, StartStep, Zenon
  <2>4. Around(<< >>, Sender, << Content >>) = Command
    <3>1. PICK o \in Seq(Char), v \in Seq(Char) :
            /\ o = << Content >> /\ Len(o) = 1 /\ o[1] = Content
            /\ v = << Sender >> /\ Len(v) = 1 /\ v[1] = Sender
      <4>1. /\ << Content >> \in Seq(Char) /\ Len(<< Content >>) = 1 /\ << Content >>[1] = Content
            /\ << Sender >> \in Seq(Char) /\ Len(<< Sender >>) = 1 /\ << Sender >>[1] = Sender
        BY CharAssumption
      <4> QED
        BY <4>1, Zenon
    <3>2. << >> \o v \o o = v \o o
      OBVIOUS
    <3>3. PICK w : w = v \o o
      OBVIOUS
    <3>4. w \in Seq(Char) /\ Len(w) = 2 /\ w[1] = Sender /\ w[2] = Content
      BY <3>1, <3>3
    <3>5. w = << Sender, Content >>
      BY <3>4
    <3> QED
      BY <3>1, <3>2, <3>3, <3>5 DEF Around, Command
  <2>5. Placing(source', position', status', loop', << >>, Sender, name, << Content >>)
    BY <2>2, <2>4 DEF F!Start, Placing
  <2>6. query' = << Sender >> /\ replacement' = name /\ pairs' = 1
    BY <1>1, <1>6, <2>2 DEF F!Start
  <2>7. Filling(c)'
    BY <1>1, <2>5, <2>6 DEF Filling
  <2> QED
    BY <1>4, <1>5, <2>3, <2>7 DEF MailInv
<1>7. CASE pairs = 1
  <2>1. CommandPairs[pairs + 1] = << Content, html >> /\ << Content, html >>[1] = Content /\ << Content, html >>[2] = html
    BY <1>7, PairsAre
  <2>2. 1 # 0
    OBVIOUS
  <2>3. F!Start(source, << Content >>, html)
    BY <1>2, <1>7, <2>1, <2>2, Zenon
  <2>4. TextInv'
    BY <1>3, <2>3, PairsAre, StartStep, Zenon
  <2>5. source = FromLine \o << Content >>
    <3>1. Placing(source, position, status, loop, << >>, Sender, name, << Content >>) /\ ~loop
      BY <1>1, <1>3, <1>7, <2>3 DEF Filling, F!Start
    <3>2. << >> \o name = name /\ << >> \o << Sender >> \o << Content >> = << Sender >> \o << Content >>
      BY <1>3, CharAssumption
    <3>3. << Content >> \in Seq(Char) /\ Len(<< Content >>) = 1
      BY CharAssumption
    <3>4. Len(name \o << Content >>) = Len(name) + 1 /\ Len(name) \in Nat /\ MaxSize \in Nat
      BY <1>3, <3>3, JoinFacts, BoundsAssumption
    <3>5. \/ source = << Sender >> \o << Content >> /\ status = -1 /\ Len(name \o << Content >>) > MaxSize
          \/ source = name \o << Content >> /\ Len(name \o << Content >>) <= MaxSize
      BY <3>1, <3>2, Zenon DEF Placing, Around
    <3>6. PICK n \in Nat, m \in Nat : n = Len(name) /\ m = MaxSize /\ Len(name \o << Content >>) = n + 1
      BY <3>4
    <3>7. CASE n < m
      <4>1. ~(n + 1 > m)
        BY <3>7
      <4> QED
        BY <3>5, <3>6, <3>7, <4>1, Zenon DEF FromLine
    <3>8. CASE ~(n < m)
      <4>1. ~(n + 1 <= m)
        BY <3>8
      <4> QED
        BY <3>5, <3>6, <3>8, <4>1, Zenon DEF FromLine
    <3> QED
      BY <3>7, <3>8
  <2>6. Around(FromLine, Content, << >>) = source
    BY <1>3, <2>5, FromLineFacts DEF Around, TextsTyped
  <2>7. loop' /\ source' = source /\ position' = 0 /\ query' = << Content >> /\ replacement' = html /\ pairs' = 2
    BY <1>1, <1>7, <2>3 DEF F!Start
  <2>8. Placing(source', position', status', loop', FromLine, Content, html, << >>)
    BY <2>6, <2>7 DEF Placing
  <2>9. Filling(c)'
    <3>1. /\ query' = << Content >> /\ replacement' = html'
          /\ Placing(source, position, status, loop, FromLine, Content, html, << >>)'
      BY <1>1, <1>4, <2>7, <2>8
    <3>2. pc'[c] = "command" /\ pairs' \in 0 .. 2 /\ pairs' # 0 /\ pairs' # 1
      BY <1>1, <2>7
    <3> QED
      BY <3>1, <3>2, Zenon DEF Filling
  <2> QED
    BY <1>4, <1>5, <2>4, <2>9 DEF MailInv
<1> QED
  BY <1>1, <1>6, <1>7

LEMMA RoundOfMail ==
  ASSUME MailInv, NEW c \in Calls, Round(c) PROVE MailInv'
<1>1. /\ pc[c] \in {"fill", "command"} /\ F!Round /\ pc' = pc /\ name' = name /\ pairs' = pairs
      /\ html' = (IF pc[c] = "fill" THEN source' ELSE html) /\ curl' = curl
  BY DEF Round, vars
<1>2. TextInv /\ TextInv' /\ TextsTyped /\ Filling(c) /\ Given(c) /\ Calls = {c}
  BY <1>1, RoundStep, CallsAssumption DEF MailInv
<1>3. PcOK' /\ TextsTyped' /\ curl' \in [Calls -> {"none", "running", "ended"}] /\ Given(c)'
  BY <1>1, <1>2 DEF MailInv, PcOK, TextsTyped, TextInv, Given, Ways
<1>4. loop /\ query' = query /\ replacement' = replacement /\ FromLine' = FromLine
  BY <1>1 DEF F!Round, F!ReplaceNext, F!Finish, F!Throw, FromLine
<1>5. Filling(c)'
  <2>1. CASE pc[c] = "fill"
    BY <1>1, <2>1 DEF Filling, Ways
  <2>2. CASE pc[c] = "command"
    <3>1. html' = html /\ pc'[c] = "command" /\ pairs \in 0 .. 2 /\ pairs # 0
      BY <1>1, <1>2, <1>4, <2>2 DEF Filling
    <3>2. name \in Seq(Char) /\ html \in Seq(Char) /\ Sender \in Char /\ Content \in Char
      BY <1>2, CharAssumption DEF TextsTyped
    <3>3. ASSUME pairs = 1
          PROVE /\ query = << Sender >> /\ replacement = name
                /\ Placing(source', position', status', loop', << >>, Sender, name, << Content >>)
      <4>1. /\ query = << Sender >> /\ replacement = name
            /\ Placing(source, position, status, loop, << >>, Sender, name, << Content >>)
        BY <1>2, <2>2, <3>3 DEF Filling
      <4> QED
        BY <1>1, <1>2, <1>4, <3>2, <4>1, FromLineFacts, PlacingStep, Zenon
    <3>4. ASSUME pairs = 2, ~Contains(name, Content)
          PROVE /\ query = << Content >> /\ replacement = html
                /\ Placing(source', position', status', loop', FromLine, Content, html, << >>)
      <4>1. /\ query = << Content >> /\ replacement = html
            /\ Placing(source, position, status, loop, FromLine, Content, html, << >>)
        BY <1>2, <2>2, <3>4 DEF Filling
      <4> QED
        BY <1>1, <1>2, <1>4, <3>2, <3>4, <4>1, FromLineFacts, PlacingStep, Zenon
    <3> QED
      BY <1>1, <1>4, <3>1, <3>3, <3>4 DEF Filling
  <2> QED
    BY <1>1, <2>1, <2>2
<1> QED
  BY <1>2, <1>3, <1>5 DEF MailInv

(* The other steps leave the text alone.                                    *)
LEMMA OtherSteps ==
  ASSUME MailInv, NEW c \in Calls, Calls = {c},
         \/ Ask(c) \/ Missing(c) \/ Read(c) \/ Filled(c) \/ Ready(c) \/ After(c)
         \/ (Deliver(c) \/ Exit(c)) /\ UNCHANGED texts
  PROVE MailInv'
<1> USE DEF Goto, Set, text, texts, TextsTyped
<1>1. TextInv'
  <2>1. UNCHANGED text
    BY DEF Ask, Missing, Read, Filled, Ready, After, RunShell
  <2> QED
    BY <2>1, TextKept DEF MailInv
<1>2. PcOK'
  <2>1. MailNext
    BY DEF MailNext, Text
  <2> QED
    BY <2>1, PcStep DEF MailInv
<1>3. PcOK /\ TextsTyped /\ Filling(c) /\ Given(c) /\ curl \in [Calls -> {"none", "running", "ended"}]
  BY DEF MailInv
<1>4. TextsTyped'
  <2>1. CASE Read(c)
    BY <1>3, <2>1, StringsAreSeqs DEF Read
  <2>2. CASE Filled(c)
    BY <1>3, <2>2 DEF Filled
  <2>3. CASE ~Read(c) /\ ~Filled(c)
    BY <1>3, <2>3 DEF Ask, Missing, Ready, After, RunShell
  <2> QED
    BY <2>1, <2>2, <2>3
<1>5. Filling(c)'
  <2> USE DEF PcOK, Filling, Ways, Steps, Places, FromLine
  <2>1. CASE Ask(c)
    BY <1>3, <2>1 DEF Ask, Call
  <2>2. CASE Missing(c)
    BY <1>3, <2>2 DEF Missing
  <2>3. CASE Read(c)
    BY <1>3, <2>3 DEF Read
  <2>4. CASE Filled(c)
    BY <1>3, <2>4 DEF Filled
  <2>5. CASE Ready(c)
    BY <1>3, <2>5, PairsAre DEF Ready
  <2>6. CASE After(c)
    BY <1>3, <2>6 DEF After, RunShell, Run, Finish
  <2>7. CASE (Deliver(c) \/ Exit(c)) /\ UNCHANGED texts
    BY <1>3, <2>7 DEF Deliver, Exit
  <2> QED
    BY <2>1, <2>2, <2>3, <2>4, <2>5, <2>6, <2>7
<1>6. Given(c)' /\ curl' \in [Calls -> {"none", "running", "ended"}]
  <2> USE DEF PcOK, Given, Ways, Steps, Places
  <2>1. CASE Ask(c)
    BY <1>3, <2>1 DEF Ask, Call
  <2>2. CASE Missing(c)
    BY <1>3, <2>2 DEF Missing, OpenTemplate
  <2>3. CASE Read(c)
    BY <1>3, <2>3 DEF Read
  <2>4. CASE Filled(c)
    BY <1>3, <2>4 DEF Filled
  <2>5. CASE Ready(c)
    BY <1>3, <2>5 DEF Ready
  <2>6. CASE RunShell(c)
    BY <1>3, <2>6 DEF RunShell, Run
  <2>7. CASE Finish(c) /\ UNCHANGED texts
    BY <1>3, <2>7 DEF Finish, Waited
  <2>8. CASE (Deliver(c) \/ Exit(c)) /\ UNCHANGED texts
    BY <1>3, <2>8 DEF Deliver, Exit
  <2> QED
    BY <2>1, <2>2, <2>3, <2>4, <2>5, <2>6, <2>7, <2>8 DEF After
<1> QED
  BY <1>1, <1>2, <1>4, <1>5, <1>6 DEF MailInv

LEMMA MailStep == MailInv /\ [MailNext]_<< vars, texts >> => MailInv'
<1> SUFFICES ASSUME MailInv, [MailNext]_<< vars, texts >> PROVE MailInv'
  OBVIOUS
<1>1. ASSUME NEW c \in Calls, FillPair(c) PROVE MailInv'
  BY <1>1, FillPairStep
<1>2. ASSUME NEW c \in Calls, FillCommand(c) PROVE MailInv'
  BY <1>2, FillCommandStep
<1>3. ASSUME NEW c \in Calls, Round(c) PROVE MailInv'
  BY <1>3, RoundOfMail
<1>4. ASSUME NEW c \in Calls,
             \/ Ask(c) \/ Missing(c) \/ Read(c) \/ Filled(c) \/ Ready(c) \/ After(c)
             \/ (Deliver(c) \/ Exit(c)) /\ UNCHANGED texts
      PROVE MailInv'
  <2>1. Calls = {c}
    BY CallsAssumption
  <2> QED
    BY <1>4, <2>1, OtherSteps
<1>5. CASE UNCHANGED << vars, texts >>
  BY <1>5 DEF vars, texts, text, MailInv, PcOK, TextInv, TextsTyped, Filling, Given, FromLine
<1> QED
  BY <1>1, <1>2, <1>3, <1>4, <1>5, Zenon DEF MailNext, Text

LEMMA InvMailIsFilled == MailInv => MailIsFilled
<1> SUFFICES ASSUME MailInv, NEW c \in Calls, curl[c] = "running", ~Contains(name, Content)
             PROVE given = Shell(FromLine \o Body)
  BY DEF MailIsFilled
<1>1. pc[c] \in Ways /\ given = Shell(source) /\ Filling(c) /\ TextsTyped
  BY DEF MailInv, Given
<1>2. ~loop /\ Placing(source, position, status, loop, FromLine, Content, html, << >>)
  BY <1>1 DEF Filling, Ways
<1>3. FromLine \in Seq(Char) /\ html \in Seq(Char) /\ << Content >> \in Seq(Char) /\ MaxSize \in Nat
  BY <1>1, FromLineFacts, BoundsAssumption DEF TextsTyped
<1>4. /\ FromLine \o html \o << >> = FromLine \o html
      /\ Len(FromLine \o html) = Len(FromLine) + Len(html)
      /\ Len(FromLine) + Len(html) \in Nat
  BY <1>3, JoinFacts
<1>5. Around(FromLine, Content, << >>) = FromLine \o << Content >>
  BY <1>3 DEF Around
<1>6. \/ source = FromLine \o << Content >> /\ Len(FromLine \o html) > MaxSize
      \/ source = FromLine \o html /\ Len(FromLine \o html) <= MaxSize
  BY <1>2, <1>4, <1>5, Zenon DEF Placing
<1>7. PICK n \in Nat, m \in Nat : n = Len(FromLine \o html) /\ m = MaxSize /\ Len(FromLine) + Len(html) = n
  BY <1>3, <1>4
<1>8. n > m <=> ~(n <= m)
  OBVIOUS
<1>9. source = FromLine \o Body
  BY <1>6, <1>7, <1>8, Zenon DEF Body
<1> QED
  BY <1>1, <1>9, Zenon

(* Whatever the texts and bounds: and_replace_all replaces the leftmost      *)
(* occurrences of what it is given, once each, as far as it has come.       *)
THEOREM RoundsReplace == MailSpec => []ReplacesEachOnce
<1>1. MailInv => ReplacesEachOnce
  BY InvRoundsRight DEF MailInv
<1> QED
  BY InitMail, MailStep, <1>1, PTL DEF MailSpec

(* curl reads what the shell makes of the name and the filled template, or  *)
(* of the placeholder of what did not fit, unless the name looks like the   *)
(* content's placeholder.                                                   *)
THEOREM CommandIsFilled == MailSpec => []MailIsFilled
<1> QED
  BY InitMail, MailStep, InvMailIsFilled, PTL DEF MailSpec

-----------------------------------------------------------------------------
(* The call by sparkpost.                                                   *)
SparkPlaces == {"idle", "open", "send", "sent", "returned"}
Requests == {"none", "queued", "sent"} \cup Results
SparkTyped ==
  /\ pc \in [Calls -> SparkPlaces] /\ request \in [Calls -> Requests]
  /\ future \in [Calls -> {NoFuture, Unset, Broken, 1, -1, -2}]
  /\ callback \in [Calls -> {"none", "running", "done"}]
  /\ mails \in [Calls -> {0, 1}]

(* An outcome is final, and a value comes with it: nothing is requested     *)
(* before the template was read, the callback runs after the outcome is     *)
(* known, a good outcome is one of a mail that the server took.             *)
SparkKnown(c) ==
  /\ request[c] \in {"sent", "ok"} => mails[c] = 1
  /\ request[c] = "none" => callback[c] = "none"
  /\ pc[c] \in {"idle", "open", "send"} => request[c] = "none" /\ future[c] \in {NoFuture, Unset}
  /\ callback[c] # "none" => request[c] \in Results
  /\ future[c] = 1 => request[c] = "ok"
  /\ future[c] = -1 => request[c] = "none" /\ pc[c] = "returned"
  /\ future[c] = -2 => request[c] \in {"rejected", "failed"}
SparkInv == SparkTyped /\ \A c \in Calls : SparkKnown(c)

-----------------------------------------------------------------------------
LEMMA SparkInit == SparkpostInit => SparkInv
BY DEF SparkpostInit, SparkInv, SparkTyped, SparkKnown, SparkPlaces, Requests, NoFuture, Unset

LEMMA SparkStep == SparkInv /\ [SparkpostNext]_svars => SparkInv'
<1> SUFFICES ASSUME SparkInv, [SparkpostNext]_svars PROVE SparkInv'
  OBVIOUS
<1> USE DEF SparkInv, SparkTyped, SparkKnown, SparkPlaces, Requests
<1> USE DEF Results, Goto, Set, NoFuture, Unset, Broken
<1>1. ASSUME NEW c \in Calls, CallSparkpost(c) PROVE SparkInv'
  BY <1>1 DEF CallSparkpost
<1>2. ASSUME NEW c \in Calls, OpenSparkpostTemplate(c) PROVE SparkInv'
  BY <1>2 DEF OpenSparkpostTemplate
<1>3. ASSUME NEW c \in Calls, Send(c) PROVE SparkInv'
  BY <1>3 DEF Send
<1>4. ASSUME NEW c \in Calls, Return(c) PROVE SparkInv'
  BY <1>4 DEF Return, Frame
<1>5. ASSUME NEW c \in Calls, Transmit(c) PROVE SparkInv'
  BY <1>5 DEF Transmit
<1>6. ASSUME NEW c \in Calls, Reply(c) PROVE SparkInv'
  BY <1>6 DEF Reply
<1>7. ASSUME NEW c \in Calls, Begin(c) PROVE SparkInv'
  BY <1>7 DEF Begin
<1>8. ASSUME NEW c \in Calls, Callback(c) PROVE SparkInv'
  BY <1>8 DEF Callback, SparkpostResponse
<1>9. CASE UNCHANGED svars
  BY <1>9 DEF svars
<1> QED
  BY <1>1, <1>2, <1>3, <1>4, <1>5, <1>6, <1>7, <1>8, <1>9 DEF SparkpostNext, SparkpostThread, Loop

(* Whatever the caller's thread, the event loop and the server do in which  *)
(* order, a value in the future is true of the mail.                        *)
THEOREM ValuesAreTrue == SparkpostSpec => []AnswerTrue
<1>1. SparkInv => AnswerTrue
  BY DEF SparkInv, SparkKnown, AnswerTrue
<1> QED
  BY SparkInit, SparkStep, <1>1, PTL DEF SparkpostSpec
=============================================================================
