----------------------------- MODULE TemplatedMail -----------------------------
(***************************************************************************)
(* smtps_send_mail_by_template_future as CurlMail has it, with the texts:   *)
(* the caller's pairs are filled into the template, then the caller's name  *)
(* and the filled template into the curl command, each by the rounds of     *)
(* and_replace_all, whose status nobody looks at.  The command is a line of *)
(* the shell: the mail stands in an unquoted here-document (26), in which   *)
(* the shell expands what is special to it before curl reads it.            *)
(*                                                                         *)
(* A placeholder is one character, and so is what the shell expands: a name *)
(* behind a dollar, a command between backticks, a backslash with what it   *)
(* quotes.  The command is the two placeholders of the mail that matter: a  *)
(* value like the name (56), and the content (59).  A line that is only EOF *)
(* would end the mail; the texts have none.                                 *)
(***************************************************************************)
EXTENDS CurlMail, SequencesExt

CONSTANTS
  Char,
  Sender, Content,    \* the placeholders of the command, characters
  Special,            \* the characters that the shell expands
  Expansion,          \* what it makes of them
  MaxTemplate, MaxQuery, MaxReplacement,  \* bounds: lengths of what callers give
  MaxPairs,           \* bound: pairs a caller gives
  MaxSize             \* bound: the length at which std::string::replace throws

Strings(n) == UNION {[1 .. k -> Char] : k \in 0 .. n}

(* Calls share nothing: one of them is looked at.                           *)
ASSUME CallsAssumption == \E c \in Calls : Calls = {c}
ASSUME CharAssumption == {Sender, Content} \subseteq Char /\ Sender # Content
ASSUME SpecialAssumption == Special \subseteq Char /\ Expansion \in [Special -> Seq(Char)]
ASSUME BoundsAssumption ==
  /\ MaxTemplate \in Nat /\ MaxQuery \in Nat /\ MaxReplacement \in Nat /\ MaxPairs \in Nat
  /\ MaxSize \in Nat /\ MaxTemplate <= MaxSize

VARIABLES
  source, query, replacement, position, status, loop, input,  \* of and_replace_all
  pairs,      \* how many pairs are filled in, of the template or of the command
  html,       \* RECIPIENT_CONTENT_HTML
  name,       \* the value of the Sender placeholder
  given       \* the mail that curl reads from the here-document
text == << source, query, replacement, position, status, loop, input >>
texts == << text, pairs, html, name, given >>

F == INSTANCE FindReplace

Command == << Sender, Content >>
(* What is filled into the command, in this order.                          *)
CommandPairs_ContentFirst == << << Content, html >>, << Sender, name >> >>
CommandPairs == << << Sender, name >>, << Content, html >> >>

TextInit ==
  /\ F!Quiet /\ pairs = 0 /\ html = << >> /\ name = << >> /\ given = << >>

Ask(c) == Call(c) /\ UNCHANGED texts
Missing_GoesOn(c) ==
  /\ Goto(c, "open", "fill") /\ Set(c, -1)
  /\ UNCHANGED << curl, code, mails, texts >>
Missing(c) == OpenTemplate(c) /\ pc'[c] = "returned" /\ UNCHANGED texts
Read(c) ==
  /\ Goto(c, "open", "fill")
  /\ html' \in Strings(MaxTemplate) /\ name' \in Strings(MaxReplacement)
  /\ UNCHANGED << future, curl, code, mails, text, pairs, given >>

(* One call of and_replace_all after the other.                             *)
FillPair(c) ==
  /\ pc[c] = "fill" /\ pairs < MaxPairs /\ pairs' = pairs + 1
  /\ \E q \in Strings(MaxQuery), r \in Strings(MaxReplacement) : F!Start(html, q, r)
  /\ UNCHANGED << vars, html, name, given >>
FillCommand(c) ==
  /\ pc[c] = "command" /\ pairs < Len(CommandPairs) /\ pairs' = pairs + 1
  /\ LET pair == CommandPairs[pairs + 1]
     IN F!Start(IF pairs = 0 THEN Command ELSE source, << pair[1] >>, pair[2])
  /\ UNCHANGED << vars, html, name, given >>
Round(c) ==
  /\ pc[c] \in {"fill", "command"} /\ F!Round
  /\ html' = IF pc[c] = "fill" THEN source' ELSE html
  /\ UNCHANGED << vars, pairs, name, given >>

Filled(c) ==
  /\ Goto(c, "fill", "command") /\ ~loop /\ pairs' = 0
  /\ UNCHANGED << future, curl, code, mails, text, html, name, given >>
Ready(c) ==
  /\ Goto(c, "command", "run") /\ ~loop /\ pairs = Len(CommandPairs)
  /\ UNCHANGED << future, curl, code, mails, texts >>

(* The shell that runs curl.                                                *)
Shell(s) ==
  FlattenSeq([i \in DOMAIN s |-> IF s[i] \in Special THEN Expansion[s[i]] ELSE << s[i] >>])
RunShell(c) ==
  /\ Run(c) /\ given' = IF curl'[c] = "running" THEN Shell(source) ELSE given
  /\ UNCHANGED << text, pairs, html, name >>
After(c) == RunShell(c) \/ (Finish(c) /\ UNCHANGED texts)
Text(c) == FillPair(c) \/ FillCommand(c) \/ Round(c) \/ Filled(c) \/ Ready(c)
MailNext ==
  \E c \in Calls :
    \/ Ask(c) \/ Missing(c) \/ Read(c) \/ Text(c) \/ After(c)
    \/ (Deliver(c) \/ Exit(c)) /\ UNCHANGED texts
MailInit == Init /\ TextInit
MailSpec == MailInit /\ [][MailNext]_<< vars, texts >>
(* The calling thread runs on, and the curl process ends.                   *)
FairMailSpec ==
  /\ MailSpec
  /\ \A c \in Calls : /\ WF_<< vars, texts >>(Missing(c) \/ Read(c) \/ Text(c) \/ After(c))
                     /\ WF_<< vars, texts >>(Exit(c) /\ UNCHANGED texts)

-----------------------------------------------------------------------------
(* and_replace_all that returned 1 has replaced the leftmost occurrences of *)
(* the source it was given and nothing in what it put in; and after every   *)
(* round, also the last before it throws, what stands before position is    *)
(* finished and what stands behind it is untouched input (241-254).         *)
ReplacesEachOnce == F!RoundsRight

(* What curl reads is what the shell makes of the name and the filled       *)
(* template behind it, even if the template holds what looks like a         *)
(* placeholder of the command; of a value that did not fit, the placeholder *)
(* stands there, and nobody notices (44-59).  A name that looks like the    *)
(* placeholder of the content is all that makes it something else.          *)
FromLine == IF Len(name) < MaxSize THEN name ELSE << Sender >>
Body == IF Len(FromLine) + Len(html) <= MaxSize THEN html ELSE << Content >>
MailIsFilled ==
  \A c \in Calls : curl[c] = "running" /\ ~Contains(name, Content) => given = Shell(FromLine \o Body)

(* The call with its texts is a call as CurlMail has it, whose template is  *)
(* opened and filled in one step (35-59).                                   *)
Atomic ==
  INSTANCE CurlMail WITH pc <- [c \in Calls |-> IF pc[c] \in {"fill", "command"} THEN "open" ELSE pc[c]]
ImplementsCurlMail == Atomic!Spec

(* A call comes back with an answer once its curl process ends, whatever it *)
(* fills in, if nothing that it looks for is empty (44-88).                 *)
MailAnswered == [](loop => query # << >>) => CallAnswered
=============================================================================
