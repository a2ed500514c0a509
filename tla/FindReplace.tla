------------------------------ MODULE FindReplace ------------------------------
(***************************************************************************)
(* utility_functions::find::and_replace_all, one round of its loop per      *)
(* step, for the modules whose functions call it.  A string is a sequence   *)
(* of characters; positions count from 0 as in the code.                    *)
(***************************************************************************)
EXTENDS Integers, Sequences, FiniteSetsExt

CONSTANTS
  Char,
  MaxSize    \* bound: the length at which std::string::replace throws

VARIABLES
  source, query, replacement, position, status,
  loop,     \* and_replace_all is in its loop
  input     \* history: source as it was given
text == << source, query, replacement, position, status, loop, input >>

NPos == -1
(* source.find(query, from): an empty query is found wherever it is sought. *)
Find(s, q, from) ==
  LET hits == {p \in from .. Len(s) - Len(q) : SubSeq(s, p + 1, p + Len(q)) = q}
  IN IF hits = {} THEN NPos ELSE Min(hits)
Replace(s, p, n, r) == SubSeq(s, 1, p) \o r \o SubSeq(s, p + n + 1, Len(s))

Quiet ==
  /\ source = << >> /\ query = << >> /\ replacement = << >> /\ input = << >>
  /\ position = 0 /\ status = 0 /\ loop = FALSE

Start(s, q, r) ==
  /\ ~loop /\ loop' = TRUE
  /\ source' = s /\ input' = s /\ query' = q /\ replacement' = r
  /\ position' = 0 /\ status' = 0

(* The search goes on behind the replacement.                               *)
Behind_Rescans(p) == p
Behind(p) == p + Len(replacement)
ReplaceNext ==
  LET p == Find(source, query, position)
      new == Replace(source, p, Len(query), replacement)
  IN /\ loop /\ p # NPos /\ Len(new) <= MaxSize
     /\ source' = new /\ position' = Behind(p)
     /\ UNCHANGED << query, replacement, status, loop, input >>
Finish ==
  /\ loop /\ Find(source, query, position) = NPos
  /\ loop' = FALSE /\ status' = 1
  /\ UNCHANGED << source, query, replacement, position, input >>
(* length_error or bad_alloc leaves source as the last round left it.       *)
Throw ==
  LET p == Find(source, query, position) IN
  /\ loop /\ p # NPos
  /\ Len(Replace(source, p, Len(query), replacement)) > MaxSize
  /\ loop' = FALSE /\ status' = -1
  /\ UNCHANGED << source, query, replacement, position, input >>
Round == ReplaceNext \/ Finish \/ Throw

-----------------------------------------------------------------------------
(* The leftmost occurrences of q in s that do not overlap, replaced: what   *)
(* is finished behind the last that ends at n or before, and where it ends. *)
Unread == [out |-> << >>, end |-> 0]
Ends(s, q, n) == SubSeq(s, n - Len(q) + 1, n) = q
Take(s, q, r, a, n) ==
  IF a.end + Len(q) <= n /\ Ends(s, q, n)
  THEN [out |-> a.out \o SubSeq(s, a.end + 1, n - Len(q)) \o r, end |-> n] ELSE a
Scan(s, q, r) ==
  LET scan[n \in 0 .. Len(s)] == IF n = 0 THEN Unread ELSE Take(s, q, r, scan[n - 1], n) IN scan
Replaced(s, q, r) ==
  LET a == Scan(s, q, r)[Len(s)] IN a.out \o SubSeq(s, a.end + 1, Len(s))

(* Before position the source is finished, behind it untouched.             *)
RoundsRight ==
  query # << >> =>
    LET rest == SubSeq(source, position + 1, Len(source))
        done == SubSeq(input, 1, Len(input) - Len(rest))
    IN /\ input = done \o rest
       /\ SubSeq(source, 1, position) = Replaced(done, query, replacement)
       /\ status = 1 => source = Replaced(input, query, replacement)
=============================================================================
