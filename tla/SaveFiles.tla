------------------------------ MODULE SaveFiles ------------------------------
(***************************************************************************)
(* The functions of utility_functions that keep a value in a file: the      *)
(* save_to_ and from_ functions of jsoncpp and jsontao, file_to_buffer and  *)
(* file_from_buffer.  Threads call them on the same files; what one of them *)
(* writes reaches the file in pieces of any size, from the place it has     *)
(* come to; what one of them reads comes out of it in pieces of any size,   *)
(* until a read finds nothing more or fails; and the process may end at any *)
(* moment.                                                                  *)
(*                                                                         *)
(* A file is a text as Csv has them.  A path is its own extension.          *)
(***************************************************************************)
EXTENDS Csv, Descriptors

CONSTANTS
  Thread,
  Menu,       \* the calls that are made: records of CallType
  Tables,     \* [Doc -> a table]: what there is to save
  CsvTables,  \* tables that CsvHoldsPlain looks at
  Direct,     \* characters from which on ofstream::write goes past its buffer
  MaxFaults   \* bound: writes and reads that fail

Path == {"csv", "json"}
Doc  == DOMAIN Tables
CallType == [lib : {"jsoncpp", "jsontao", "file"}, op : {"save", "load"},
             ext : {"csv", "json", "raw"}, path : Path, doc : Doc, chunk : Nat]

ASSUME MenuAssumption == \A c \in Menu : c \in CallType /\ (c.lib = "file" <=> c.ext = "raw")
ASSUME FilesAssumption == Direct \in Nat /\ MaxFaults \in Nat

VARIABLES
  files,    \* [Path -> the text in the file]
  exists,   \* the files there are
  pc, call, status,
  pending,  \* what the stream of a save still holds
  offset,   \* where its file position is
  failed,   \* a write or a read of the stream failed, the rest of the value is lost
  loaded,   \* what a load returned: "null", "threw" or "text"; and the text it has read
  buffer,   \* buffer_data, which the caller keeps between calls
  before,   \* history: buffer_data at the call
  alone,    \* history: no save had the file open during the call but its own
  opened,   \* history: the save that opened the file last, if no other was in it, or NoCall
  saved,    \* history: the call that made the file what it is, or NoCall
  source,   \* history: the save whose text a load reads, all of it or what is there, or NoCall
  faults

fvars == << files, exists, pc, call, status, pending, offset, failed, loaded, buffer,
            before, alone, opened, saved, source, faults >>

NoCall == [lib |-> "none"]
Nothing == [kind |-> "none", text |-> << >>]
-----------------------------------------------------------------------------
(* The text of a value: its CSV, or one JSON value between its brackets.    *)
JsonText(d) == << "{" >> \o [k \in DOMAIN Tables[d] |-> d] \o << "}" >>
CsvTexts == [d \in {e \in Doc : Tables[e] # << >> /\ Tables[e][1].object} |-> to_csv(Tables[d])]
TextOf(c) == IF c.ext = "csv" THEN CsvTexts[c.doc] ELSE JsonText(c.doc)
IsJson(text) == \E d \in Doc : text = JsonText(d)
(* jsoncpp does not mind what follows the value, jsontao does.              *)
Parses(c, text) ==
  IF c.lib = "jsoncpp" THEN \E n \in DOMAIN text : IsJson(SubSeq(text, 1, n)) ELSE IsJson(text)

(* find::input_ends_with, and what its callers make of its answer.          *)
EndsWith(c) == IF c.path = c.ext THEN 1 ELSE -2
Refused(c) ==
  CASE c.lib = "file"                                          -> FALSE
    [] c.lib = "jsontao"                                       -> EndsWith(c) = 0
    [] c.lib = "jsoncpp" /\ c.op = "load" /\ c.ext = "json"    -> EndsWith(c) # 1
    [] OTHER                                                   -> EndsWith(c) # 0

(* s written over the file from position at on; a gap reads as zeros.       *)
Overlay(file, at, s) ==
  [i \in 1 .. Max({Len(file), at + Len(s)}) |->
     IF i > at /\ i <= at + Len(s) THEN s[i - at] ELSE IF i <= Len(file) THEN file[i] ELSE "0"]

Writers(p) == {t \in Thread : pc[t] = "write" /\ call[t].path = p}

(* What save_to_csv makes of a value: no array or an empty one, an array    *)
(* that begins with no object.                                              *)
Rejected(c) ==
  IF c.ext # "csv" THEN 0
  ELSE IF Tables[c.doc] = << >> THEN -3 ELSE IF ~Tables[c.doc][1].object THEN -4 ELSE 0

(* What is saved is a text.                                                 *)
ASSUME TextsAssumption ==
  \A c \in Menu : c.op = "save" /\ Rejected(c) = 0 => TextOf(c) \in Seq(STRING)

(* What there is to save is a table, and what it is called is no bracket.    *)
ASSUME DocsAssumption == \A d \in Doc : d \in STRING /\ d # "}" /\ IsTable(Tables[d])
ASSUME CsvTablesAssumption ==
  \A table \in CsvTables : IsTable(table) /\ table # << >> /\ table[1].object

(* There may be a file that an earlier process has saved.                   *)
FilesInit ==
  /\ \/ files = [p \in Path |-> << >>] /\ exists = {} /\ saved = [p \in Path |-> NoCall]
     \/ \E c \in Menu : /\ c.op = "save" /\ ~Refused(c) /\ Rejected(c) = 0
                        /\ files = [p \in Path |-> IF p = c.path THEN TextOf(c) ELSE << >>]
                        /\ exists = {c.path} /\ saved = [p \in Path |-> IF p = c.path THEN c ELSE NoCall]
  /\ opened = saved
  /\ pc = [t \in Thread |-> "idle"] /\ call = [t \in Thread |-> NoCall]
  /\ status = [t \in Thread |-> 0] /\ pending = [t \in Thread |-> << >>]
  /\ offset = [t \in Thread |-> 0] /\ failed = [t \in Thread |-> FALSE]
  /\ loaded = [t \in Thread |-> Nothing] /\ source = [t \in Thread |-> NoCall]
  /\ buffer = [t \in Thread |-> << "0" >>] /\ before = [t \in Thread |-> << >>]
  /\ alone = [t \in Thread |-> TRUE] /\ faults = 0

-----------------------------------------------------------------------------
Call(t, c) ==
  /\ pc[t] = "idle" /\ MayCall
  /\ call' = [call EXCEPT ![t] = c] /\ before' = [before EXCEPT ![t] = buffer[t]]
  /\ alone' = [alone EXCEPT ![t] = TRUE]
  /\ loaded' = [loaded EXCEPT ![t] =
                  IF Refused(c) /\ c.op = "load" THEN [Nothing EXCEPT !.kind = "null"] ELSE Nothing]
  /\ status' = [status EXCEPT ![t] = IF Refused(c) /\ c.op = "save" THEN -1 ELSE 0]
  /\ pc' = [pc EXCEPT ![t] = IF Refused(c) THEN "idle" ELSE "open"]
  /\ source' = [source EXCEPT ![t] = NoCall]
  /\ UNCHANGED << files, exists, pending, offset, failed, buffer, opened, saved, faults, used, leaked >>

(* The open of a save empties the file, the value is looked at after that.  *)
Truncated_Not(file) == file
Truncated(file) == << >>

CantOpenToSave(t) ==
  /\ pc[t] = "open" /\ call[t].op = "save" /\ Exhausted
  /\ pc' = [pc EXCEPT ![t] = "idle"]
  /\ status' = [status EXCEPT ![t] = IF call[t].lib = "file" THEN -1 ELSE -2]
  /\ UNCHANGED << files, exists, call, pending, offset, failed, loaded, buffer, before, alone,
                  opened, saved, source, faults, used, leaked, calls >>
OpenToSave(t) ==
  LET c == call[t]
      p == c.path
  IN
  /\ pc[t] = "open" /\ c.op = "save" /\ ~Exhausted
  /\ exists' = exists \cup {p} /\ saved' = [saved EXCEPT ![p] = NoCall]
  /\ files' = [files EXCEPT ![p] = Truncated(@)]
  /\ opened' = [opened EXCEPT ![p] = IF Writers(p) = {} THEN c ELSE NoCall]
  /\ alone' = [u \in Thread |-> IF u = t THEN Writers(p) = {}
                                ELSE alone[u] /\ ~(pc[u] \in {"write", "read"} /\ call[u].path = p)]
  /\ source' = [u \in Thread |-> IF pc[u] = "read" /\ call[u].path = p THEN NoCall ELSE source[u]]
  /\ \/ /\ Rejected(c) # 0 /\ status' = [status EXCEPT ![t] = Rejected(c)]
        /\ pc' = [pc EXCEPT ![t] = "idle"] /\ UNCHANGED << used, pending, offset, failed >>
     \/ /\ Rejected(c) = 0 /\ pc' = [pc EXCEPT ![t] = "write"] /\ TakeFd
        /\ pending' = [pending EXCEPT ![t] = TextOf(c)] /\ offset' = [offset EXCEPT ![t] = 0]
        /\ failed' = [failed EXCEPT ![t] = FALSE] /\ UNCHANGED status
  /\ UNCHANGED << call, loaded, buffer, before, faults, leaked, calls >>

(* The stream passes on what it likes when it likes, and all of it in the   *)
(* end.                                                                     *)
Flush(t) ==
  /\ pc[t] = "write"
  /\ \E n \in DOMAIN pending[t] :
       /\ files' = [files EXCEPT ![call[t].path] = Overlay(@, offset[t], SubSeq(pending[t], 1, n))]
       /\ pending' = [pending EXCEPT ![t] = SubSeq(@, n + 1, Len(@))]
       /\ offset' = [offset EXCEPT ![t] = @ + n]
  /\ UNCHANGED << exists, pc, call, status, failed, loaded, buffer, before, alone, opened, saved,
                  source, faults, used, leaked, calls >>
DiskFull(t) ==
  /\ pc[t] = "write" /\ pending[t] # << >> /\ faults < MaxFaults /\ faults' = faults + 1
  /\ failed' = [failed EXCEPT ![t] = TRUE] /\ pending' = [pending EXCEPT ![t] = << >>]
  /\ UNCHANGED << files, exists, pc, call, status, offset, loaded, buffer, before, alone, opened,
                  saved, source, used, leaked, calls >>
(* Only file_from_buffer looks at its write, and sees it fail only if the   *)
(* data did not fit in the stream.                                          *)
Seen(t) == failed[t] /\ call[t].lib = "file" /\ Len(TextOf(call[t])) >= Direct
Done_Early(t) == pc[t] = "write" /\ (pending[t] = << >> \/ offset[t] > 0)
Done(t) == pc[t] = "write" /\ pending[t] = << >>
Close(t) ==
  /\ Done(t) /\ pc' = [pc EXCEPT ![t] = "idle"] /\ DropFd
  /\ pending' = [pending EXCEPT ![t] = << >>]
  /\ status' = [status EXCEPT ![t] = IF Seen(t) THEN -2 ELSE 1]
  /\ saved' = [saved EXCEPT ![call[t].path] = IF alone[t] /\ ~failed[t] THEN call[t] ELSE NoCall]
  /\ UNCHANGED << files, exists, call, offset, failed, loaded, buffer, before, alone, opened,
                  source, faults, leaked, calls >>

-----------------------------------------------------------------------------
CantOpenToLoad(t) ==
  /\ pc[t] = "open" /\ call[t].op = "load" /\ (Exhausted \/ call[t].path \notin exists)
  /\ pc' = [pc EXCEPT ![t] = "idle"]
  /\ IF call[t].lib = "file"
     THEN status' = [status EXCEPT ![t] = -1] /\ buffer' = [buffer EXCEPT ![t] = << >>] /\ UNCHANGED loaded
     ELSE loaded' = [loaded EXCEPT ![t].kind = "null"] /\ UNCHANGED << status, buffer >>
  /\ UNCHANGED << files, exists, call, pending, offset, failed, before, alone, opened, saved,
                  source, faults, used, leaked, calls >>
OpenToLoad(t) ==
  LET p == call[t].path IN
  /\ pc[t] = "open" /\ call[t].op = "load" /\ p \in exists /\ TakeFd
  /\ pc' = [pc EXCEPT ![t] = "read"] /\ offset' = [offset EXCEPT ![t] = 0]
  /\ failed' = [failed EXCEPT ![t] = FALSE]
  /\ alone' = [alone EXCEPT ![t] = Writers(p) = {}]
  /\ source' = [source EXCEPT ![t] = IF Writers(p) = {} THEN saved[p] ELSE opened[p]]
  /\ UNCHANGED << files, exists, call, status, pending, loaded, buffer, before, opened, saved,
                  faults, leaked, calls >>

(* The stream reads when it likes and as much as there is, but not for a    *)
(* chunk without room.                                                      *)
Rest(t) == Max({Len(files[call[t].path]) - offset[t], 0})
Reads(t) == pc[t] = "read" /\ (call[t].lib = "file" => call[t].chunk > 0)
Read(t) ==
  /\ Reads(t)
  /\ \E n \in 1 .. Rest(t) :
       /\ loaded' = [loaded EXCEPT ![t].text = @ \o SubSeq(files[call[t].path], offset[t] + 1, offset[t] + n)]
       /\ offset' = [offset EXCEPT ![t] = @ + n]
  /\ UNCHANGED << files, exists, pc, call, status, pending, failed, buffer, before, alone, opened,
                  saved, source, faults, used, leaked, calls >>

(* What is left of the text when the last read of it failed: file_to_buffer *)
(* loses the chunk and getline the line it was in.                          *)
Kept(c, text) ==
  CASE c.lib = "file" -> SubSeq(text, 1, Max({n \in 0 .. Len(text) : n % c.chunk = 0}))
    [] c.ext = "csv"  -> SubSeq(text, 1, Max({0} \cup Ends(text, NewLine)))
    [] OTHER          -> text
(* What a parser makes of it: that of jsontao throws when a read fails.     *)
Kind(c, text, broken) ==
  IF c.ext = "csv" \/ (Parses(c, text) /\ ~(c.lib = "jsontao" /\ broken)) THEN "text"
  ELSE IF c.lib = "jsoncpp" THEN "threw" ELSE "null"
Return(t, broken) ==
  LET c    == call[t]
      text == IF broken THEN Kept(c, loaded[t].text) ELSE loaded[t].text
  IN
  /\ pc' = [pc EXCEPT ![t] = "idle"] /\ DropFd /\ failed' = [failed EXCEPT ![t] = broken]
  /\ IF c.lib = "file"
     THEN /\ buffer' = [buffer EXCEPT ![t] = @ \o text] /\ status' = [status EXCEPT ![t] = 1]
          /\ loaded' = [loaded EXCEPT ![t] = Nothing]
     ELSE /\ loaded' = [loaded EXCEPT ![t] = [kind |-> Kind(c, text, broken), text |-> text]]
          /\ UNCHANGED << buffer, status >>
  /\ UNCHANGED << files, exists, call, pending, offset, before, alone, opened, saved, source,
                  leaked, calls >>
(* The end of a file is a read that finds nothing.                          *)
AtEnd_AfterOne(t) == offset[t] > 0 \/ Rest(t) = 0
AtEnd(t) == Rest(t) = 0
EndOfFile(t) == Reads(t) /\ AtEnd(t) /\ Return(t, FALSE) /\ UNCHANGED faults
ReadError(t) == Reads(t) /\ faults < MaxFaults /\ faults' = faults + 1 /\ Return(t, TRUE)

FilesStep(t) == \/ CantOpenToSave(t) \/ OpenToSave(t) \/ Flush(t) \/ Close(t)
                \/ CantOpenToLoad(t) \/ OpenToLoad(t) \/ Read(t) \/ EndOfFile(t)
FilesNext == \E t \in Thread : FilesStep(t) \/ DiskFull(t) \/ ReadError(t) \/ \E c \in Menu : Call(t, c)

(* The process ends: its threads and what their streams held are gone, the  *)
(* files are what they are.                                                 *)
FilesCrash ==
  /\ pc' = [t \in Thread |-> "idle"] /\ call' = [t \in Thread |-> NoCall]
  /\ status' = [t \in Thread |-> 0] /\ pending' = [t \in Thread |-> << >>]
  /\ loaded' = [t \in Thread |-> Nothing] /\ source' = [t \in Thread |-> NoCall]
  /\ buffer' = [t \in Thread |-> << >>] /\ before' = [t \in Thread |-> << >>]
  /\ offset' = [t \in Thread |-> 0] /\ failed' = [t \in Thread |-> FALSE]
  /\ alone' = [t \in Thread |-> TRUE]
  /\ UNCHANGED << files, exists, opened, saved, faults >>

-----------------------------------------------------------------------------
(* A CSV file holds a table, and only such a table as Plain describes: it   *)
(* loads as it was saved.  (It says nothing of the state and is looked at   *)
(* before the first call.)                                                  *)
CsvHoldsPlain ==
  calls = 0 /\ exists = {} => \A table \in CsvTables : from_csv(to_csv(table)) = table <=> Plain(table)

(* A file that a save has returned 1 of, no other save having been in it at *)
(* the same time and the disk having taken everything, holds the value of   *)
(* that save until the next one opens it, through loads and crashes.        *)
SavedWhole == \A p \in Path : saved[p] # NoCall => files[p] = TextOf(saved[p])

(* A file holds a beginning of what the last save that opened it had to     *)
(* write, or nothing if that save refused its value, through failed writes  *)
(* and crashes: what the file held before is gone from the moment it is     *)
(* opened, whatever the save then answers.                                  *)
Begins(text, whole) == \E n \in 0 .. Len(whole) : text = SubSeq(whole, 1, n)
HoldsBeginning ==
  \A p \in Path : LET c == opened[p] IN
    c # NoCall => IF Rejected(c) # 0 THEN files[p] = << >> ELSE Begins(files[p], TextOf(c))

(* A load that has returned, of a file whose save was the only one in it.   *)
HasRead(t, ext) ==
  /\ source[t] # NoCall /\ source[t].ext = ext /\ call[t].ext = ext
  /\ pc[t] = "idle" /\ loaded[t].kind # "none"

(* A JSON value that is loaded is the value that was saved.  It is loaded   *)
(* if nobody saved meanwhile and no read failed.                            *)
JsonLoadsWhole ==
  \A t \in Thread :
    HasRead(t, "json") =>
      /\ loaded[t].kind = "text" => loaded[t].text = TextOf(source[t])
      /\ alone[t] /\ ~failed[t] => loaded[t].kind = "text"

(* A plain table is loaded from CSV as it was saved if nobody saved         *)
(* meanwhile and no read failed.  Else some of its rows are: all but the    *)
(* last of them as they were, and the last as well if a read failed.        *)
CsvLoadsRows ==
  \A t \in Thread :
    HasRead(t, "csv") /\ Plain(Tables[source[t].doc]) =>
      LET table == Tables[source[t].doc]
          rows  == from_csv(loaded[t].text)
      IN /\ Len(rows) <= Len(table)
         /\ \A k \in 1 .. Len(rows) - (IF failed[t] THEN 0 ELSE 1) : rows[k] = table[k]
         /\ alone[t] /\ ~failed[t] => rows = table

(* What is loaded is what was saved, or what of it is in the file by then.  *)
(* (A save that opens the file while it is read is not looked at.)          *)
LoadsWhatWasSaved == JsonLoadsWhole /\ CsvLoadsRows

(* file_to_buffer returns of chunks that are not empty.  Of a file that     *)
(* nobody writes it has then appended all to what the buffer held, or, if a *)
(* read failed, the chunks before that, though utility.hh:426 calls the 1   *)
(* it returns of either ok.                                                 *)
BufferGetsFile ==
  [][\A t \in Thread :
       pc[t] = "read" /\ call[t].lib = "file" /\ status'[t] = 1 =>
         LET c    == call[t]
             file == files[c.path]
         IN /\ c.chunk > 0
            /\ alone[t] => \E n \in 0 .. Len(file) :
                 /\ buffer'[t] = before[t] \o SubSeq(file, 1, n)
                 /\ IF failed'[t] THEN n % c.chunk = 0 ELSE n = Len(file)]_fvars
=============================================================================
