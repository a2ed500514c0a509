------------------------------ MODULE FileCrypt ------------------------------
(***************************************************************************)
(* utility_functions::file::encrypt and file::decrypt (utility.cc): a file *)
(* is read in windows of chunk_size bytes, every window goes through one   *)
(* AES call of its own, and the result is appended to the output stream.   *)
(*                                                                         *)
(* Bytes are abstracted to intervals.  A file is a sequence of pieces; a   *)
(* piece says what stands at offset "at": plaintext bytes from..to, the    *)
(* CBC or GCM ciphertext of those bytes under a key, or junk.  Lengths are *)
(* the real ones in bytes, because the windows of decrypt are cut in the   *)
(* padded and tagged file that encrypt wrote.                              *)
(***************************************************************************)
EXTENDS Integers, Sequences

CONSTANTS
  PlainSizes,   \* lengths the plain file may have
  ChunkSizes,   \* values callers pass for chunk_size
  Keys,         \* 32 byte keys
  ShortKey,     \* an ik of fewer than 32 bytes
  NoKey,        \* the key of a piece that is not enciphered
  TornSizes,    \* lengths of what a failed write may leave behind a whole piece
  MaxCalls,     \* bound: calls of encrypt and decrypt in a behaviour
  MaxFaults     \* bound: injected faults in a behaviour

ASSUME SizesAssumption == PlainSizes \subseteq Nat /\ ChunkSizes \subseteq Nat
ASSUME TornAssumption  == TornSizes \subseteq Nat \ {0}
ASSUME KeysAssumption  == ShortKey \notin Keys /\ NoKey \notin Keys /\ Keys # {}
ASSUME BoundsAssumption == MaxCalls \in Nat /\ MaxFaults \in Nat

AES_BLOCK_SIZE == 16

(* The plain file, what encrypt makes of it, what decrypt makes of that.   *)
File  == {"plain", "enc", "dec"}
Modes == 1 .. 3                     \* 1: cbc, 2: gcm, 3: any mode without a case
CipherOf(mode) == IF mode = 1 THEN "cbc" ELSE "gcm"

Kinds == {"plain", "cbc", "gcm", "junk"}
Piece == {p \in [kind : Kinds, from : Nat, to : Nat, key : Keys \cup {NoKey}, at : Nat] :
            p.from < p.to}
Absent == [exists |-> FALSE, pieces |-> << >>]
Holding(s) == [exists |-> TRUE, pieces |-> s]

(* CBC pads to the next whole block, GCM appends its tag.                  *)
SegLen(kind, n) ==
  CASE kind = "cbc" -> (n \div AES_BLOCK_SIZE + 1) * AES_BLOCK_SIZE
    [] kind = "gcm" -> n + AES_BLOCK_SIZE
    [] OTHER        -> n
PieceLen(p) == SegLen(p.kind, p.to - p.from)
EndOf(s) == IF s = << >> THEN 0 ELSE s[Len(s)].at + PieceLen(s[Len(s)])

Plain(from, to, at) ==
  [kind |-> "plain", from |-> from, to |-> to, key |-> NoKey, at |-> at]
Junk(n, at) == [kind |-> "junk", from |-> 0, to |-> n, key |-> NoKey, at |-> at]
PlainFile(n) == Holding(IF n = 0 THEN << >> ELSE << Plain(0, n, 0) >>)

VARIABLES
  files,    \* [File -> what is on disk]
  call,     \* arguments of the running (or last) call, and its effective key
  pc,       \* where the running call is; "idle" between calls
  pos,      \* offset of the next window in file_input
  eof,      \* file_in no longer tests true
  chunk,    \* what the cipher call returned for this window: zero or one piece
  buf,      \* pieces written to file_out and not yet handed to the system
  good,     \* file_out has had no failure
  isOk,     \* the code's isOk
  status,   \* return value of the last call; 0: running, or died before returning
  lost,     \* history: windows of this call not read, or that no cipher call returned
  calls, faults

io   == << pos, eof, chunk, buf, good, isOk, lost >>
vars == << files, call, pc, io, status, calls, faults >>

Source == IF call.fn = "encrypt" THEN "plain" ELSE "enc"
Input  == files[Source].pieces
Targets(fn) == IF fn = "encrypt" THEN {"enc", "plain"} ELSE {"dec", "enc"}

(* string::to_buffer(ik, 16) keeps the bytes of ik and AES-256 reads 32 of  *)
(* them: a shorter ik is completed by whatever the heap holds at that call. *)
EffectiveKeys(ik) == IF ik = ShortKey THEN Keys ELSE {ik}

Init ==
  /\ \E n \in PlainSizes :
       files = [f \in File |-> IF f = "plain" THEN PlainFile(n) ELSE Absent]
  /\ call = [fn |-> "encrypt", mode |-> 1, size |-> 0, ik |-> ShortKey,
             key |-> NoKey, dst |-> "enc"]
  /\ pc = "idle" /\ pos = 0 /\ eof = FALSE /\ chunk = << >> /\ buf = << >>
  /\ good = TRUE /\ isOk = TRUE /\ status = 0 /\ lost = 0
  /\ calls = 0 /\ faults = 0

Fault == faults < MaxFaults /\ faults' = faults + 1

Call(fn, mode, size, ik, dst) ==
  /\ pc = "idle" /\ calls < MaxCalls
  /\ \E key \in EffectiveKeys(ik) :
       call' = [fn |-> fn, mode |-> mode, size |-> size, ik |-> ik, key |-> key,
                dst |-> dst]
  /\ pc' = "open" /\ calls' = calls + 1 /\ status' = 0
  /\ pos' = 0 /\ eof' = FALSE /\ chunk' = << >> /\ buf' = << >>
  /\ good' = TRUE /\ isOk' = TRUE /\ lost' = 0
  /\ UNCHANGED << files, faults >>

Return(code) == pc' = "idle" /\ status' = code

OpenInput ==
  /\ pc = "open"
  /\ \/ ~files[Source].exists /\ Return(-1) /\ UNCHANGED isOk
     \/ /\ files[Source].exists /\ call.mode = 3
        /\ isOk' = FALSE /\ Return(-69)
     \/ /\ files[Source].exists /\ call.mode # 3
        /\ pc' = "create" /\ UNCHANGED << isOk, status >>
  /\ UNCHANGED << files, call, pos, eof, chunk, buf, good, lost, calls, faults >>

(* std::ofstream truncates the file; a failure to open is not looked at.   *)
CreateOutput ==
  /\ pc = "create" /\ pc' = "read"
  /\ \/ /\ files' = [files EXCEPT ![call.dst] = Holding(<< >>)]
        /\ UNCHANGED << good, faults >>
     \/ Fault /\ good' = FALSE /\ UNCHANGED files
  /\ UNCHANGED << call, pos, eof, chunk, buf, isOk, status, lost, calls >>

(* A window of enc deciphers when it is exactly one segment that encrypt    *)
(* wrote with this mode and key.  Any other window fails the GCM tag; for   *)
(* CBC it fails on its length, or its last byte is a valid padding only by  *)
(* chance and the rest of the window comes out as junk.                     *)
Whole(s, lo, hi) ==
  {i \in 1 .. Len(s) : s[i].kind = CipherOf(call.mode) /\ s[i].key = call.key
                       /\ s[i].at = lo /\ s[i].at + PieceLen(s[i]) = hi}
Garbled_NoTagCheck(n, at) ==
  IF n % AES_BLOCK_SIZE = 0
  THEN {<< >>} \cup {<< Junk(n - pad, at) >> : pad \in {1, AES_BLOCK_SIZE} \ {n}}
  ELSE {<< >>}
Garbled(n, at) ==
  IF call.mode = 1 /\ n % AES_BLOCK_SIZE = 0
  THEN {<< >>} \cup {<< Junk(n - pad, at) >> : pad \in {1, AES_BLOCK_SIZE} \ {n}}
  ELSE {<< >>}
Ciphered(lo, hi, at) ==
  IF call.fn = "encrypt"
  THEN {<< [kind |-> CipherOf(call.mode), from |-> lo, to |-> hi, key |-> call.key,
            at |-> at] >>}
  ELSE IF Whole(Input, lo, hi) # {}
       THEN {<< Plain(Input[i].from, Input[i].to, at) >> : i \in Whole(Input, lo, hi)}
       ELSE Garbled(hi - lo, at)

(* One turn of "while (file_in)" up to the write.  A read of the whole      *)
(* window leaves the stream good, so only a short read ends the loop; a     *)
(* window of 0 bytes is never short.  The cipher call may also return {}    *)
(* because a context or one of its steps failed.                            *)
Missed(c) == IF c = << >> THEN 1 ELSE 0
Window_DropsTail ==
  LET rest == EndOf(Input) - pos IN IF rest < call.size THEN 0 ELSE call.size
Window == LET rest == EndOf(Input) - pos IN IF rest < call.size THEN rest ELSE call.size
ShortRead_Never == Window < 0
ShortRead == Window < call.size

ReadWindow ==
  /\ pc = "read" /\ ~eof
  /\ eof' = ShortRead
  /\ pos' = pos + Window
  /\ \/ Window = 0 /\ UNCHANGED << pc, chunk, lost, faults >>
     \/ /\ Window > 0 /\ pc' = "write"
        /\ chunk' \in Ciphered(pos, pos + Window, EndOf(files[call.dst].pieces \o buf))
        /\ lost' = lost + Missed(chunk')
        /\ UNCHANGED faults
     \/ /\ Window > 0 /\ pc' = "write" /\ Fault
        /\ chunk' = << >> /\ lost' = lost + 1
  /\ UNCHANGED << files, call, buf, good, isOk, status, calls >>

(* A read error sets badbit: the loop ends as it does at the end of file.   *)
ReadError ==
  /\ pc = "read" /\ ~eof /\ Fault
  /\ eof' = TRUE /\ lost' = lost + 1
  /\ UNCHANGED << files, call, pc, pos, chunk, buf, good, isOk, status, calls >>

OnDisk(s) == files' = [files EXCEPT ![call.dst] = Holding(files[call.dst].pieces \o s)]

(* What is on disk when writing s fails: whole pieces, then at most a torn one. *)
Remains(s) ==
  {SubSeq(s, 1, k) : k \in 0 .. Len(s) - 1} \cup
  UNION {{Append(SubSeq(s, 1, k - 1), Junk(n, s[k].at)) :
            n \in {m \in TornSizes : m < PieceLen(s[k])}} : k \in 1 .. Len(s)}

(* What file_out holds once chunk is written to it; the stream hands it to  *)
(* the system in whole or keeps it, and a write that fails sets badbit.     *)
Held_ForgetsBuffered == chunk
Held_SwapsBuffered   == chunk \o buf
Held == buf \o chunk
WriteFailed_Hidden == UNCHANGED << good, isOk >>
WriteFailed == good' = FALSE /\ isOk' = FALSE

Write ==
  /\ pc = "write" /\ pc' = "read" /\ chunk' = << >>
  /\ \/ good /\ buf' = Held /\ UNCHANGED << files, good, isOk, faults >>
     \/ /\ good /\ chunk # << >> /\ OnDisk(Held) /\ buf' = << >>
        /\ UNCHANGED << good, isOk, faults >>
     \/ /\ good /\ chunk # << >> /\ Fault
        /\ \E s \in Remains(Held) : OnDisk(s)
        /\ buf' = << >> /\ WriteFailed
     \/ ~good /\ isOk' = FALSE /\ UNCHANGED << files, buf, good, faults >>
  /\ UNCHANGED << call, pos, eof, status, lost, calls >>

(* The destructor of file_out flushes; its failure reaches nobody.          *)
CloseOutput ==
  /\ pc = "read" /\ eof
  /\ \/ OnDisk(buf) /\ good /\ UNCHANGED << good, faults >>
     \/ /\ good /\ buf # << >> /\ Fault
        /\ \E s \in Remains(buf) : OnDisk(s)
        /\ good' = FALSE
     \/ ~good /\ UNCHANGED << files, good, faults >>
  /\ buf' = << >>
  /\ Return(IF isOk THEN 1 ELSE -69)
  /\ UNCHANGED << call, pos, eof, chunk, isOk, lost, calls >>

(* The process dies in the middle of a call; what was buffered is gone.     *)
Crash ==
  /\ pc # "idle" /\ Fault
  /\ pc' = "idle" /\ chunk' = << >> /\ buf' = << >>
  /\ UNCHANGED << files, call, pos, eof, good, isOk, status, lost, calls >>

Work == OpenInput \/ CreateOutput \/ ReadWindow \/ Write \/ CloseOutput
Client == \E fn \in {"encrypt", "decrypt"}, mode \in Modes, size \in ChunkSizes,
             ik \in Keys \cup {ShortKey} : \E dst \in Targets(fn) :
               Call(fn, mode, size, ik, dst)
Done == pc = "idle" /\ calls = MaxCalls /\ UNCHANGED vars
Next == Client \/ Work \/ ReadError \/ Crash \/ Done

Spec == Init /\ [][Next]_vars
(* A call runs in its caller's thread: it goes on as long as it can.        *)
FairSpec == Spec /\ WF_vars(Work)

-----------------------------------------------------------------------------
(* The type of every variable, and the shape of the last call.              *)
TypeOK ==
  /\ files \in [File -> [exists : BOOLEAN, pieces : Seq(Piece)]]
  /\ call \in [fn : {"encrypt", "decrypt"}, mode : Modes, size : ChunkSizes \cup {0},
               ik : Keys \cup {ShortKey}, key : Keys \cup {NoKey}, dst : File]
  /\ pc \in {"idle", "open", "create", "read", "write"}
  /\ pos \in Nat /\ eof \in BOOLEAN
  /\ chunk \in Seq(Piece) /\ buf \in Seq(Piece)
  /\ good \in BOOLEAN /\ isOk \in BOOLEAN /\ lost \in Nat
  /\ status \in {0, 1, -1, -69}
  /\ calls \in 0 .. MaxCalls /\ faults \in 0 .. MaxFaults

Returned(fn) == pc = "idle" /\ call.fn = fn /\ status = 1
(* Nothing happened in the call that its status does not tell, and the call *)
(* was not asked to overwrite its own input.                                *)
Unhurt == good /\ lost = 0 /\ call.dst # Source

Upto(s)  == IF s = << >> THEN 0 ELSE s[Len(s)].to
Tiled(s) == /\ s # << >> => s[1].from = 0
            /\ \A i \in 1 .. Len(s) - 1 : s[i + 1].from = s[i].to
(* s is what one encrypt with this mode, key and chunk_size writes.         *)
Uniform(s, kind, key, size) ==
  /\ \A i \in 1 .. Len(s) : /\ s[i].kind = kind /\ s[i].key = key
                            /\ s[i].to - s[i].from \in 1 .. size
  /\ \A i \in 1 .. Len(s) - 1 : s[i].to - s[i].from = size

(* encrypt (utility.cc:1056-1068, 1083-1095): when it returns 1, no write   *)
(* was lost at close and no cipher call failed, enc holds every byte of     *)
(* plain once and in order, in segments of chunk_size bytes.                *)
EncryptComplete ==
  Returned("encrypt") /\ Unhurt =>
    /\ Tiled(files["enc"].pieces)
    /\ Upto(files["enc"].pieces) = EndOf(files["plain"].pieces)
    /\ Uniform(files["enc"].pieces, CipherOf(call.mode), call.key, call.size)

(* decrypt (utility.cc:1135-1147, 1162-1174) restores what encrypt read when *)
(* its chunk_size is the length of a whole segment, padding or tag included *)
(* -- not when it is the chunk_size encrypt was called with.                *)
RoundTrip ==
  Returned("decrypt") /\ Unhurt =>
    \A size \in ChunkSizes :
      LET enc == files["enc"].pieces  dec == files["dec"].pieces IN
        /\ Tiled(enc) /\ Uniform(enc, CipherOf(call.mode), call.key, size)
        /\ call.size = SegLen(CipherOf(call.mode), size)
        => Tiled(dec) /\ Upto(dec) = Upto(enc) /\ \A i \in 1 .. Len(dec) : dec[i].kind = "plain"

(* Whatever fails, wherever a call dies and whatever the windows, no output *)
(* file ever holds input bytes twice or out of order.                       *)
Ordered(s) == \A i, j \in 1 .. Len(s) :
                i < j /\ s[i].kind # "junk" /\ s[j].kind # "junk" => s[i].to <= s[j].from
OutputOrdered == \A f \in File : Ordered(files[f].pieces)

(* GCM rejects every window that is not a whole segment of this key, so a   *)
(* finished GCM decrypt that wrote without failure wrote plaintext only,    *)
(* whatever the keys and chunk sizes were (cryptography.cc:552-555).        *)
GcmNeverGarbles ==
  Returned("decrypt") /\ call.mode = 2 /\ good /\ call.dst = "dec" =>
    \A i \in 1 .. Len(files["dec"].pieces) : files["dec"].pieces[i].kind = "plain"

(* A failure that encrypt's 1 hides for want of looking at the close can    *)
(* only cut the end off: enc is then a prefix of what it should be, with at *)
(* most one torn segment behind it (utility.cc:1063-1066, 1072).            *)
OnlyTailMissing ==
  Returned("encrypt") /\ lost = 0 /\ call.dst # Source /\ EndOf(files["plain"].pieces) > 0 =>
    LET s == files["enc"].pieces
        n == IF s # << >> /\ s[Len(s)].kind = "junk" THEN Len(s) - 1 ELSE Len(s)
    IN  Tiled(SubSeq(s, 1, n)) /\ \A i \in 1 .. n : s[i].kind # "junk"

(* utility.hh:447-474 give encrypt and decrypt the same default chunk_size  *)
(* and say "1 mean ok": then a decrypt with the mode, key and chunk_size of *)
(* an encrypt that returned 1 restores the file, or says that it did not.   *)
SameChunkRestores ==
  Returned("decrypt") /\ good /\ call.dst # Source =>
    LET enc == files["enc"].pieces  dec == files["dec"].pieces IN
      Tiled(enc) /\ Uniform(enc, CipherOf(call.mode), call.key, call.size)
        => Tiled(dec) /\ Upto(dec) = Upto(enc)

(* Every call with a chunk_size of at least 1 comes back or its process     *)
(* dies: the loops end although a full read does not set eof.               *)
CallReturns == pc # "idle" /\ call.size > 0 ~> pc = "idle"
=============================================================================
