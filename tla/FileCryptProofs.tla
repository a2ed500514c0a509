-------------------------- MODULE FileCryptProofs --------------------------
(* Proofs about FileCrypt, for every set of sizes, keys and bounds.         *)
EXTENDS FileCrypt, SequenceTheorems, TLAPS

-----------------------------------------------------------------------------
(* Lengths: a segment is never shorter than what it holds, and a longer     *)
(* piece never makes a shorter segment.                                     *)
LEMMA SegLenFacts ==
  ASSUME NEW kind \in Kinds, NEW m \in Nat, NEW n \in Nat, m <= n
  PROVE  /\ SegLen(kind, n) \in Nat
         /\ n <= SegLen(kind, n)
         /\ SegLen(kind, m) <= SegLen(kind, n)
  BY DEF SegLen, AES_BLOCK_SIZE, Kinds

LEMMA PieceFacts ==
  ASSUME NEW p \in Piece
  PROVE  /\ PieceLen(p) \in Nat \ {0}
         /\ p.from \in Nat /\ p.to \in Nat /\ p.from < p.to /\ p.at \in Nat
         /\ p.kind \in Kinds
<1>1. /\ p.from \in Nat /\ p.to \in Nat /\ p.from < p.to /\ p.at \in Nat
      /\ p.kind \in Kinds
  BY DEF Piece
<1>2. p.to - p.from \in Nat /\ p.to - p.from > 0
  BY <1>1
<1>3. PieceLen(p) \in Nat /\ p.to - p.from <= PieceLen(p)
  BY <1>1, <1>2, SegLenFacts DEF PieceLen
<1>4. QED
  BY <1>1, <1>2, <1>3

LEMMA EndOfNat ==
  ASSUME NEW s \in Seq(Piece)
  PROVE  EndOf(s) \in Nat
<1>1. CASE s = << >>
  BY <1>1 DEF EndOf
<1>2. CASE s # << >>
  <2>1. Len(s) \in 1 .. Len(s)
    BY <1>2
  <2>2. s[Len(s)] \in Piece
    BY <2>1
  <2>3. QED
    BY <1>2, <2>2, PieceFacts DEF EndOf
<1>3. QED
  BY <1>1, <1>2

LEMMA PieceMakers ==
  ASSUME NEW from \in Nat, NEW to \in Nat, from < to, NEW at \in Nat
  PROVE  /\ Plain(from, to, at) \in Piece
         /\ \A n \in Nat \ {0} : Junk(n, at) \in Piece
         /\ \A k \in Keys \cup {NoKey}, kd \in Kinds :
              [kind |-> kd, from |-> from, to |-> to, key |-> k, at |-> at] \in Piece
  BY DEF Plain, Junk, Piece, Kinds

-----------------------------------------------------------------------------
(* The inductive invariant.                                                 *)

(* The pieces of s stand one behind the other from offset 0.                *)
LaidOut(s) ==
  /\ s # << >> => s[1].at = 0
  /\ \A i \in 1 .. Len(s) : i < Len(s) => s[i + 1].at = s[i].at + PieceLen(s[i])
  /\ \A i, j \in 1 .. Len(s) : i < j => s[i].at + PieceLen(s[i]) <= s[j].at

(* What the running call has produced: on disk, buffered, and in hand.      *)
Base == files[call.dst].pieces
Out  == (Base \o buf) \o chunk

Running == pc \in {"read", "write"}

PhaseInv ==
  /\ pc # "idle" => call.dst \in Targets(call.fn) /\ call.size \in ChunkSizes /\ status = 0
  /\ pc \in {"open", "create"} => pos = 0 /\ eof = FALSE /\ good = TRUE
  /\ pc # "write" => chunk = << >>
  /\ ~(Running /\ good) => buf = << >>
  /\ Running \/ pc = "create" => call.mode \in {1, 2}
  /\ Running => pos <= EndOf(Input)
  /\ Running /\ good /\ call.dst = Source => Input = << >> /\ buf = << >> /\ chunk = << >>

LayoutInv ==
  /\ \A f \in File : LaidOut(files[f].pieces)
  /\ Running /\ good => LaidOut(Out)

(* The bytes still to come stand behind the bytes already written.          *)
OrderInv ==
  /\ OutputOrdered
  /\ Running /\ good => Ordered(Out)
  /\ Running /\ good /\ call.fn = "encrypt" =>
       \A i \in 1 .. Len(Out) : Out[i].kind # "junk" => Out[i].to <= pos
  /\ Running /\ good /\ call.fn = "decrypt" =>
       \A i \in 1 .. Len(Out), j \in 1 .. Len(Input) :
         Out[i].kind # "junk" /\ Input[j].kind # "junk" /\ Input[j].at >= pos
           => Out[i].to <= Input[j].from

(* How far encrypt has come: whole windows of plain up to pos.              *)
Enciphered ==
  /\ Tiled(Out) /\ Upto(Out) = pos
  /\ Uniform(Out, CipherOf(call.mode), call.key, call.size)
  /\ ~eof => \A i \in 1 .. Len(Out) : Out[i].to - Out[i].from = call.size
  /\ eof => pos = EndOf(Input)
EncryptInv ==
  /\ Running /\ Unhurt /\ call.fn = "encrypt" => Enciphered
  /\ EncryptComplete

(* How far decrypt has come when its windows are the segments of enc.       *)
Matching(size) ==
  /\ Uniform(files["enc"].pieces, CipherOf(call.mode), call.key, size)
  /\ call.size = SegLen(CipherOf(call.mode), size)
Restored(s) ==
  /\ Len(s) <= Len(files["enc"].pieces)
  /\ \A i \in 1 .. Len(s) : /\ s[i].kind = "plain"
                            /\ s[i].from = files["enc"].pieces[i].from
                            /\ s[i].to = files["enc"].pieces[i].to
Deciphered ==
  /\ Restored(Out)
  /\ pos = IF Len(Out) < Len(Input) THEN Input[Len(Out) + 1].at ELSE EndOf(Input)
  /\ eof => Len(Out) = Len(Input)
DecryptInv ==
  \A size \in ChunkSizes :
    call.fn = "decrypt" /\ Unhurt /\ Matching(size) =>
      /\ Running => Deciphered
      /\ Returned("decrypt") => /\ Restored(files["dec"].pieces)
                                /\ Len(files["dec"].pieces) = Len(Input)

-----------------------------------------------------------------------------
(* Sequences of pieces.                                                     *)

(* One more piece at the end keeps a file laid out.                         *)
LEMMA AppendPiece ==
  ASSUME NEW s \in Seq(Piece), NEW p \in Piece, p.at = EndOf(s), LaidOut(s)
  PROVE  /\ s \o << p >> \in Seq(Piece)
         /\ Len(s \o << p >>) = Len(s) + 1
         /\ \A i \in 1 .. Len(s) : (s \o << p >>)[i] = s[i]
         /\ (s \o << p >>)[Len(s) + 1] = p
         /\ LaidOut(s \o << p >>)
<1> DEFINE t == s \o << p >>
<1>1. << p >> \in Seq(Piece) /\ Len(<< p >>) = 1 /\ << p >>[1] = p
  OBVIOUS
<1>2. t \in Seq(Piece) /\ Len(t) = Len(s) + 1
  BY <1>1, ConcatProperties
<1>3. \A i \in 1 .. Len(s) : t[i] = s[i]
  BY <1>1, ConcatProperties
<1>4. t[Len(s) + 1] = p
  BY <1>1, ConcatProperties
<1> HIDE DEF t
<1>5. \A i \in 1 .. Len(s) : s[i] \in Piece /\ PieceLen(s[i]) \in Nat \ {0} /\ s[i].at \in Nat
  BY PieceFacts
<1>6. \A i \in 1 .. Len(s) : s[i].at + PieceLen(s[i]) <= p.at
  <2> TAKE i \in 1 .. Len(s)
  <2>1. Len(s) \in 1 .. Len(s) /\ s # << >>
    OBVIOUS
  <2>2. p.at = s[Len(s)].at + PieceLen(s[Len(s)])
    BY <2>1 DEF EndOf
  <2>3. CASE i = Len(s)
    BY <2>1, <2>2, <2>3, <1>5
  <2>4. CASE i < Len(s)
    <3>1. s[i].at + PieceLen(s[i]) <= s[Len(s)].at
      BY <2>1, <2>4 DEF LaidOut
    <3>2. QED
      BY <3>1, <2>1, <2>2, <1>5
  <2>5. QED
    BY <2>3, <2>4
<1>7. t # << >> => t[1].at = 0
  <2>1. CASE s = << >>
    BY <2>1, <1>4 DEF EndOf
  <2>2. CASE s # << >>
    <3>1. 1 \in 1 .. Len(s)
      BY <2>2
    <3>2. QED
      BY <2>2, <3>1, <1>3 DEF LaidOut
  <2>3. QED
    BY <2>1, <2>2
<1>8. \A i \in 1 .. Len(t) : i < Len(t) => t[i + 1].at = t[i].at + PieceLen(t[i])
  <2> SUFFICES ASSUME NEW i \in 1 .. Len(s)
               PROVE  t[i + 1].at = t[i].at + PieceLen(t[i])
    BY <1>2
  <2>1. CASE i < Len(s)
    <3>1. i + 1 \in 1 .. Len(s)
      BY <2>1
    <3>2. t[i + 1] = s[i + 1] /\ t[i] = s[i]
      BY <3>1, <1>3
    <3>3. QED
      BY <2>1, <3>2 DEF LaidOut
  <2>2. CASE i = Len(s)
    <3>1. s # << >> /\ t[i] = s[i] /\ t[i + 1] = p
      BY <2>2, <1>3, <1>4
    <3>2. QED
      BY <2>2, <3>1 DEF EndOf
  <2>3. QED
    BY <2>1, <2>2
<1>9. \A i, j \in 1 .. Len(t) : i < j => t[i].at + PieceLen(t[i]) <= t[j].at
  <2> SUFFICES ASSUME NEW i \in 1 .. Len(s), NEW j \in 1 .. Len(s) + 1, i < j
               PROVE  t[i].at + PieceLen(t[i]) <= t[j].at
    BY <1>2
  <2>1. t[i] = s[i]
    BY <1>3
  <2>2. CASE j = Len(s) + 1
    BY <2>1, <2>2, <1>4, <1>6
  <2>3. CASE j \in 1 .. Len(s)
    <3>1. t[j] = s[j]
      BY <2>3, <1>3
    <3>2. QED
      BY <2>1, <2>3, <3>1 DEF LaidOut
  <2>4. QED
    BY <2>2, <2>3
<1>10. QED
  BY <1>2, <1>3, <1>4, <1>7, <1>8, <1>9 DEF LaidOut, t

(* Every piece of a laid-out file ends at or before the end of the file.    *)
LEMMA WithinFile ==
  ASSUME NEW s \in Seq(Piece), LaidOut(s), NEW i \in 1 .. Len(s)
  PROVE  s[i].at + PieceLen(s[i]) <= EndOf(s)
<1>1. Len(s) \in 1 .. Len(s) /\ s # << >>
  OBVIOUS
<1>2. EndOf(s) = s[Len(s)].at + PieceLen(s[Len(s)])
  BY <1>1 DEF EndOf
<1>3. \A k \in 1 .. Len(s) : PieceLen(s[k]) \in Nat \ {0} /\ s[k].at \in Nat
  BY PieceFacts
<1>4. CASE i = Len(s)
  BY <1>2, <1>3, <1>4
<1>5. CASE i < Len(s)
  <2>1. s[i].at + PieceLen(s[i]) <= s[Len(s)].at
    BY <1>1, <1>5 DEF LaidOut
  <2>2. QED
    BY <1>1, <1>2, <1>3, <2>1
<1>6. QED
  BY <1>4, <1>5

(* Cutting a file short, with at most a torn piece at the cut, keeps it laid *)
(* out and ordered.                                                         *)
CutOf(t, s) ==
  /\ t \in Seq(Piece) /\ Len(t) <= Len(s)
  /\ \A i \in 1 .. Len(t) :
       \/ t[i] = s[i]
       \/ i = Len(t) /\ t[i].at = s[i].at /\ t[i].kind = "junk"

LEMMA CutKeeps ==
  ASSUME NEW s \in Seq(Piece), NEW t, CutOf(t, s), LaidOut(s)
  PROVE  LaidOut(t) /\ (Ordered(s) => Ordered(t))
<1>1. t \in Seq(Piece) /\ Len(t) <= Len(s) /\ 1 .. Len(t) \subseteq 1 .. Len(s)
  BY DEF CutOf
<1>2. \A i \in 1 .. Len(t) : t[i].at = s[i].at /\ (i < Len(t) => t[i] = s[i])
  BY DEF CutOf
<1>3. t # << >> => t[1].at = 0
  BY <1>1, <1>2 DEF LaidOut
<1>4. \A i \in 1 .. Len(t) : i < Len(t) => t[i + 1].at = t[i].at + PieceLen(t[i])
  BY <1>1, <1>2 DEF LaidOut
<1>5. \A i, j \in 1 .. Len(t) : i < j => t[i].at + PieceLen(t[i]) <= t[j].at
  BY <1>1, <1>2 DEF LaidOut
<1>6. Ordered(s) => Ordered(t)
  BY <1>1 DEF Ordered, CutOf
<1>7. QED
  BY <1>3, <1>4, <1>5, <1>6 DEF LaidOut

(* What a failed write of s leaves is a cut of s, and behind f it is a cut   *)
(* of f with s.                                                             *)
LEMMA RemainsIsCut ==
  ASSUME NEW s \in Seq(Piece), NEW r \in Remains(s)
  PROVE  CutOf(r, s)
<1>1. CASE r \in {SubSeq(s, 1, k) : k \in 0 .. Len(s) - 1}
  <2>1. PICK k \in 0 .. Len(s) - 1 : r = SubSeq(s, 1, k)
    BY <1>1
  <2>2. \A i \in 1 .. k : s[i] \in Piece
    OBVIOUS
  <2>3. QED
    BY <2>1, <2>2, SubSeqProperties DEF CutOf
<1>2. CASE \E k \in 1 .. Len(s) : \E n \in TornSizes :
             r = Append(SubSeq(s, 1, k - 1), Junk(n, s[k].at))
  <2>1. PICK k \in 1 .. Len(s), n \in TornSizes :
               r = Append(SubSeq(s, 1, k - 1), Junk(n, s[k].at))
    BY <1>2
  <2> DEFINE q == SubSeq(s, 1, k - 1)
             j == Junk(n, s[k].at)
  <2>2. s[k] \in Piece /\ s[k].at \in Nat /\ n \in Nat \ {0}
    BY PieceFacts, TornAssumption
  <2>3. j \in Piece /\ j.at = s[k].at /\ j.kind = "junk"
    BY <2>2 DEF Junk, Piece, Kinds
  <2>4. q \in Seq(Piece) /\ Len(q) = k - 1 /\ \A i \in 1 .. k - 1 : q[i] = s[i]
    <3>1. \A i \in 1 .. k - 1 : s[i] \in Piece
      OBVIOUS
    <3>2. QED
      BY <3>1, SubSeqProperties
  <2> HIDE DEF q, j
  <2>5. r \in Seq(Piece) /\ Len(r) = k /\ r[k] = j /\ \A i \in 1 .. k - 1 : r[i] = q[i]
    <3>1. r = Append(q, j)
      BY <2>1 DEF q, j
    <3>2. QED
      BY <3>1, <2>3, <2>4, AppendProperties
  <2>6. QED
    BY <2>3, <2>4, <2>5 DEF CutOf
<1>3. QED
  BY <1>1, <1>2 DEF Remains

LEMMA RemainsCut ==
  ASSUME NEW f \in Seq(Piece), NEW s \in Seq(Piece), NEW r \in Remains(s)
  PROVE  CutOf(f \o r, f \o s)
<1>1. r \in Seq(Piece) /\ Len(r) <= Len(s)
      /\ \A i \in 1 .. Len(r) : \/ r[i] = s[i]
                                \/ i = Len(r) /\ r[i].at = s[i].at /\ r[i].kind = "junk"
  BY RemainsIsCut DEF CutOf
<1>2. f \o r \in Seq(Piece) /\ Len(f \o r) = Len(f) + Len(r)
      /\ \A i \in 1 .. Len(f) + Len(r) : (f \o r)[i] = IF i <= Len(f) THEN f[i] ELSE r[i - Len(f)]
  BY <1>1, ConcatProperties
<1>3. Len(f \o s) = Len(f) + Len(s)
      /\ \A i \in 1 .. Len(f) + Len(s) : (f \o s)[i] = IF i <= Len(f) THEN f[i] ELSE s[i - Len(f)]
  BY ConcatProperties
<1>4. ASSUME NEW i \in 1 .. Len(f) + Len(r)
      PROVE  \/ (f \o r)[i] = (f \o s)[i]
             \/ i = Len(f \o r) /\ (f \o r)[i].at = (f \o s)[i].at /\ (f \o r)[i].kind = "junk"
  <2>1. CASE i <= Len(f)
    BY <2>1, <1>1, <1>2, <1>3
  <2>2. CASE i > Len(f)
    <3>1. i - Len(f) \in 1 .. Len(r) /\ i \in 1 .. Len(f) + Len(s)
      BY <2>2, <1>1, <1>2
    <3>2. (f \o r)[i] = r[i - Len(f)] /\ (f \o s)[i] = s[i - Len(f)]
      BY <2>2, <3>1, <1>1, <1>2, <1>3
    <3>3. QED
      BY <3>1, <3>2, <1>1, <1>2
  <2>3. i <= Len(f) \/ i > Len(f)
    <3>1. Len(f) \in Nat /\ Len(r) \in Nat
      BY <1>1
    <3>2. QED
      BY <3>1
  <2>4. QED
    BY <2>1, <2>2, <2>3
<1>5. QED
  BY <1>1, <1>2, <1>3, <1>4 DEF CutOf


-----------------------------------------------------------------------------
(* What one cipher call returns: nothing, or one piece in its place.        *)
Yields(p, lo, hi) ==
  /\ call.fn = "encrypt" => /\ p.kind = CipherOf(call.mode) /\ p.key = call.key
                            /\ p.from = lo /\ p.to = hi
  /\ call.fn = "decrypt" /\ p.kind = "junk" => Whole(Input, lo, hi) = {} /\ call.mode = 1
  /\ call.fn = "decrypt" /\ p.kind # "junk" =>
       \E i \in Whole(Input, lo, hi) :
         p.kind = "plain" /\ p.from = Input[i].from /\ p.to = Input[i].to

LEMMA CipheredFacts ==
  ASSUME TypeOK, NEW lo \in Nat, NEW hi \in Nat, lo < hi, NEW at \in Nat,
         NEW c \in Ciphered(lo, hi, at)
  PROVE  \/ c = << >>
         \/ \E p \in Piece : c = << p >> /\ p.at = at /\ Yields(p, lo, hi)
<1>1. Input \in Seq(Piece) /\ call.key \in Keys \cup {NoKey} /\ call.fn \in {"encrypt", "decrypt"}
  BY DEF TypeOK, Input, Source, File
<1>2. CASE call.fn = "encrypt"
  <2> DEFINE p == [kind |-> CipherOf(call.mode), from |-> lo, to |-> hi,
                   key |-> call.key, at |-> at]
  <2>1. c = << p >>
    BY <1>2 DEF Ciphered
  <2>2. CipherOf(call.mode) \in Kinds
    BY DEF CipherOf, Kinds
  <2>3. p \in Piece
    BY <1>1, <2>2 DEF Piece
  <2>4. Yields(p, lo, hi)
    BY <1>2 DEF Yields
  <2>5. QED
    BY <2>1, <2>3, <2>4
<1>3. CASE call.fn = "decrypt" /\ Whole(Input, lo, hi) # {}
  <2>1. PICK i \in Whole(Input, lo, hi) : c = << Plain(Input[i].from, Input[i].to, at) >>
    BY <1>3 DEF Ciphered
  <2>2. i \in 1 .. Len(Input)
    BY DEF Whole
  <2>3. Input[i] \in Piece
    BY <1>1, <2>2
  <2>4. Input[i].from \in Nat /\ Input[i].to \in Nat /\ Input[i].from < Input[i].to
    BY <2>3, PieceFacts
  <2> DEFINE p == Plain(Input[i].from, Input[i].to, at)
  <2>5. p \in Piece
    BY <2>4 DEF Plain, Piece, Kinds
  <2>6. p.at = at /\ p.kind = "plain" /\ p.from = Input[i].from /\ p.to = Input[i].to
    BY DEF Plain
  <2>7. Yields(p, lo, hi)
    BY <1>3, <2>6 DEF Yields
  <2>8. QED
    BY <2>1, <2>5, <2>6, <2>7
<1>4. CASE call.fn = "decrypt" /\ Whole(Input, lo, hi) = {}
  <2>1. c \in Garbled(hi - lo, at)
    BY <1>4 DEF Ciphered
  <2>2. CASE c = << >>
    BY <2>2
  <2>3. CASE c # << >>
    <3>1. /\ (hi - lo) % AES_BLOCK_SIZE = 0 /\ call.mode = 1
          /\ \E pad \in {1, AES_BLOCK_SIZE} \ {hi - lo} : c = << Junk(hi - lo - pad, at) >>
      BY <2>1, <2>3 DEF Garbled
    <3>2. PICK pad \in {1, AES_BLOCK_SIZE} \ {hi - lo} : c = << Junk(hi - lo - pad, at) >>
      BY <3>1
    <3>3. hi - lo - pad \in Nat \ {0}
      BY <3>1 DEF AES_BLOCK_SIZE
    <3> DEFINE p == Junk(hi - lo - pad, at)
    <3>4. p \in Piece
      BY <3>3 DEF Junk, Piece, Kinds
    <3>5. p.at = at /\ p.kind = "junk"
      BY DEF Junk
    <3>6. Yields(p, lo, hi)
      BY <1>4, <3>1, <3>5 DEF Yields
    <3>7. QED
      BY <3>2, <3>4, <3>5, <3>6
  <2>4. QED
    BY <2>2, <2>3
<1>5. QED
  BY <1>1, <1>2, <1>3, <1>4

(* The window ReadWindow reads lies within the input.                       *)
LEMMA WindowFacts ==
  ASSUME TypeOK, PhaseInv, pc = "read"
  PROVE  /\ Input \in Seq(Piece) /\ EndOf(Input) \in Nat
         /\ pos \in Nat /\ call.size \in Nat /\ Window \in Nat
         /\ pos + Window <= EndOf(Input)
         /\ Window < call.size => pos + Window = EndOf(Input)
<1>1. Input \in Seq(Piece) /\ pos \in Nat
  BY DEF TypeOK, Input, Source, File
<1>2. EndOf(Input) \in Nat
  BY <1>1, EndOfNat
<1>3. pos <= EndOf(Input) /\ call.size \in Nat
  BY SizesAssumption DEF PhaseInv, Running, TypeOK
<1>4. QED
  BY <1>1, <1>2, <1>3 DEF Window

-----------------------------------------------------------------------------
(* The steps that change files replace one file by another sequence of      *)
(* pieces; everything else about files is left alone.                       *)
LEMMA OnDiskFacts ==
  ASSUME TypeOK, NEW s \in Seq(Piece), OnDisk(s)
  PROVE  /\ files' \in [File -> [exists : BOOLEAN, pieces : Seq(Piece)]]
         /\ files'[call.dst].pieces = files[call.dst].pieces \o s
         /\ \A f \in File \ {call.dst} : files'[f] = files[f]
         /\ files[call.dst].pieces \in Seq(Piece)
<1>1. files \in [File -> [exists : BOOLEAN, pieces : Seq(Piece)]] /\ call.dst \in File
  BY DEF TypeOK
<1>2. files[call.dst].pieces \in Seq(Piece)
  BY <1>1
<1>3. files[call.dst].pieces \o s \in Seq(Piece)
  BY <1>2, ConcatProperties
<1>4. QED
  BY <1>1, <1>2, <1>3 DEF OnDisk, Holding

-----------------------------------------------------------------------------
(* Type correctness, together with what each phase of a call may hold.      *)
TypeInv == TypeOK /\ PhaseInv

LEMMA TypeInvInit == Init => TypeInv
<1> SUFFICES ASSUME Init PROVE TypeInv
  OBVIOUS
<1>1. PICK n \in PlainSizes :
        files = [f \in File |-> IF f = "plain" THEN PlainFile(n) ELSE Absent]
  BY DEF Init
<1>2. PlainFile(n) \in [exists : BOOLEAN, pieces : Seq(Piece)]
  <2>1. n \in Nat /\ (n # 0 => Plain(0, n, 0) \in Piece)
    BY SizesAssumption, PieceMakers
  <2>2. QED
    BY <2>1 DEF PlainFile, Holding
<1>3. Absent \in [exists : BOOLEAN, pieces : Seq(Piece)]
  BY DEF Absent
<1>4. files \in [File -> [exists : BOOLEAN, pieces : Seq(Piece)]]
  BY <1>1, <1>2, <1>3
<1>5. chunk \in Seq(Piece) /\ buf \in Seq(Piece)
  BY DEF Init
<1>6. call \in [fn : {"encrypt", "decrypt"}, mode : Modes, size : ChunkSizes \cup {0},
                ik : Keys \cup {ShortKey}, key : Keys \cup {NoKey}, dst : File]
  BY DEF Init, Modes, File
<1>7. calls \in 0 .. MaxCalls /\ faults \in 0 .. MaxFaults
  BY BoundsAssumption DEF Init
<1>8. TypeOK
  BY <1>4, <1>5, <1>6, <1>7 DEF Init, TypeOK
<1>9. PhaseInv
  BY DEF Init, PhaseInv, Running
<1>10. QED
  BY <1>8, <1>9 DEF TypeInv

LEMMA TypeInvStep == TypeInv /\ [Next]_vars => TypeInv'
<1> SUFFICES ASSUME TypeOK, PhaseInv, [Next]_vars PROVE TypeInv'
  BY DEF TypeInv
<1>1. ASSUME NEW fn \in {"encrypt", "decrypt"}, NEW mode \in Modes, NEW size \in ChunkSizes,
             NEW ik \in Keys \cup {ShortKey}, NEW dst \in Targets(fn),
             Call(fn, mode, size, ik, dst)
      PROVE  TypeInv'
  <2>1. PICK key \in EffectiveKeys(ik) :
          call' = [fn |-> fn, mode |-> mode, size |-> size, ik |-> ik, key |-> key, dst |-> dst]
    BY <1>1 DEF Call
  <2>2. key \in Keys
    BY DEF EffectiveKeys
  <2>3. dst \in File
    BY DEF Targets, File
  <2>4. calls' \in 0 .. MaxCalls
    BY <1>1, BoundsAssumption DEF Call, TypeOK
  <2>5. QED
    BY <1>1, <2>1, <2>2, <2>3, <2>4 DEF Call, TypeInv, TypeOK, PhaseInv, Running
<1>2. CASE OpenInput
  <2>1. /\ pc' \in {"idle", "create"} /\ status' \in {0, 1, -1, -69} /\ isOk' \in BOOLEAN
        /\ UNCHANGED << files, call, pos, eof, chunk, buf, good, lost, calls, faults >>
    BY <1>2 DEF OpenInput, Return, TypeOK
  <2>2. TypeOK'
    BY <2>1 DEF TypeOK
  <2>3. pc' = "create" => call.mode \in {1, 2}
    BY <1>2 DEF OpenInput, Return, TypeOK, Modes
  <2>4. PhaseInv'
    <3>1. pc = "open" /\ (pc' # "idle" => status' = status)
      BY <1>2 DEF OpenInput, Return
    <3>2. QED
      BY <2>1, <2>3, <3>1 DEF PhaseInv, Running
  <2>5. QED
    BY <2>2, <2>4 DEF TypeInv
<1>3. CASE CreateOutput
  <2>1. TypeOK'
    <3>1. files' \in [File -> [exists : BOOLEAN, pieces : Seq(Piece)]]
      <4>1. Holding(<< >>) \in [exists : BOOLEAN, pieces : Seq(Piece)]
        BY DEF Holding
      <4>2. QED
        BY <1>3, <4>1 DEF CreateOutput, TypeOK
    <3>2. faults' \in 0 .. MaxFaults
      BY <1>3, BoundsAssumption DEF CreateOutput, Fault, TypeOK
    <3>3. QED
      BY <1>3, <3>1, <3>2, ZenonT(60) DEF CreateOutput, TypeOK
  <2>2. Input' \in Seq(Piece)
    BY <2>1 DEF TypeOK, Input, Source, File
  <2>3. EndOf(Input') \in Nat
    BY <2>2, EndOfNat
  <2>4. call.dst = Source /\ good' => Input' = << >>
    BY <1>3 DEF CreateOutput, Input, Source, Holding, TypeOK, PhaseInv
  <2>5. call.mode \in {1, 2}
    BY <1>3 DEF CreateOutput, PhaseInv
  <2>6. QED
    BY <1>3, <2>1, <2>3, <2>4, <2>5 DEF CreateOutput, TypeInv, PhaseInv, Running, Source, Input
<1>4. CASE ReadWindow
  <2>1. pos' \in Nat /\ pos' <= EndOf(Input)
    BY <1>4, WindowFacts DEF ReadWindow
  <2>2. faults' \in 0 .. MaxFaults
    BY <1>4, BoundsAssumption DEF ReadWindow, Fault, TypeOK
  <2>3. chunk' \in Seq(Piece)
    <3>1. CASE chunk' = << >> \/ chunk' = chunk
      <4>1. << >> \in Seq(Piece) /\ chunk \in Seq(Piece)
        BY DEF TypeOK
      <4>2. QED
        BY <3>1, <4>1
    <3>2. CASE Window > 0 /\ chunk' \in Ciphered(pos, pos + Window, EndOf(files[call.dst].pieces \o buf))
      <4>1. files[call.dst].pieces \o buf \in Seq(Piece)
        BY ConcatProperties DEF TypeOK
      <4>2. EndOf(files[call.dst].pieces \o buf) \in Nat
        BY <4>1, EndOfNat
      <4>3. pos \in Nat /\ pos + Window \in Nat /\ pos < pos + Window
        BY <1>4, <3>2, WindowFacts DEF ReadWindow
      <4>4. chunk' = << >> \/ \E p \in Piece : chunk' = << p >>
        BY <3>2, <4>2, <4>3, CipheredFacts
      <4>5. << >> \in Seq(Piece) /\ \A p \in Piece : << p >> \in Seq(Piece)
        OBVIOUS
      <4>6. QED
        BY <4>4, <4>5
    <3>3. QED
      BY <1>4, <3>1, <3>2 DEF ReadWindow
  <2>4. TypeOK'
    <3>1. eof' \in BOOLEAN /\ lost' \in Nat
      BY <1>4, WindowFacts DEF ReadWindow, TypeOK, Missed, ShortRead
    <3>2. pc' \in {"idle", "open", "create", "read", "write"}
      BY <1>4 DEF ReadWindow, TypeOK
    <3>3. QED
      BY <1>4, <2>1, <2>2, <2>3, <3>1, <3>2 DEF ReadWindow, TypeOK
  <2>5. call.dst = Source /\ good => Window \notin Nat \ {0}
    <3>1. call.dst = Source /\ good => Input = << >>
      BY <1>4 DEF ReadWindow, PhaseInv, Running
    <3>2. QED
      BY <1>4, <3>1, WindowFacts DEF ReadWindow, EndOf
  <2>6. Window \in Nat
    BY <1>4, WindowFacts DEF ReadWindow
  <2>7. PhaseInv'
    BY <1>4, <2>1, <2>5, <2>6 DEF ReadWindow, PhaseInv, Running, Input, Source
  <2>8. QED
    BY <2>4, <2>7 DEF TypeInv
<1>5. CASE ReadError
  <2>1. faults' \in 0 .. MaxFaults
    BY <1>5, BoundsAssumption DEF ReadError, Fault, TypeOK
  <2>2. QED
    BY <1>5, <2>1 DEF ReadError, TypeInv, TypeOK, PhaseInv, Running, Input, Source
<1>6. CASE Write
  <2>1. buf \o chunk \in Seq(Piece)
    BY ConcatProperties DEF TypeOK
  <2>2. /\ files' \in [File -> [exists : BOOLEAN, pieces : Seq(Piece)]]
        /\ \A f \in File \ {call.dst} : files'[f] = files[f]
    <3>1. CASE UNCHANGED files
      BY <3>1 DEF TypeOK
    <3>2. CASE OnDisk(buf \o chunk)
      BY <3>2, <2>1, OnDiskFacts
    <3>3. CASE \E s \in Remains(buf \o chunk) : OnDisk(s)
      <4>1. PICK s \in Remains(buf \o chunk) : OnDisk(s)
        BY <3>3
      <4>2. s \in Seq(Piece)
        BY <2>1, RemainsIsCut DEF CutOf
      <4>3. QED
        BY <4>1, <4>2, OnDiskFacts
    <3>4. QED
      BY <1>6, <3>1, <3>2, <3>3 DEF Write, Held, WriteFailed
  <2>3. faults' \in 0 .. MaxFaults
    BY <1>6, BoundsAssumption DEF Write, Held, WriteFailed, Fault, TypeOK
  <2>4. buf' \in Seq(Piece) /\ chunk' = << >> /\ chunk' \in Seq(Piece)
    <3>1. buf' = buf \o chunk \/ buf' = << >> \/ buf' = buf
      BY <1>6 DEF Write, Held
    <3>2. << >> \in Seq(Piece) /\ buf \in Seq(Piece) /\ chunk' = << >>
      BY <1>6 DEF Write, Held, WriteFailed, TypeOK
    <3>3. QED
      BY <2>1, <3>1, <3>2
  <2>5. TypeOK'
    <3>1. good' \in BOOLEAN /\ isOk' \in BOOLEAN /\ pc' = "read"
      BY <1>6 DEF Write, Held, WriteFailed, TypeOK
    <3>2. UNCHANGED << call, pos, eof, status, lost, calls >>
      BY <1>6 DEF Write
    <3>3. QED
      BY <2>2, <2>3, <2>4, <3>1, <3>2 DEF TypeOK
  <2>6. call.dst = Source /\ good => chunk = << >> /\ buf \o chunk = << >>
    BY <1>6 DEF Write, PhaseInv, Running
  <2>7. (call.dst = Source => UNCHANGED files) /\ Source \in File
    BY <1>6, <2>6 DEF Write, Source, File
  <2>8. Input' = Input
    BY <1>6, <2>2, <2>7 DEF Write, Input, Source
  <2>9. PhaseInv'
    BY <1>6, <2>4, <2>6, <2>8 DEF Write, Held, WriteFailed, PhaseInv, Running, Source
  <2>10. QED
    BY <2>5, <2>9 DEF TypeInv
<1>7. CASE CloseOutput
  <2>1. files' \in [File -> [exists : BOOLEAN, pieces : Seq(Piece)]]
    <3>1. CASE UNCHANGED files
      BY <3>1 DEF TypeOK
    <3>2. CASE OnDisk(buf)
      BY <3>2, OnDiskFacts DEF TypeOK
    <3>3. CASE \E s \in Remains(buf) : OnDisk(s)
      <4>1. PICK s \in Remains(buf) : OnDisk(s)
        BY <3>3
      <4>2. s \in Seq(Piece)
        BY RemainsIsCut DEF CutOf, TypeOK
      <4>3. QED
        BY <4>1, <4>2, OnDiskFacts
    <3>4. QED
      BY <1>7, <3>1, <3>2, <3>3 DEF CloseOutput
  <2>2. faults' \in 0 .. MaxFaults
    BY <1>7, BoundsAssumption DEF CloseOutput, Fault, TypeOK
  <2>3. QED
    BY <1>7, <2>1, <2>2 DEF CloseOutput, Return, TypeInv, TypeOK, PhaseInv, Running
<1>8. CASE Crash
  <2>1. faults' \in 0 .. MaxFaults
    BY <1>8, BoundsAssumption DEF Crash, Fault, TypeOK
  <2>2. QED
    BY <1>8, <2>1 DEF Crash, TypeInv, TypeOK, PhaseInv, Running
<1>9. CASE UNCHANGED vars
  BY <1>9 DEF vars, io, TypeInv, TypeOK, PhaseInv, Running, Input, Source
<1>10. QED
  BY <1>1, <1>2, <1>3, <1>4, <1>5, <1>6, <1>7, <1>8, <1>9 DEF Next, Client, Work, Done

(* Every variable keeps its type: no window of any size is ever negative,   *)
(* and every piece in a file, in the buffer or in hand is a real interval.  *)
THEOREM TypeCorrect == Spec => []TypeOK
<1>1. TypeInv => TypeOK
  BY DEF TypeInv
<1>2. QED
  BY TypeInvInit, TypeInvStep, <1>1, PTL DEF Spec

-----------------------------------------------------------------------------
(* What the steps of a running call do to its input and its output, stated  *)
(* once for the invariants below.                                           *)
LEMMA OutFacts ==
  ASSUME TypeOK
  PROVE  /\ Base \in Seq(Piece) /\ buf \in Seq(Piece) /\ chunk \in Seq(Piece)
         /\ buf \o chunk \in Seq(Piece)
         /\ Out \in Seq(Piece) /\ Out = Base \o (buf \o chunk)
         /\ chunk = << >> => Out = Base \o buf
         /\ buf = << >> /\ chunk = << >> => Out = Base
<1>1. Base \in Seq(Piece) /\ buf \in Seq(Piece) /\ chunk \in Seq(Piece)
  BY DEF TypeOK, Base
<1>2. Base \o buf \in Seq(Piece) /\ buf \o chunk \in Seq(Piece)
  BY <1>1, ConcatProperties
<1>3. Out \in Seq(Piece)
  BY <1>1, <1>2, ConcatProperties DEF Out, Base
<1>4. Out = Base \o (buf \o chunk)
  BY <1>1, ConcatAssociative DEF Out
<1>5. chunk = << >> => Out = Base \o buf
  BY <1>2, ConcatEmptySeq DEF Out, Base
<1>6. buf = << >> => Base \o buf = Base
  BY <1>1, ConcatEmptySeq
<1>7. QED
  BY <1>1, <1>2, <1>3, <1>4, <1>5, <1>6

LEMMA ReadFacts ==
  ASSUME TypeInv, ReadWindow
  PROVE  /\ UNCHANGED << files, call, buf, good, status >>
         /\ pc = "read" /\ pc' \in {"read", "write"} /\ ~eof /\ eof' = ShortRead
         /\ pos \in Nat /\ pos' = pos + Window /\ Window \in Nat
         /\ \/ Out' = Out /\ (lost' # 0 \/ (Window = 0 /\ lost' = lost))
            \/ /\ Window > 0
               /\ \E p \in Piece : Out' = Out \o << p >> /\ p.at = EndOf(Out) /\ Yields(p, pos, pos')
<1>1. TypeOK /\ PhaseInv /\ pc = "read" /\ chunk = << >> /\ buf \in Seq(Piece)
  BY DEF TypeInv, PhaseInv, ReadWindow, TypeOK
<1>2. pos \in Nat /\ Window \in Nat
  BY <1>1, WindowFacts
<1>3. Out = Base \o buf /\ Out \in Seq(Piece)
  BY <1>1, OutFacts
<1>4. EndOf(Out) \in Nat
  BY <1>3, EndOfNat
<1>5. Out' = (Base \o buf) \o chunk'
  BY DEF ReadWindow, Out, Base
<1>6. CASE chunk' = << >>
  <2>1. Out' = Out
    BY <1>3, <1>5, <1>6, ConcatEmptySeq
  <2>2. lost' # 0 \/ (Window = 0 /\ lost' = lost)
    <3>1. lost \in Nat
      BY <1>1 DEF TypeOK
    <3>2. lost' = lost + 1 \/ (Window = 0 /\ lost' = lost)
      <4>1. Missed(chunk') = 1
        BY <1>6 DEF Missed
      <4>2. QED
        BY <4>1 DEF ReadWindow
    <3>3. QED
      BY <3>1, <3>2
  <2>3. QED
    BY <1>1, <1>2, <2>1, <2>2 DEF ReadWindow
<1>7. CASE chunk' # << >>
  <2>1. Window > 0 /\ chunk' \in Ciphered(pos, pos + Window, EndOf(Out)) /\ pos' = pos + Window
    BY <1>1, <1>3, <1>7 DEF ReadWindow, Base
  <2>2. pos' \in Nat /\ pos < pos'
    BY <1>2, <2>1
  <2>3. \E p \in Piece : chunk' = << p >> /\ p.at = EndOf(Out) /\ Yields(p, pos, pos')
    BY <1>1, <1>2, <1>4, <1>7, <2>1, <2>2, CipheredFacts
  <2>4. QED
    BY <1>1, <1>2, <1>3, <1>5, <2>1, <2>3 DEF ReadWindow
<1>8. QED
  BY <1>6, <1>7

LEMMA WriteFacts ==
  ASSUME TypeInv, Write
  PROVE  /\ UNCHANGED << call, pos, eof, lost, status >> /\ pc = "write" /\ pc' = "read"
         /\ Input' = Input
         /\ \A f \in File \ {call.dst} : files'[f] = files[f]
         /\ good' => (good /\ Out' = Out)
         /\ \/ Base' = Base
            \/ good /\ Base' = Out
            \/ good /\ CutOf(Base', Out)
<1>1. TypeOK /\ PhaseInv /\ TypeOK'
  BY TypeInvStep DEF TypeInv, Next, Work
<1>2. Base \in Seq(Piece) /\ buf \o chunk \in Seq(Piece) /\ Out = Base \o (buf \o chunk)
  BY <1>1, OutFacts
<1>3. UNCHANGED << call, pos, eof, lost, status >> /\ pc = "write" /\ pc' = "read" /\ chunk' = << >>
  BY DEF Write, Held, WriteFailed
<1>4. Out' = Base' \o buf' /\ (buf' = << >> => Out' = Base') /\ Base' \in Seq(Piece)
  <2>1. Base' \in Seq(Piece) /\ buf' \in Seq(Piece)
    BY <1>1 DEF TypeOK, Base
  <2>2. Base' \o buf' \in Seq(Piece) /\ Out' = (Base' \o buf') \o << >>
    BY <1>3, <2>1, ConcatProperties DEF Out
  <2>3. Out' = Base' \o buf'
    BY <2>2, ConcatEmptySeq
  <2>4. QED
    BY <2>1, <2>3, ConcatEmptySeq
<1>5. CASE good /\ buf' = buf \o chunk /\ UNCHANGED << files, good >>
  <2>1. Base' = Base
    BY <1>3, <1>5 DEF Base
  <2>2. Out' = Out
    BY <1>2, <1>4, <1>5, <2>1
  <2>3. Input' = Input
    BY <1>3, <1>5 DEF Input, Source
  <2>4. QED
    BY <1>3, <1>5, <2>1, <2>2, <2>3
<1>6. CASE good /\ chunk # << >> /\ OnDisk(buf \o chunk) /\ buf' = << >>
  <2>1. Base' = Base \o (buf \o chunk) /\ \A f \in File \ {call.dst} : files'[f] = files[f]
    BY <1>1, <1>2, <1>3, <1>6, OnDiskFacts DEF Base
  <2>2. call.dst # Source /\ Source \in File
    BY <1>1, <1>3, <1>6 DEF PhaseInv, Running, Source, File
  <2>3. Input' = Input
    BY <1>3, <2>1, <2>2 DEF Input, Source
  <2>4. QED
    BY <1>2, <1>3, <1>4, <1>6, <2>1, <2>3
<1>7. CASE good /\ chunk # << >> /\ ~good' /\ \E s \in Remains(buf \o chunk) : OnDisk(s)
  <2>1. PICK s \in Remains(buf \o chunk) : OnDisk(s)
    BY <1>7
  <2>2. s \in Seq(Piece)
    BY <1>2, RemainsIsCut DEF CutOf
  <2>3. Base' = Base \o s /\ \A f \in File \ {call.dst} : files'[f] = files[f]
    BY <1>1, <1>3, <2>1, <2>2, OnDiskFacts DEF Base
  <2>4. CutOf(Base', Out)
    BY <1>2, <2>3, RemainsCut
  <2>5. call.dst # Source /\ Source \in File
    BY <1>1, <1>3, <1>7 DEF PhaseInv, Running, Source, File
  <2>6. Input' = Input
    BY <1>3, <2>3, <2>5 DEF Input, Source
  <2>7. QED
    BY <1>3, <1>7, <2>3, <2>4, <2>6
<1>8. CASE ~good /\ UNCHANGED << files, good >>
  BY <1>3, <1>8 DEF Base, Input, Source
<1>9. QED
  BY <1>5, <1>6, <1>7, <1>8 DEF Write, Held, WriteFailed

LEMMA CloseFacts ==
  ASSUME TypeInv, CloseOutput
  PROVE  /\ UNCHANGED << call, pos, eof, lost >> /\ pc = "read" /\ pc' = "idle" /\ eof
         /\ \A f \in File \ {call.dst} : files'[f] = files[f]
         /\ good' => (good /\ Base' = Out)
         /\ \/ ~good /\ Base' = Base
            \/ good /\ Base' = Out
            \/ good /\ CutOf(Base', Out)
<1>1. TypeOK /\ PhaseInv
  BY DEF TypeInv
<1>2. UNCHANGED << call, pos, eof, lost >> /\ pc = "read" /\ pc' = "idle" /\ eof
  BY DEF CloseOutput, Return
<1>3. Base \in Seq(Piece) /\ buf \in Seq(Piece) /\ Out = Base \o buf
  BY <1>1, <1>2, OutFacts DEF PhaseInv
<1>4. CASE good /\ OnDisk(buf)
  <2>1. Base' = Out /\ \A f \in File \ {call.dst} : files'[f] = files[f]
    BY <1>1, <1>2, <1>3, <1>4, OnDiskFacts DEF Base
  <2>2. QED
    BY <1>2, <1>4, <2>1
<1>5. CASE good /\ ~good' /\ \E s \in Remains(buf) : OnDisk(s)
  <2>1. PICK s \in Remains(buf) : OnDisk(s)
    BY <1>5
  <2>2. s \in Seq(Piece)
    BY <1>3, RemainsIsCut DEF CutOf
  <2>3. Base' = Base \o s /\ \A f \in File \ {call.dst} : files'[f] = files[f]
    BY <1>1, <1>2, <2>1, <2>2, OnDiskFacts DEF Base
  <2>4. CutOf(Base', Out)
    BY <1>3, <2>3, RemainsCut
  <2>5. QED
    BY <1>2, <1>5, <2>3, <2>4
<1>6. CASE ~good /\ UNCHANGED << files, good >>
  BY <1>2, <1>6 DEF Base
<1>7. QED
  BY <1>4, <1>5, <1>6 DEF CloseOutput

-----------------------------------------------------------------------------
(* Files stay laid out and ordered, through faults, crashes and torn writes. *)
FileInv == LayoutInv /\ OrderInv

LEMMA FileInvInit == Init => FileInv
<1> SUFFICES ASSUME Init PROVE FileInv
  OBVIOUS
<1>1. \A f \in File : files[f].pieces = << >>
                      \/ \E n \in Nat \ {0} : files[f].pieces = << Plain(0, n, 0) >>
  BY SizesAssumption DEF Init, PlainFile, Holding, Absent
<1>2. \A f \in File : LaidOut(files[f].pieces) /\ Ordered(files[f].pieces)
  <2> TAKE f \in File
  <2>1. CASE files[f].pieces = << >>
    BY <2>1 DEF LaidOut, Ordered
  <2>2. CASE \E n \in Nat \ {0} : files[f].pieces = << Plain(0, n, 0) >>
    <3>1. PICK n \in Nat \ {0} : files[f].pieces = << Plain(0, n, 0) >>
      BY <2>2
    <3>2. Len(files[f].pieces) = 1 /\ files[f].pieces[1].at = 0
      BY <3>1 DEF Plain
    <3>3. QED
      BY <3>2 DEF LaidOut, Ordered
  <2>3. QED
    BY <1>1, <2>1, <2>2
<1>3. ~Running
  BY DEF Init, Running
<1>4. QED
  BY <1>2, <1>3 DEF FileInv, LayoutInv, OrderInv, OutputOrdered

(* A step that lets one file become its old self, Out, or a cut of Out.     *)
LEMMA FilesKept ==
  ASSUME TypeInv, FileInv, call' = call, Running, Base' \in Seq(Piece),
         \A f \in File \ {call.dst} : files'[f] = files[f],
         \/ Base' = Base
         \/ good /\ Base' = Out
         \/ good /\ CutOf(Base', Out)
  PROVE  \A f \in File : LaidOut(files'[f].pieces) /\ Ordered(files'[f].pieces)
<1>1. call.dst \in File /\ Out \in Seq(Piece) /\ files'[call.dst].pieces = Base'
  BY OutFacts DEF TypeInv, TypeOK, Base
<1>2. LaidOut(Base) /\ Ordered(Base)
  BY <1>1 DEF FileInv, LayoutInv, OrderInv, OutputOrdered, Base
<1>3. good => LaidOut(Out) /\ Ordered(Out)
  BY DEF FileInv, LayoutInv, OrderInv
<1>4. LaidOut(Base') /\ Ordered(Base')
  <2>1. CASE Base' = Base
    BY <1>2, <2>1
  <2>2. CASE good /\ Base' = Out
    BY <1>3, <2>2
  <2>3. CASE good /\ CutOf(Base', Out)
    BY <1>1, <1>3, <2>3, CutKeeps
  <2>4. QED
    BY <2>1, <2>2, <2>3
<1>5. QED
  BY <1>1, <1>4 DEF FileInv, LayoutInv, OrderInv, OutputOrdered

(* Reading one window further.                                              *)
LEMMA FileInvRead ==
  ASSUME TypeInv, FileInv, ReadWindow
  PROVE  FileInv'
<1>1. TypeOK /\ PhaseInv /\ Running /\ Running'
  BY DEF TypeInv, ReadWindow, Running
<1>2. Out \in Seq(Piece) /\ Input \in Seq(Piece)
  BY <1>1, OutFacts DEF TypeOK, Input, Source, File
<1>3. pos \in Nat /\ pos' \in Nat /\ pos <= pos'
  BY ReadFacts
<1>4. UNCHANGED << files, call, good >> /\ Input' = Input /\ OutputOrdered'
  BY ReadFacts DEF Input, Source, FileInv, OrderInv, OutputOrdered
<1>5. \A i \in 1 .. Len(Out) : Out[i].to \in Nat
  BY <1>2, PieceFacts
<1>6. \A j \in 1 .. Len(Input) : Input[j].from \in Nat /\ Input[j].to \in Nat
                                 /\ Input[j].at \in Nat /\ PieceLen(Input[j]) \in Nat \ {0}
  BY <1>2, PieceFacts
<1>7. CASE Out' = Out
  BY <1>1, <1>3, <1>4, <1>5, <1>6, <1>7 DEF FileInv, LayoutInv, OrderInv
<1>8. CASE good /\ Window > 0 /\ Out' # Out
  <2>0. PICK p \in Piece : Out' = Out \o << p >> /\ p.at = EndOf(Out) /\ Yields(p, pos, pos')
    BY <1>8, ReadFacts
  <2>1. /\ Out' = Out \o << p >> /\ p.at = EndOf(Out)
        /\ call.fn = "encrypt" => p.from = pos /\ p.to = pos'
        /\ call.fn = "decrypt" /\ p.kind # "junk" =>
             \E i \in Whole(Input, pos, pos') :
               p.kind = "plain" /\ p.from = Input[i].from /\ p.to = Input[i].to
    BY <2>0 DEF Yields
  <2>2. LaidOut(Out) /\ Ordered(Out)
    BY <1>1, <1>8 DEF FileInv, LayoutInv, OrderInv
  <2>3. /\ LaidOut(Out') /\ Len(Out') = Len(Out) + 1 /\ Out'[Len(Out) + 1] = p
        /\ \A i \in 1 .. Len(Out) : Out'[i] = Out[i]
    BY <1>2, <2>1, <2>2, AppendPiece
  <2>4. p.from \in Nat /\ p.to \in Nat /\ Len(Out) \in Nat
    BY <1>2, PieceFacts
  <2>5. CASE call.fn = "encrypt"
    <3>1. \A i \in 1 .. Len(Out) : Out[i].kind # "junk" => Out[i].to <= pos
      BY <1>1, <1>8, <2>5 DEF FileInv, OrderInv
    <3>2. \A i \in 1 .. Len(Out') : Out'[i].kind # "junk" => Out'[i].to <= pos'
      BY <1>3, <1>5, <2>1, <2>3, <2>4, <2>5, <3>1
    <3>3. Ordered(Out')
      BY <2>1, <2>2, <2>3, <2>4, <2>5, <3>1 DEF Ordered
    <3>4. QED
      BY <1>1, <1>4, <2>3, <2>5, <3>2, <3>3 DEF FileInv, LayoutInv, OrderInv
  <2>6. CASE call.fn = "decrypt"
    <3>1. \A i \in 1 .. Len(Out), j \in 1 .. Len(Input) :
            Out[i].kind # "junk" /\ Input[j].kind # "junk" /\ Input[j].at >= pos
              => Out[i].to <= Input[j].from
      BY <1>1, <1>8, <2>6 DEF FileInv, OrderInv
    <3>2. LaidOut(Input) /\ Ordered(Input)
      BY DEF FileInv, LayoutInv, OrderInv, OutputOrdered, Input, Source, File
    <3>3. CASE p.kind = "junk"
      <4>1. Ordered(Out')
        BY <2>2, <2>3, <2>4, <3>3 DEF Ordered
      <4>2. \A i \in 1 .. Len(Out'), j \in 1 .. Len(Input) :
              Out'[i].kind # "junk" /\ Input[j].kind # "junk" /\ Input[j].at >= pos'
                => Out'[i].to <= Input[j].from
        <5> SUFFICES ASSUME NEW i \in 1 .. Len(Out) + 1, NEW j \in 1 .. Len(Input),
                            Out'[i].kind # "junk", Input[j].kind # "junk", Input[j].at >= pos'
                     PROVE  Out'[i].to <= Input[j].from
          BY <2>3
        <5>1. i \in 1 .. Len(Out) /\ Out'[i] = Out[i]
          BY <2>3, <2>4, <3>3
        <5>2. Input[j].at >= pos
          BY <1>3, <1>6
        <5>3. QED
          BY <3>1, <5>1, <5>2
      <4>3. QED
        BY <1>1, <1>4, <2>3, <2>6, <4>1, <4>2 DEF FileInv, LayoutInv, OrderInv
    <3>4. CASE p.kind # "junk"
      <4>1. PICK w \in Whole(Input, pos, pos') : p.from = Input[w].from /\ p.to = Input[w].to
        BY <2>1, <2>6, <3>4
      <4>2. /\ w \in 1 .. Len(Input) /\ Input[w].at = pos
            /\ Input[w].at + PieceLen(Input[w]) = pos' /\ Input[w].kind # "junk"
        BY DEF Whole, CipherOf
      <4>3. \A i \in 1 .. Len(Out) : Out[i].kind # "junk" => Out[i].to <= p.from
        BY <1>3, <3>1, <4>1, <4>2
      <4>4. Ordered(Out')
        BY <2>2, <2>3, <2>4, <4>3 DEF Ordered
      <4>5. \A j \in 1 .. Len(Input) :
              Input[j].kind # "junk" /\ Input[j].at >= pos' => p.to <= Input[j].from
        <5> SUFFICES ASSUME NEW j \in 1 .. Len(Input), Input[j].kind # "junk",
                            Input[j].at >= pos'
                     PROVE  Input[w].to <= Input[j].from
          BY <4>1
        <5>1. w < j
          <6>1. j < w => Input[j].at + PieceLen(Input[j]) <= Input[w].at
            BY <3>2, <4>2 DEF LaidOut
          <6>2. QED
            BY <1>3, <1>6, <4>2, <6>1
        <5>2. QED
          BY <3>2, <4>2, <5>1 DEF Ordered
      <4>6. \A i \in 1 .. Len(Out'), j \in 1 .. Len(Input) :
              Out'[i].kind # "junk" /\ Input[j].kind # "junk" /\ Input[j].at >= pos'
                => Out'[i].to <= Input[j].from
        <5> SUFFICES ASSUME NEW i \in 1 .. Len(Out) + 1, NEW j \in 1 .. Len(Input),
                            Out'[i].kind # "junk", Input[j].kind # "junk", Input[j].at >= pos'
                     PROVE  Out'[i].to <= Input[j].from
          BY <2>3
        <5>1. CASE i = Len(Out) + 1
          BY <2>3, <4>5, <5>1
        <5>2. CASE i \in 1 .. Len(Out)
          <6>1. Out'[i] = Out[i] /\ Input[j].at >= pos
            BY <1>3, <1>6, <2>3, <5>2
          <6>2. QED
            BY <3>1, <5>2, <6>1
        <5>3. QED
          BY <2>4, <5>1, <5>2
      <4>7. QED
        BY <1>1, <1>4, <2>3, <2>6, <4>4, <4>6 DEF FileInv, LayoutInv, OrderInv
    <3>5. QED
      BY <3>3, <3>4
  <2>7. QED
    BY <1>1, <2>5, <2>6 DEF TypeOK
<1>9. CASE ~good
  BY <1>4, <1>9 DEF FileInv, LayoutInv, OrderInv
<1>10. QED
  BY <1>7, <1>8, <1>9, ReadFacts

LEMMA FileInvStep == TypeInv /\ FileInv /\ [Next]_vars => FileInv'
<1> SUFFICES ASSUME TypeInv, FileInv, [Next]_vars PROVE FileInv'
  OBVIOUS
<1>0. TypeOK /\ PhaseInv /\ TypeOK' /\ PhaseInv'
  BY TypeInvStep DEF TypeInv
<1>1. ASSUME UNCHANGED files, ~(Running' /\ good') PROVE FileInv'
  BY <1>1 DEF FileInv, LayoutInv, OrderInv, OutputOrdered
<1>2. CASE Client \/ OpenInput \/ Crash
  <2>1. UNCHANGED files /\ ~Running'
    BY <1>2 DEF Client, Call, OpenInput, Return, Crash, Running
  <2>2. QED
    BY <1>1, <2>1
<1>3. CASE CreateOutput
  <2>1. CASE good'
    <3>1. files' = [files EXCEPT ![call.dst] = Holding(<< >>)] /\ call' = call
      BY <1>3, <2>1 DEF CreateOutput
    <3>2. Base' = << >> /\ buf' = << >> /\ chunk' = << >>
      BY <1>0, <1>3, <3>1 DEF CreateOutput, PhaseInv, Running, Base, Holding, TypeOK
    <3>3. Out' = << >>
      BY <3>2, ConcatEmptySeq DEF Out
    <3>4. LaidOut(<< >>) /\ Ordered(<< >>)
      BY DEF LaidOut, Ordered
    <3>5. \A f \in File : files'[f] = files[f] \/ files'[f].pieces = << >>
      BY <1>0, <3>1 DEF Holding, TypeOK
    <3>6. \A f \in File : LaidOut(files'[f].pieces) /\ Ordered(files'[f].pieces)
      BY <3>4, <3>5 DEF FileInv, LayoutInv, OrderInv, OutputOrdered
    <3>7. QED
      BY <3>3, <3>4, <3>6 DEF FileInv, LayoutInv, OrderInv, OutputOrdered
  <2>2. CASE ~good'
    <3>1. UNCHANGED files
      BY <1>3, <2>2, <1>0 DEF CreateOutput, PhaseInv, TypeOK
    <3>2. QED
      BY <1>1, <2>2, <3>1
  <2>3. QED
    BY <2>1, <2>2
<1>4. CASE ReadWindow
  BY <1>4, FileInvRead
<1>5. CASE ReadError
  <2>1. UNCHANGED << files, call, pc, pos, chunk, buf, good >>
    BY <1>5 DEF ReadError
  <2>2. QED
    BY <2>1 DEF FileInv, LayoutInv, OrderInv, OutputOrdered, Running, Out, Base, Input, Source
<1>6. CASE Write
  <2>1. Running /\ Base' \in Seq(Piece)
    BY <1>0, <1>6 DEF Write, WriteFailed, Running, TypeOK, Base
  <2>2. \A f \in File : LaidOut(files'[f].pieces) /\ Ordered(files'[f].pieces)
    BY <1>6, <2>1, WriteFacts, FilesKept
  <2>3. UNCHANGED << call, pos >> /\ Input' = Input /\ (good' => good /\ Out' = Out)
    BY <1>6, WriteFacts
  <2>4. QED
    BY <2>1, <2>2, <2>3 DEF FileInv, LayoutInv, OrderInv, OutputOrdered
<1>7. CASE CloseOutput
  <2>1. Running /\ ~Running' /\ Base' \in Seq(Piece)
    BY <1>0, <1>7 DEF CloseOutput, Return, Running, TypeOK, Base
  <2>2. \A f \in File : LaidOut(files'[f].pieces) /\ Ordered(files'[f].pieces)
    BY <1>7, <2>1, CloseFacts, FilesKept
  <2>3. QED
    BY <2>1, <2>2 DEF FileInv, LayoutInv, OrderInv, OutputOrdered
<1>8. CASE UNCHANGED vars
  BY <1>8 DEF vars, io, FileInv, LayoutInv, OrderInv, OutputOrdered, Running, Out, Base,
              Input, Source
<1>9. QED
  BY <1>2, <1>3, <1>4, <1>5, <1>6, <1>7, <1>8 DEF Next, Work, Done

(* No file ever holds input bytes twice or out of order: for all files,     *)
(* windows, modes and keys, whatever fails and wherever a call dies.        *)
THEOREM OutputAlwaysOrdered == Spec => []OutputOrdered
<1>1. FileInv => OutputOrdered
  BY DEF FileInv, OrderInv
<1>2. QED
  BY TypeInvInit, TypeInvStep, FileInvInit, FileInvStep, <1>1, PTL DEF Spec

-----------------------------------------------------------------------------
(* encrypt: the output tiles the input.                                     *)
LEMMA EnciphermentRead ==
  ASSUME TypeInv, Enciphered, ReadWindow, call.fn = "encrypt", lost' = 0, lost = 0
  PROVE  Enciphered'
<1>1. TypeOK /\ PhaseInv /\ pc = "read" /\ eof = FALSE
  BY DEF TypeInv, ReadWindow, TypeOK
<1>2. Out \in Seq(Piece) /\ \A i \in 1 .. Len(Out) : Out[i].from \in Nat /\ Out[i].to \in Nat
  BY <1>1, OutFacts, PieceFacts
<1>3. /\ pos \in Nat /\ Window \in Nat /\ call.size \in Nat /\ Window <= call.size
      /\ Window < call.size => pos + Window = EndOf(Input)
  BY <1>1, WindowFacts DEF Window
<1>4. /\ UNCHANGED << files, call >> /\ pos' = pos + Window /\ eof' = ShortRead
      /\ Input' = Input
  BY ReadFacts DEF Input, Source
<1>5. eof' => pos' = EndOf(Input')
  BY <1>3, <1>4 DEF ShortRead
<1>6. CASE Out' = Out /\ Window = 0
  BY <1>1, <1>3, <1>4, <1>5, <1>6 DEF Enciphered
<1>7. CASE Window > 0 /\ \E p \in Piece : Out' = Out \o << p >> /\ Yields(p, pos, pos')
  <2>0. PICK p \in Piece : Out' = Out \o << p >> /\ Yields(p, pos, pos')
    BY <1>7
  <2>1. /\ Out' = Out \o << p >>
        /\ p.kind = CipherOf(call.mode) /\ p.key = call.key /\ p.from = pos /\ p.to = pos'
    BY <2>0 DEF Yields
  <2>2. << p >> \in Seq(Piece) /\ Len(<< p >>) = 1 /\ << p >>[1] = p
    OBVIOUS
  <2>3. /\ Len(Out') = Len(Out) + 1 /\ Out'[Len(Out) + 1] = p
        /\ \A i \in 1 .. Len(Out) : Out'[i] = Out[i]
    BY <1>2, <2>1, <2>2, ConcatProperties
  <2>4. Len(Out) \in Nat /\ Out' # << >>
    BY <1>2, <2>3
  <2>5. \A i \in 1 .. Len(Out) : Out[i].to - Out[i].from = call.size
    BY <1>1 DEF Enciphered
  <2>6. Upto(Out') = pos'
    BY <2>1, <2>3, <2>4 DEF Upto
  <2>7. Tiled(Out')
    <3>1. Out'[1].from = 0
      <4>1. CASE Out = << >>
        BY <2>1, <2>3, <4>1 DEF Enciphered, Upto
      <4>2. CASE Out # << >>
        <5>1. 1 \in 1 .. Len(Out)
          BY <1>2, <4>2
        <5>2. QED
          BY <2>3, <4>2, <5>1 DEF Enciphered, Tiled
      <4>3. QED
        BY <4>1, <4>2
    <3>2. ASSUME NEW i \in 1 .. Len(Out) PROVE Out'[i + 1].from = Out'[i].to
      <4>1. CASE i = Len(Out)
        <5>1. Out # << >> /\ Out[Len(Out)].to = pos
          BY <4>1 DEF Enciphered, Upto
        <5>2. QED
          BY <2>1, <2>3, <4>1, <5>1
      <4>2. CASE i \in 1 .. Len(Out) - 1
        <5>1. i + 1 \in 1 .. Len(Out)
          BY <2>4, <4>2
        <5>2. QED
          BY <2>3, <4>2, <5>1 DEF Enciphered, Tiled
      <4>3. QED
        BY <2>4, <4>1, <4>2
    <3>3. QED
      BY <2>3, <2>4, <3>1, <3>2 DEF Tiled
  <2>8. p.to - p.from = Window
    BY <1>3, <1>4, <2>1
  <2>9. \A i \in 1 .. Len(Out) :
          Out[i].kind = CipherOf(call.mode) /\ Out[i].key = call.key
          /\ Out[i].to - Out[i].from \in 1 .. call.size
    BY DEF Enciphered, Uniform
  <2>10. Uniform(Out', CipherOf(call.mode), call.key, call.size)
    <3>1. ASSUME NEW i \in 1 .. Len(Out) + 1
          PROVE  /\ Out'[i].kind = CipherOf(call.mode) /\ Out'[i].key = call.key
                 /\ Out'[i].to - Out'[i].from \in 1 .. call.size
      <4>1. CASE i = Len(Out) + 1
        BY <1>3, <1>7, <2>1, <2>3, <2>8, <4>1
      <4>2. CASE i \in 1 .. Len(Out)
        BY <2>3, <2>9, <4>2
      <4>3. QED
        BY <2>4, <4>1, <4>2
    <3>2. \A i \in 1 .. Len(Out') - 1 : Out'[i].to - Out'[i].from = call.size
      BY <2>3, <2>4, <2>5
    <3>3. QED
      BY <2>3, <3>1, <3>2 DEF Uniform
  <2>11. ~eof' => \A i \in 1 .. Len(Out') : Out'[i].to - Out'[i].from = call.size
    <3> SUFFICES ASSUME ~eof', NEW i \in 1 .. Len(Out) + 1
                 PROVE  Out'[i].to - Out'[i].from = call.size
      BY <2>3
    <3>1. Window = call.size
      <4>1. ~ShortRead
        BY <1>4
      <4>2. QED
        BY <1>3, <4>1 DEF ShortRead
    <3>2. CASE i = Len(Out) + 1
      BY <2>3, <2>8, <3>1, <3>2
    <3>3. CASE i \in 1 .. Len(Out)
      BY <2>3, <2>5, <3>3
    <3>4. QED
      BY <2>4, <3>2, <3>3
  <2>12. QED
    BY <1>4, <1>5, <2>6, <2>7, <2>10, <2>11 DEF Enciphered
<1>8. QED
  BY <1>6, <1>7, ReadFacts

LEMMA EncryptInvStep == TypeInv /\ FileInv /\ EncryptInv /\ [Next]_vars => EncryptInv'
<1> SUFFICES ASSUME TypeInv, FileInv, EncryptInv, [Next]_vars PROVE EncryptInv'
  OBVIOUS
<1>0. TypeOK /\ PhaseInv /\ TypeOK' /\ PhaseInv'
  BY TypeInvStep DEF TypeInv
<1>1. CASE Client \/ OpenInput \/ Crash
  <2>1. ~Running' /\ (pc' = "idle" => status' # 1)
    BY <1>0, <1>1 DEF Client, Call, OpenInput, Return, Crash, Running, PhaseInv
  <2>2. QED
    BY <2>1 DEF EncryptInv, EncryptComplete, Returned
<1>2. CASE CreateOutput
  <2>1. pc' = "read" /\ pos' = 0 /\ eof' = FALSE /\ chunk' = << >> /\ buf' = << >> /\ UNCHANGED call
    BY <1>0, <1>2 DEF CreateOutput, PhaseInv, Running
  <2>2. ASSUME good' PROVE Enciphered'
    <3>1. Base' = << >>
      BY <1>0, <1>2, <2>2 DEF CreateOutput, PhaseInv, TypeOK, Base, Holding
    <3>2. Out' = << >>
      BY <2>1, <3>1, ConcatEmptySeq DEF Out
    <3>3. QED
      BY <2>1, <3>2 DEF Enciphered, Tiled, Upto, Uniform
  <2>3. QED
    BY <2>1, <2>2 DEF EncryptInv, EncryptComplete, Returned, Unhurt
<1>3. CASE ReadWindow
  <2>1. UNCHANGED << call, good >> /\ Running /\ pc' # "idle"
    BY <1>3, ReadFacts DEF Running
  <2>2. lost' = 0 => lost = 0
    BY <1>0, <1>3 DEF ReadWindow, TypeOK, Missed
  <2>3. Unhurt' => Unhurt
    BY <2>1, <2>2 DEF Unhurt, Source
  <2>4. ASSUME Unhurt', call.fn = "encrypt" PROVE Enciphered'
    BY <1>3, <2>1, <2>3, <2>4, EnciphermentRead DEF Unhurt, EncryptInv
  <2>5. QED
    BY <2>1, <2>4 DEF EncryptInv, EncryptComplete, Returned
<1>4. CASE ReadError
  <2>1. lost' # 0 /\ pc' = "read"
    BY <1>0, <1>4 DEF ReadError, TypeOK
  <2>2. QED
    BY <2>1 DEF EncryptInv, EncryptComplete, Returned, Unhurt
<1>5. CASE Write
  <2>1. UNCHANGED << call, pos, eof, lost >> /\ Running /\ pc' = "read" /\ Input' = Input
        /\ (good' => (good /\ Out' = Out))
    BY <1>5, WriteFacts DEF Running
  <2>2. QED
    BY <2>1 DEF EncryptInv, EncryptComplete, Returned, Unhurt, Source, Enciphered
<1>6. CASE CloseOutput
  <2>1. /\ UNCHANGED << call, lost, pos, eof >> /\ Running /\ pc' = "idle" /\ eof
        /\ \A f \in File \ {call.dst} : files'[f] = files[f]
        /\ good' => (good /\ Base' = Out)
    BY <1>6, CloseFacts DEF Running
  <2>2. ASSUME Returned("encrypt")', Unhurt'
        PROVE  /\ Tiled(files'["enc"].pieces)
               /\ Upto(files'["enc"].pieces) = EndOf(files'["plain"].pieces)
               /\ Uniform(files'["enc"].pieces, CipherOf(call'.mode), call'.key, call'.size)
    <3>1. Unhurt /\ call.fn = "encrypt" /\ Base' = Out
      BY <2>1, <2>2 DEF Returned, Unhurt, Source
    <3>2. Enciphered
      BY <2>1, <3>1 DEF EncryptInv
    <3>3. call.dst = "enc" /\ Source = "plain"
      BY <1>0, <2>1, <3>1 DEF Unhurt, Source, PhaseInv, Running, Targets
    <3>4. files'["enc"].pieces = Out /\ files'["plain"] = files["plain"]
      BY <2>1, <3>1, <3>3 DEF Base, File
    <3>5. pos = EndOf(files["plain"].pieces)
      BY <2>1, <3>2, <3>3 DEF Enciphered, Input
    <3>6. QED
      BY <2>1, <3>2, <3>4, <3>5 DEF Enciphered
  <2>3. QED
    BY <2>1, <2>2 DEF EncryptInv, EncryptComplete, Running
<1>7. CASE UNCHANGED vars
  BY <1>7 DEF vars, io, EncryptInv, EncryptComplete, Enciphered, Returned, Unhurt, Running,
              Out, Base, Input, Source
<1>8. QED
  BY <1>1, <1>2, <1>3, <1>4, <1>5, <1>6, <1>7 DEF Next, Work, Done

(* When encrypt returns 1 and nothing failed behind its back, enc holds all *)
(* of plain, once and in order, in segments of chunk_size bytes.            *)
THEOREM EncryptIsComplete == Spec => []EncryptComplete
<1>1. Init => EncryptInv
  BY DEF Init, EncryptInv, EncryptComplete, Returned, Running
<1>2. EncryptInv => EncryptComplete
  BY DEF EncryptInv
<1>3. QED
  BY TypeInvInit, TypeInvStep, FileInvInit, FileInvStep, EncryptInvStep, <1>1, <1>2, PTL
     DEF Spec

-----------------------------------------------------------------------------
(* encrypt: what a failure at the close leaves.                             *)
TailOnly(s) ==
  LET n == IF s # << >> /\ s[Len(s)].kind = "junk" THEN Len(s) - 1 ELSE Len(s)
  IN  Tiled(SubSeq(s, 1, n)) /\ \A i \in 1 .. n : s[i].kind # "junk"

LEMMA CutTiles ==
  ASSUME NEW s \in Seq(Piece), NEW t, CutOf(t, s), Tiled(s),
         \A i \in 1 .. Len(s) : s[i].kind # "junk"
  PROVE  TailOnly(t)
<1> DEFINE n == IF t # << >> /\ t[Len(t)].kind = "junk" THEN Len(t) - 1 ELSE Len(t)
           u == SubSeq(t, 1, n)
<1>1. t \in Seq(Piece) /\ Len(t) \in Nat /\ Len(t) <= Len(s) /\ (t # << >> => Len(t) > 0)
  BY DEF CutOf
<1>2. n \in 0 .. Len(t)
  BY <1>1
<1>3. \A i \in 1 .. n : t[i] = s[i]
  BY <1>1, <1>2 DEF CutOf
<1>4. u \in Seq(Piece) /\ Len(u) = n /\ \A i \in 1 .. n : u[i] = t[i]
  <2>1. \A i \in 1 .. n : t[i] \in Piece
    BY <1>1, <1>2
  <2> HIDE DEF n
  <2> QED
    BY <1>2, <2>1, SubSeqProperties
<1> HIDE DEF n, u
<1>5. Tiled(u)
  <2>1. u # << >> => u[1].from = 0
    BY <1>1, <1>2, <1>3, <1>4 DEF Tiled
  <2>2. \A i \in 1 .. n - 1 : u[i + 1].from = u[i].to
    BY <1>1, <1>2, <1>3, <1>4 DEF Tiled
  <2> QED
    BY <1>4, <2>1, <2>2 DEF Tiled
<1>6. \A i \in 1 .. n : t[i].kind # "junk"
  BY <1>1, <1>2, <1>3
<1> QED
  BY <1>5, <1>6 DEF TailOnly, n, u

(* A call whose output could not be opened, or not be written, and that     *)
(* does not know it yet, has not come past its first window.                *)
TailInv ==
  /\ OnlyTailMissing
  /\ Running /\ call.fn = "encrypt" /\ lost = 0 /\ ~good /\ isOk /\ EndOf(Input) > 0 /\ pc = "read"
       => pos = 0 /\ ~eof

LEMMA TailInvStep ==
  TypeInv /\ FileInv /\ EncryptInv /\ TailInv /\ [Next]_vars => TailInv'
<1> SUFFICES ASSUME TypeInv, FileInv, EncryptInv, TailInv, [Next]_vars PROVE TailInv'
  OBVIOUS
<1>0. TypeOK /\ PhaseInv /\ TypeOK' /\ PhaseInv'
  BY TypeInvStep DEF TypeInv
<1>1. CASE Client \/ OpenInput \/ Crash
  <2>1. ~Running' /\ (pc' = "idle" => status' # 1)
    BY <1>0, <1>1 DEF Client, Call, OpenInput, Return, Crash, Running, PhaseInv
  <2>2. QED
    BY <2>1 DEF TailInv, OnlyTailMissing, Returned
<1>2. CASE CreateOutput
  <2>1. pc' = "read" /\ pos' = 0 /\ eof' = FALSE
    BY <1>0, <1>2 DEF CreateOutput, PhaseInv, Running
  <2>2. QED
    BY <2>1 DEF TailInv, OnlyTailMissing, Returned
<1>3. CASE ReadWindow
  <2>1. UNCHANGED << call, good, isOk >> /\ Running /\ pc = "read" /\ pc' # "idle" /\ Input' = Input
    BY <1>3, ReadFacts DEF Running, ReadWindow, Input, Source
  <2>2. lost' = 0 => lost = 0
    BY <1>0, <1>3 DEF ReadWindow, TypeOK, Missed
  <2>3. ASSUME lost' = 0, call.fn = "encrypt", ~good, isOk, EndOf(Input) > 0, pc' = "read"
        PROVE  pos' = 0 /\ ~eof'
    <3>1. pos = 0 /\ ~eof
      BY <2>1, <2>2, <2>3 DEF TailInv
    <3>2. Window = 0 /\ pos' = pos + Window /\ eof' = ShortRead
      BY <1>3, <2>3 DEF ReadWindow
    <3>3. EndOf(Input) \in Nat /\ call.size \in Nat
      BY <1>0, <2>1, WindowFacts
    <3>4. call.size = 0
      BY <2>3, <3>1, <3>2, <3>3 DEF Window
    <3>5. ~ShortRead
      BY <3>2, <3>4 DEF ShortRead
    <3>6. pos' = 0
      BY <3>1, <3>2
    <3>7. QED
      BY <3>2, <3>5, <3>6
  <2>4. QED
    BY <2>1, <2>3 DEF TailInv, OnlyTailMissing, Returned
<1>4. CASE ReadError
  <2>1. lost' # 0 /\ pc' = "read"
    BY <1>0, <1>4 DEF ReadError, TypeOK
  <2>2. QED
    BY <2>1 DEF TailInv, OnlyTailMissing, Returned
<1>5. CASE Write
  <2>1. pc' = "read" /\ (good' \/ ~isOk')
    BY <1>5 DEF Write, WriteFailed
  <2>2. QED
    BY <2>1 DEF TailInv, OnlyTailMissing, Returned
<1>6. CASE CloseOutput
  <2>1. /\ UNCHANGED << call, lost >> /\ Running /\ pc = "read" /\ pc' = "idle" /\ eof
        /\ \A f \in File \ {call.dst} : files'[f] = files[f]
        /\ good => (Base' = Out \/ CutOf(Base', Out))
    BY <1>6, CloseFacts DEF Running
  <2>2. ASSUME Returned("encrypt")', lost' = 0, (call.dst # Source)', EndOf(files'["plain"].pieces) > 0
        PROVE  TailOnly(files'["enc"].pieces)
    <3>1. call.fn = "encrypt" /\ call.dst # Source /\ lost = 0 /\ isOk
      BY <1>6, <2>1, <2>2 DEF Returned, Source, CloseOutput, Return
    <3>2. call.dst = "enc" /\ Source = "plain"
      BY <1>0, <2>1, <3>1 DEF Source, PhaseInv, Running, Targets
    <3>3. files'["enc"].pieces = Base' /\ EndOf(Input) > 0
      BY <2>1, <2>2, <3>2 DEF Base, File, Input
    <3>4. good
      BY <2>1, <3>1, <3>3 DEF TailInv
    <3>5. Enciphered
      BY <2>1, <3>1, <3>4 DEF EncryptInv, Unhurt
    <3>6. Tiled(Out) /\ \A i \in 1 .. Len(Out) : Out[i].kind # "junk"
      BY <3>5 DEF Enciphered, Uniform, CipherOf
    <3>7. Out \in Seq(Piece)
      BY <1>0, OutFacts
    <3>8. CutOf(Out, Out)
      BY <3>7 DEF CutOf
    <3>9. QED
      BY <2>1, <3>3, <3>4, <3>6, <3>7, <3>8, CutTiles
  <2>3. QED
    BY <2>1, <2>2 DEF TailInv, OnlyTailMissing, TailOnly, Running
<1>7. CASE UNCHANGED vars
  BY <1>7 DEF vars, io, TailInv, OnlyTailMissing, Returned, Running, Input, Source
<1>8. QED
  BY <1>1, <1>2, <1>3, <1>4, <1>5, <1>6, <1>7 DEF Next, Work, Done

(* When encrypt returns 1 although closing its output failed, enc is what   *)
(* it should be but for its end: whole segments, once and in order, and at  *)
(* most one torn one behind them.                                           *)
THEOREM ClosingCutsTheTail == Spec => []OnlyTailMissing
<1>1. Init => EncryptInv
  BY DEF Init, EncryptInv, EncryptComplete, Returned, Running
<1>2. Init => TailInv
  BY DEF Init, TailInv, OnlyTailMissing, Returned, Running
<1>3. TailInv => OnlyTailMissing
  BY DEF TailInv
<1>4. QED
  BY TypeInvInit, TypeInvStep, FileInvInit, FileInvStep, EncryptInvStep, TailInvStep,
     <1>1, <1>2, <1>3, PTL DEF Spec

-----------------------------------------------------------------------------
(* decrypt with matching windows: window after window is the next segment.  *)
LEMMA NextSegment ==
  ASSUME TypeInv, FileInv, NEW size \in ChunkSizes, Matching(size), call.fn = "decrypt",
         pc = "read", NEW k \in Nat, k < Len(Input), pos = Input[k + 1].at
  PROVE  /\ Input \in Seq(Piece)
         /\ Whole(Input, pos, pos + Window) = {k + 1}
         /\ Window > 0
         /\ k + 1 < Len(Input) => /\ Window = call.size
                                  /\ Input[k + 2].at = pos + Window
         /\ k + 1 = Len(Input) => pos + Window = EndOf(Input)
<1>1. TypeOK /\ PhaseInv /\ Input = files["enc"].pieces
  BY DEF TypeInv, Input, Source
<1>2. Input \in Seq(Piece) /\ LaidOut(Input)
  BY <1>1 DEF TypeOK, File, FileInv, LayoutInv
<1>3. k + 1 \in 1 .. Len(Input) /\ Len(Input) \in Nat
  BY <1>2
<1>4. \A i \in 1 .. Len(Input) :
        /\ PieceLen(Input[i]) \in Nat \ {0} /\ Input[i].at \in Nat
        /\ Input[i].from \in Nat /\ Input[i].to \in Nat
  BY <1>2, PieceFacts
<1>5. size \in Nat /\ CipherOf(call.mode) \in Kinds /\ call.size = SegLen(CipherOf(call.mode), size)
  BY SizesAssumption DEF CipherOf, Kinds, Matching
<1>6. /\ Input[k + 1].kind = CipherOf(call.mode) /\ Input[k + 1].key = call.key
      /\ Input[k + 1].to - Input[k + 1].from \in 1 .. size
      /\ k + 1 < Len(Input) => Input[k + 1].to - Input[k + 1].from = size
  BY <1>1, <1>3, SMTT(30) DEF Matching, Uniform
<1>7. /\ PieceLen(Input[k + 1]) <= call.size
      /\ k + 1 < Len(Input) => PieceLen(Input[k + 1]) = call.size
  <2> DEFINE n == Input[k + 1].to - Input[k + 1].from
  <2>1. n \in Nat /\ n <= size
    BY <1>5, <1>6
  <2>2. PieceLen(Input[k + 1]) = SegLen(CipherOf(call.mode), n)
    BY <1>6 DEF PieceLen
  <2>3. SegLen(CipherOf(call.mode), n) <= SegLen(CipherOf(call.mode), size)
    BY <1>5, <2>1, SegLenFacts
  <2>4. QED
    BY <1>5, <1>6, <2>2, <2>3
<1>8. pos + PieceLen(Input[k + 1]) <= EndOf(Input)
  BY <1>2, <1>3, WithinFile
<1>9. k + 1 < Len(Input) => Input[k + 2].at = pos + PieceLen(Input[k + 1])
  BY <1>2, <1>3 DEF LaidOut
<1>10. k + 1 = Len(Input) => EndOf(Input) = pos + PieceLen(Input[k + 1])
  BY <1>2, <1>3 DEF EndOf
<1>11. EndOf(Input) \in Nat /\ call.size \in Nat
  BY <1>1, WindowFacts
<1>12. Window = PieceLen(Input[k + 1])
  <2>1. CASE k + 1 < Len(Input)
    BY <1>3, <1>4, <1>7, <1>8, <1>11, <2>1 DEF Window
  <2>2. CASE k + 1 = Len(Input)
    BY <1>3, <1>4, <1>7, <1>10, <1>11, <2>2 DEF Window
  <2>3. QED
    BY <1>3, <2>1, <2>2
<1>13. k + 1 \in Whole(Input, pos, pos + Window)
  BY <1>3, <1>6, <1>12 DEF Whole
<1>14. ASSUME NEW i \in Whole(Input, pos, pos + Window) PROVE i = k + 1
  <2>1. i \in 1 .. Len(Input) /\ Input[i].at = pos
    BY DEF Whole
  <2>2. i < k + 1 => Input[i].at + PieceLen(Input[i]) <= Input[k + 1].at
    BY <1>2, <1>3, <2>1 DEF LaidOut
  <2>3. k + 1 < i => Input[k + 1].at + PieceLen(Input[k + 1]) <= Input[i].at
    BY <1>2, <1>3, <2>1 DEF LaidOut
  <2>4. ~(i < k + 1) /\ ~(k + 1 < i)
    BY <1>3, <1>4, <2>1, <2>2, <2>3
  <2>5. QED
    BY <1>3, <2>1, <2>4
<1>15. QED
  BY <1>2, <1>3, <1>4, <1>7, <1>9, <1>10, <1>12, <1>13, <1>14

LEMMA DeciphermentRead ==
  ASSUME TypeInv, FileInv, NEW size \in ChunkSizes, Matching(size), call.fn = "decrypt",
         Deciphered, ReadWindow, lost' = 0, lost = 0
  PROVE  Deciphered'
<1>1. TypeOK /\ PhaseInv /\ pc = "read" /\ eof = FALSE /\ Input = files["enc"].pieces
  BY DEF TypeInv, ReadWindow, TypeOK, Input, Source
<1>2. Out \in Seq(Piece) /\ Input \in Seq(Piece) /\ Len(Out) \in Nat /\ Len(Input) \in Nat
      /\ Len(Out) <= Len(Input)
  BY <1>1, OutFacts DEF TypeOK, File, Deciphered, Restored
<1>3. /\ UNCHANGED << files, call >> /\ pos' = pos + Window /\ eof' = ShortRead
      /\ Input' = Input /\ pos \in Nat /\ Window \in Nat
  BY ReadFacts DEF Input, Source
<1>4. call.size \in Nat /\ Window <= call.size /\ call.size > 0
  <2>1. size \in Nat /\ CipherOf(call.mode) \in {"cbc", "gcm"}
    BY SizesAssumption DEF CipherOf
  <2>2. call.size > 0
    BY <2>1 DEF Matching, SegLen, AES_BLOCK_SIZE
  <2>3. QED
    BY <1>1, <2>2, WindowFacts DEF Window
<1>5. CASE Len(Out) = Len(Input)
  <2>1. Window = 0
    <3>1. pos = EndOf(Input)
      BY <1>2, <1>5 DEF Deciphered
    <3>2. EndOf(Input) - pos = 0
      BY <1>3, <3>1
    <3>3. QED
      BY <1>4, <3>2 DEF Window
  <2>2. Out' = Out
    BY <2>1, ReadFacts
  <2>3. QED
    BY <1>2, <1>3, <1>5, <2>1, <2>2 DEF Deciphered, Restored
<1>6. CASE Len(Out) < Len(Input)
  <2> DEFINE k == Len(Out)
  <2>1. pos = Input[k + 1].at
    BY <1>6 DEF Deciphered
  <2>2. /\ Whole(Input, pos, pos') = {k + 1} /\ Window > 0
        /\ k + 1 < Len(Input) => Window = call.size /\ Input[k + 2].at = pos'
        /\ k + 1 = Len(Input) => pos' = EndOf(Input)
    BY <1>1, <1>2, <1>3, <1>6, <2>1, NextSegment
  <2>3. PICK p \in Piece : Out' = Out \o << p >> /\ Yields(p, pos, pos')
    <3>1. Window # 0
      BY <1>3, <2>2
    <3>2. QED
      BY <3>1, ReadFacts
  <2>4. p.kind = "plain" /\ p.from = Input[k + 1].from /\ p.to = Input[k + 1].to
    BY <2>2, <2>3 DEF Yields
  <2>5. << p >> \in Seq(Piece) /\ Len(<< p >>) = 1 /\ << p >>[1] = p
    OBVIOUS
  <2>6. /\ Len(Out') = k + 1 /\ Out'[k + 1] = p
        /\ \A i \in 1 .. k : Out'[i] = Out[i]
    BY <1>2, <2>3, <2>5, ConcatProperties
  <2>7. ASSUME NEW i \in 1 .. k + 1
        PROVE  Out'[i].kind = "plain" /\ Out'[i].from = Input[i].from /\ Out'[i].to = Input[i].to
    <3>1. CASE i = k + 1
      BY <2>4, <2>6, <3>1
    <3>2. CASE i \in 1 .. k
      BY <1>1, <2>6, <3>2 DEF Deciphered, Restored
    <3>3. QED
      BY <1>2, <3>1, <3>2
  <2>8. Restored(Out)'
    BY <1>1, <1>2, <1>3, <1>6, <2>6, <2>7 DEF Restored
  <2>9. pos' = IF Len(Out') < Len(Input') THEN Input'[Len(Out') + 1].at ELSE EndOf(Input')
    BY <1>2, <1>3, <1>6, <2>2, <2>6
  <2>10. eof' => Len(Out') = Len(Input')
    <3>1. CASE k + 1 < Len(Input)
      <4>1. ~ShortRead
        BY <1>4, <2>2, <3>1 DEF ShortRead
      <4>2. QED
        BY <1>3, <4>1
    <3>2. CASE k + 1 = Len(Input)
      BY <1>3, <2>6, <3>2
    <3>3. QED
      BY <1>2, <1>6, <3>1, <3>2
  <2>11. QED
    BY <2>8, <2>9, <2>10 DEF Deciphered
<1>7. QED
  BY <1>2, <1>5, <1>6

LEMMA DecryptInvStep == TypeInv /\ FileInv /\ DecryptInv /\ [Next]_vars => DecryptInv'
<1> SUFFICES ASSUME TypeInv, FileInv, DecryptInv, [Next]_vars PROVE DecryptInv'
  OBVIOUS
<1>0. TypeOK /\ PhaseInv /\ TypeOK' /\ PhaseInv'
  BY TypeInvStep DEF TypeInv
<1>1. CASE Client \/ OpenInput \/ Crash
  <2>1. ~Running' /\ (pc' = "idle" => status' # 1)
    BY <1>0, <1>1 DEF Client, Call, OpenInput, Return, Crash, Running, PhaseInv
  <2>2. QED
    BY <2>1 DEF DecryptInv, Returned
<1>2. CASE CreateOutput
  <2>1. pc' = "read" /\ pos' = 0 /\ eof' = FALSE /\ chunk' = << >> /\ buf' = << >> /\ UNCHANGED call
    BY <1>0, <1>2 DEF CreateOutput, PhaseInv, Running
  <2>2. ASSUME Unhurt', call.fn = "decrypt" PROVE Deciphered'
    <3>1. Base' = << >> /\ files'["enc"] = files["enc"]
      BY <1>0, <1>2, <2>1, <2>2
         DEF CreateOutput, PhaseInv, TypeOK, Base, Holding, Unhurt, Source, File
    <3>2. Out' = << >>
      BY <2>1, <3>1, ConcatEmptySeq DEF Out
    <3>3. Input' = files["enc"].pieces /\ Input' \in Seq(Piece) /\ LaidOut(Input')
      BY <1>0, <2>1, <2>2, <3>1 DEF Input, Source, TypeOK, FileInv, LayoutInv, File
    <3>4. Restored(Out)'
      BY <3>1, <3>2, <3>3 DEF Restored
    <3>5. pos' = IF Len(Out') < Len(Input') THEN Input'[Len(Out') + 1].at ELSE EndOf(Input')
      <4>1. CASE Input' = << >>
        BY <2>1, <3>2, <4>1 DEF EndOf
      <4>2. CASE Input' # << >>
        BY <2>1, <3>2, <3>3, <4>2 DEF LaidOut
      <4>3. QED
        BY <4>1, <4>2
    <3>6. QED
      BY <2>1, <3>4, <3>5 DEF Deciphered
  <2>3. QED
    BY <2>1, <2>2 DEF DecryptInv, Returned
<1>3. CASE ReadWindow
  <2>1. UNCHANGED << call, good, files >> /\ Running /\ pc' # "idle"
    BY <1>3, ReadFacts DEF Running
  <2>2. lost' = 0 => lost = 0
    BY <1>0, <1>3 DEF ReadWindow, TypeOK, Missed
  <2>3. Unhurt' => Unhurt
    BY <2>1, <2>2 DEF Unhurt, Source
  <2>4. ASSUME NEW size \in ChunkSizes, Unhurt', call.fn = "decrypt", Matching(size)
        PROVE  Deciphered'
    BY <1>3, <2>1, <2>3, <2>4, DeciphermentRead DEF Unhurt, DecryptInv
  <2>5. QED
    BY <2>1, <2>4 DEF DecryptInv, Returned, Matching
<1>4. CASE ReadError
  <2>1. lost' # 0
    BY <1>0, <1>4 DEF ReadError, TypeOK
  <2>2. QED
    BY <2>1 DEF DecryptInv, Unhurt
<1>5. CASE Write
  <2>1. UNCHANGED << call, pos, eof, lost >> /\ Running /\ pc' = "read" /\ Input' = Input
        /\ (good' => (good /\ Out' = Out))
    BY <1>5, WriteFacts DEF Running
  <2>2. call.fn = "decrypt" => Input = files["enc"].pieces /\ Input' = files'["enc"].pieces
    BY <2>1 DEF Input, Source
  <2>3. QED
    BY <2>1, <2>2 DEF DecryptInv, Returned, Unhurt, Source, Deciphered, Restored, Matching
<1>6. CASE CloseOutput
  <2>1. /\ UNCHANGED << call, lost, pos, eof >> /\ Running /\ pc' = "idle" /\ eof
        /\ \A f \in File \ {call.dst} : files'[f] = files[f]
        /\ good' => (good /\ Base' = Out)
    BY <1>6, CloseFacts DEF Running
  <2>2. ASSUME NEW size \in ChunkSizes, Unhurt', call.fn = "decrypt", Matching(size)'
        PROVE  /\ Restored(files["dec"].pieces)'
               /\ Len(files'["dec"].pieces) = Len(Input')
    <3>1. Unhurt /\ Base' = Out
      BY <2>1, <2>2 DEF Unhurt, Source
    <3>2. call.dst = "dec" /\ Source = "enc"
      BY <1>0, <2>1, <2>2, <3>1 DEF Unhurt, Source, PhaseInv, Running, Targets
    <3>3. files'["dec"].pieces = Out /\ files'["enc"] = files["enc"] /\ Input' = Input
      BY <2>1, <2>2, <3>1, <3>2 DEF Base, File, Input, Source
    <3>4. Matching(size)
      BY <2>1, <2>2, <3>3 DEF Matching
    <3>5. Deciphered
      BY <2>1, <2>2, <3>1, <3>4 DEF DecryptInv
    <3>6. QED
      BY <2>1, <3>3, <3>5 DEF Deciphered, Restored
  <2>3. QED
    BY <2>1, <2>2 DEF DecryptInv, Running
<1>7. CASE UNCHANGED vars
  BY <1>7 DEF vars, io, DecryptInv, Deciphered, Restored, Matching, Returned, Unhurt, Running,
              Out, Base, Input, Source
<1>8. QED
  BY <1>1, <1>2, <1>3, <1>4, <1>5, <1>6, <1>7 DEF Next, Work, Done

LEMMA RestoredTiles == TypeOK /\ DecryptInv => RoundTrip
<1> SUFFICES ASSUME TypeOK, DecryptInv, Returned("decrypt"), Unhurt, NEW size \in ChunkSizes,
                    Tiled(files["enc"].pieces), Matching(size)
             PROVE  /\ Tiled(files["dec"].pieces)
                    /\ Upto(files["dec"].pieces) = Upto(files["enc"].pieces)
                    /\ \A i \in 1 .. Len(files["dec"].pieces) : files["dec"].pieces[i].kind = "plain"
  BY DEF RoundTrip, Matching
<1> DEFINE enc == files["enc"].pieces
           dec == files["dec"].pieces
<1>1. enc \in Seq(Piece) /\ dec \in Seq(Piece)
  BY DEF TypeOK, File
<1>2. Restored(dec) /\ Len(dec) = Len(enc)
  BY DEF DecryptInv, Returned, Input, Source
<1>3. \A i \in 1 .. Len(enc) : /\ dec[i].kind = "plain" /\ dec[i].from = enc[i].from
                               /\ dec[i].to = enc[i].to
  BY <1>2 DEF Restored
<1>4. CASE enc = << >>
  <2>1. dec = << >>
    BY <1>1, <1>2, <1>4
  <2>2. QED
    BY <1>4, <2>1 DEF Tiled, Upto
<1>5. CASE enc # << >>
  <2>1. dec # << >> /\ 1 \in 1 .. Len(enc) /\ Len(enc) \in 1 .. Len(enc)
    BY <1>1, <1>2, <1>5
  <2>2. Upto(dec) = Upto(enc)
    BY <1>2, <1>3, <1>5, <2>1 DEF Upto
  <2>3. Tiled(dec)
    <3>1. dec[1].from = 0
      BY <1>3, <1>5, <2>1 DEF Tiled
    <3>2. ASSUME NEW i \in 1 .. Len(enc) - 1 PROVE dec[i + 1].from = dec[i].to
      <4>1. i \in 1 .. Len(enc) /\ i + 1 \in 1 .. Len(enc)
        BY <1>1
      <4>2. QED
        BY <1>3, <4>1 DEF Tiled
    <3>3. QED
      BY <1>2, <3>1, <3>2 DEF Tiled
  <2>4. QED
    BY <1>2, <1>3, <2>2, <2>3
<1>6. QED
  BY <1>4, <1>5

(* decrypt restores the file when its chunk_size is the length of a whole   *)
(* segment of what one encrypt wrote, for every length of the file.         *)
THEOREM RoundTripRestores == Spec => []RoundTrip
<1>1. Init => DecryptInv
  BY DEF Init, DecryptInv
<1>2. TypeInv /\ DecryptInv => RoundTrip
  BY RestoredTiles DEF TypeInv
<1>3. QED
  BY TypeInvInit, TypeInvStep, FileInvInit, FileInvStep, DecryptInvStep, <1>1, <1>2, PTL
     DEF Spec
-----------------------------------------------------------------------------
(* decrypt in mode 2: junk enters no output that was written without failure.*)
GcmDecrypting == call.fn = "decrypt" /\ call.mode = 2 /\ good /\ call.dst = "dec"
AllPlain(s) == \A i \in 1 .. Len(s) : s[i].kind = "plain"
GcmInv ==
  /\ Running /\ GcmDecrypting => AllPlain(Out)
  /\ GcmNeverGarbles

LEMMA GcmRead ==
  ASSUME TypeInv, ReadWindow, GcmDecrypting, AllPlain(Out)
  PROVE  AllPlain(Out')
<1>1. TypeOK /\ Out \in Seq(Piece)
  BY OutFacts DEF TypeInv
<1>2. CASE Out' = Out
  BY <1>2
<1>3. CASE \E p \in Piece : Out' = Out \o << p >> /\ Yields(p, pos, pos')
  <2>1. PICK p \in Piece : Out' = Out \o << p >> /\ Yields(p, pos, pos')
    BY <1>3
  <2>2. p.kind = "plain"
    BY <2>1 DEF Yields, GcmDecrypting
  <2>3. << p >> \in Seq(Piece) /\ Len(<< p >>) = 1 /\ << p >>[1] = p /\ Len(Out) \in Nat
    BY <1>1
  <2>4. /\ Len(Out') = Len(Out) + 1 /\ Out'[Len(Out) + 1] = p
        /\ \A i \in 1 .. Len(Out) : Out'[i] = Out[i]
    BY <1>1, <2>1, <2>3, ConcatProperties
  <2>5. ASSUME NEW i \in 1 .. Len(Out') PROVE Out'[i].kind = "plain"
    <3>1. CASE i = Len(Out) + 1
      BY <2>2, <2>4, <3>1
    <3>2. CASE i \in 1 .. Len(Out)
      BY <2>4, <3>2 DEF AllPlain
    <3>3. QED
      BY <2>3, <2>4, <3>1, <3>2
  <2>6. QED
    BY <2>5 DEF AllPlain
<1>4. QED
  BY <1>2, <1>3, ReadFacts

LEMMA GcmInvStep == TypeInv /\ GcmInv /\ [Next]_vars => GcmInv'
<1> SUFFICES ASSUME TypeInv, GcmInv, [Next]_vars PROVE GcmInv'
  OBVIOUS
<1>0. TypeOK /\ PhaseInv /\ TypeOK' /\ PhaseInv'
  BY TypeInvStep DEF TypeInv
<1>1. CASE Client \/ OpenInput \/ Crash
  <2>1. ~Running' /\ (pc' = "idle" => status' # 1)
    BY <1>0, <1>1 DEF Client, Call, OpenInput, Return, Crash, Running, PhaseInv
  <2>2. QED
    BY <2>1 DEF GcmInv, GcmNeverGarbles, Returned
<1>2. CASE CreateOutput
  <2>1. pc' = "read" /\ chunk' = << >> /\ buf' = << >> /\ UNCHANGED call
    BY <1>0, <1>2 DEF CreateOutput, PhaseInv, Running
  <2>2. ASSUME good' PROVE Out' = << >>
    <3>1. Base' = << >>
      BY <1>0, <1>2, <2>2 DEF CreateOutput, PhaseInv, TypeOK, Base, Holding
    <3>2. QED
      BY <2>1, <3>1, ConcatEmptySeq DEF Out
  <2>3. QED
    BY <2>1, <2>2 DEF GcmInv, GcmDecrypting, GcmNeverGarbles, AllPlain, Returned
<1>3. CASE ReadWindow
  <2>1. UNCHANGED << call, good >> /\ Running /\ pc' # "idle"
    BY <1>3, ReadFacts DEF Running
  <2>2. GcmDecrypting' => GcmDecrypting
    BY <2>1 DEF GcmDecrypting
  <2>3. QED
    BY <1>3, <2>1, <2>2, GcmRead DEF GcmInv, GcmNeverGarbles, Returned
<1>4. CASE ReadError
  BY <1>4 DEF ReadError, GcmInv, GcmNeverGarbles, GcmDecrypting, AllPlain, Returned, Running,
              Out, Base
<1>5. CASE Write
  <2>1. UNCHANGED call /\ Running /\ pc' = "read" /\ (good' => (good /\ Out' = Out))
    BY <1>5, WriteFacts DEF Running
  <2>2. QED
    BY <2>1 DEF GcmInv, GcmNeverGarbles, GcmDecrypting, AllPlain, Returned
<1>6. CASE CloseOutput
  <2>1. UNCHANGED call /\ Running /\ pc' = "idle" /\ (good' => (good /\ Base' = Out))
    BY <1>6, CloseFacts DEF Running
  <2>2. ASSUME GcmDecrypting' PROVE AllPlain(files'["dec"].pieces)
    <3>1. GcmDecrypting /\ files'["dec"].pieces = Out
      BY <2>1, <2>2 DEF GcmDecrypting, Base
    <3>2. QED
      BY <2>1, <3>1 DEF GcmInv
  <2>3. QED
    BY <2>1, <2>2 DEF GcmInv, GcmNeverGarbles, GcmDecrypting, AllPlain, Returned, Running
<1>7. CASE UNCHANGED vars
  BY <1>7 DEF vars, io, GcmInv, GcmNeverGarbles, GcmDecrypting, AllPlain, Returned, Running,
              Out, Base
<1>8. QED
  BY <1>1, <1>2, <1>3, <1>4, <1>5, <1>6, <1>7 DEF Next, Work, Done

(* A GCM decrypt that returned 1 and wrote without failure wrote plaintext  *)
(* only, under any keys, chunk sizes, torn input and earlier failures.      *)
THEOREM GcmWritesPlain == Spec => []GcmNeverGarbles
<1>1. Init => GcmInv
  BY DEF Init, GcmInv, GcmNeverGarbles, Returned, Running
<1>2. GcmInv => GcmNeverGarbles
  BY DEF GcmInv
<1>3. QED
  BY TypeInvInit, TypeInvStep, GcmInvStep, <1>1, <1>2, PTL DEF Spec
=============================================================================
