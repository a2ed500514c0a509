--------------------------- MODULE StringCipherProofs ---------------------------
(***************************************************************************)
(* Theorems about Codecs and StringCipher: base36 gives back every string   *)
(* of bytes, whatever the width of its accumulator, so what encrypt has     *)
(* made is decrypted; gcm returns nothing that was not encrypted; and       *)
(* base64 is that of RFC 4648 but for the last group that it encodes.       *)
(***************************************************************************)
EXTENDS StringCipher, SequenceTheorems, WellFoundedInduction, TLAPS

(***************************************************************************)
(* FoldLeft: the recursion by which it is defined has a solution, and a     *)
(* solution folds the sequence from its first element to its last.          *)
(***************************************************************************)
(* Induction on the natural numbers, for a set of them.                     *)
LEMMA Least ==
  ASSUME NEW T \in SUBSET Nat, T # {}
  PROVE \E x \in T : \A y \in T : x <= y
<1>1. PICK x \in T : \A y \in T : <<y, x>> \notin OpToRel(<, Nat)
  BY WFMin, NatLessThanWellFounded, Zenon
<1>2. \A y \in T : ~(y < x)
  BY <1>1, Zenon DEF OpToRel
<1>3. \A y \in T : y \in Int /\ x \in Int
  OBVIOUS
<1> QED
  BY <1>2, <1>3

LEMMA Induct ==
  ASSUME NEW S, 0 \in S, \A n \in Nat : n \in S => n + 1 \in S
  PROVE Nat \subseteq S
<1> SUFFICES ASSUME Nat \ S # {} PROVE FALSE
  OBVIOUS
<1>1. PICK x \in Nat \ S : \A y \in Nat \ S : x <= y
  BY Least, Nat \ S \in SUBSET Nat
<1>2. x # 0 /\ x - 1 \in Nat /\ ~(x <= x - 1)
  BY <1>1
<1>3. x - 1 \in S
  BY <1>1, <1>2
<1> QED
  BY <1>1, <1>2, <1>3

LEMMA MaxIs ==
  ASSUME NEW S \in SUBSET Int, NEW m \in S, \A x \in S : x <= m
  PROVE Max(S) = m
<1>1. m \in S /\ \A y \in S : m >= y
  OBVIOUS
<1>2. Max(S) \in S /\ \A y \in S : Max(S) >= y
  BY <1>1, Zenon DEF Max
<1>3. PICK k \in S : k = Max(S) /\ k >= m /\ k <= m
  BY <1>2
<1> QED
  BY <1>3

LEMMA SubsetsOfInterval ==
  ASSUME NEW n \in Nat
  PROVE \A s \in SUBSET (1 .. n + 1) :
          /\ n + 1 \notin s => s \in SUBSET (1 .. n)
          /\ s \ {n + 1} \in SUBSET (1 .. n)
OBVIOUS

(* The recursion of FoldLeft has a solution, if what is folded is a         *)
(* function Op.                                                             *)
Folds(A, B, base, seq, Op) == base \in A /\ seq \in Seq(B) /\ Op \in [A -> [B -> A]]
Solution(g, A, base, seq, Op) ==
  /\ g \in [SUBSET (DOMAIN seq) -> A]
  /\ \A s \in SUBSET (DOMAIN seq) :
       g[s] = IF s = {} THEN base ELSE Op[g[s \ {Max(s)}]][seq[Max(s)]]

LEMMA FoldSolution ==
  ASSUME NEW A, NEW B, NEW base, NEW seq, NEW Op, Folds(A, B, base, seq, Op)
  PROVE \E g : Solution(g, A, base, seq, Op)
<1> USE DEF Folds
<1>1. PICK N \in Nat : DOMAIN seq = 1 .. N /\ \A i \in 1 .. N : seq[i] \in B
  OBVIOUS
<1> base \in A /\ Op \in [A -> [B -> A]]
  OBVIOUS
<1> HIDE DEF Folds
<1> DEFINE Solves(g, n) == \A s \in SUBSET (1 .. n) :
             g[s] = IF s = {} THEN base ELSE Op[g[s \ {Max(s)}]][seq[Max(s)]]
           Solved(n) == \E g \in [SUBSET (1 .. n) -> A] : Solves(g, n)
           Done == {n \in Nat : n <= N => Solved(n)}
<1>2. 0 \in Done
  <2> DEFINE g == [s \in SUBSET (1 .. 0) |-> base]
  <2>1. g \in [SUBSET (1 .. 0) -> A]
    OBVIOUS
  <2>2. \A s \in SUBSET (1 .. 0) : s = {} /\ g[s] = base
    OBVIOUS
  <2>3. Solves(g, 0)
    BY <2>2, Zenon
  <2> HIDE DEF g, Solves
  <2>4. Solved(0)
    BY <2>1, <2>3
  <2> HIDE DEF Solved
  <2> QED
    BY <2>4
<1>3. ASSUME NEW n \in Nat, n \in Done PROVE n + 1 \in Done
  <2> SUFFICES ASSUME n + 1 <= N PROVE Solved(n + 1)
    <3> HIDE DEF Solved
    <3> QED
      BY <1>3
  <2>1. Solved(n)
    <3> HIDE DEF Solved
    <3> QED
      BY <1>3
  <2>2. PICK h \in [SUBSET (1 .. n) -> A] : Solves(h, n)
    <3> HIDE DEF Solves
    <3> QED
      BY <2>1
  <2> DEFINE g == [s \in SUBSET (1 .. n + 1) |->
                     IF n + 1 \in s THEN Op[h[s \ {n + 1}]][seq[n + 1]] ELSE h[s]]
  <2>3. seq[n + 1] \in B
    <3>1. n + 1 \in 1 .. N
      OBVIOUS
    <3> QED
      BY <1>1, <3>1
  <2>4. \A s \in SUBSET (1 .. n + 1) :
          /\ n + 1 \notin s => s \in SUBSET (1 .. n)
          /\ s \ {n + 1} \in SUBSET (1 .. n)
    BY SubsetsOfInterval
  <2>5. \A s \in SUBSET (1 .. n + 1) :
          g[s] = IF n + 1 \in s THEN Op[h[s \ {n + 1}]][seq[n + 1]] ELSE h[s]
    OBVIOUS
  <2>6. g \in [SUBSET (1 .. n + 1) -> A]
    <3>1. ASSUME NEW s \in SUBSET (1 .. n + 1)
          PROVE (IF n + 1 \in s THEN Op[h[s \ {n + 1}]][seq[n + 1]] ELSE h[s]) \in A
      <4>1. CASE n + 1 \in s
        <5>1. h[s \ {n + 1}] \in A
          BY <2>4
        <5> QED
          BY <2>3, <4>1, <5>1
      <4>2. CASE n + 1 \notin s
        <5>1. s \in SUBSET (1 .. n) /\ h[s] \in A
          BY <2>4, <4>2
        <5> QED
          BY <4>2, <5>1
      <4> QED
        BY <4>1, <4>2
    <3> QED
      BY <3>1
  <2> HIDE DEF g
  <2>7. ASSUME NEW s \in SUBSET (1 .. n + 1)
        PROVE g[s] = IF s = {} THEN base ELSE Op[g[s \ {Max(s)}]][seq[Max(s)]]
    <3>1. CASE n + 1 \in s
      <4>1. Max(s) = n + 1
        BY <3>1, MaxIs
      <4>2. n + 1 \notin s \ {n + 1} /\ s \ {n + 1} \in SUBSET (1 .. n + 1) /\ s # {}
        BY <3>1
      <4>3. g[s \ {n + 1}] = h[s \ {n + 1}]
        BY <2>5, <4>2
      <4>4. g[s] = Op[h[s \ {n + 1}]][seq[n + 1]]
        BY <2>5, <3>1
      <4> QED
        BY <4>1, <4>2, <4>3, <4>4
    <3>2. CASE n + 1 \notin s
      <4>1. s \in SUBSET (1 .. n) /\ g[s] = h[s]
        BY <2>4, <2>5, <3>2
      <4>2. n + 1 \notin s \ {Max(s)} /\ s \ {Max(s)} \in SUBSET (1 .. n + 1)
        BY <3>2
      <4>3. g[s \ {Max(s)}] = h[s \ {Max(s)}]
        BY <2>5, <4>2
      <4> QED
        BY <2>2, <4>1, <4>3
    <3> QED
      BY <3>1, <3>2
  <2>8. Solves(g, n + 1)
    BY <2>7
  <2> HIDE DEF Solves
  <2> QED
    BY <2>6, <2>8
<1>4. Nat \subseteq Done
  <2> HIDE DEF Done
  <2> QED
    BY <1>2, <1>3, Induct
<1>5. N \in Done
  <2> HIDE DEF Done
  <2> QED
    BY <1>4
<1>6. Solved(N)
  <2> HIDE DEF Solved
  <2> QED
    BY <1>5
<1> QED
  BY <1>1, <1>6 DEF Solution

LEMMA MaxOf ==
  ASSUME NEW n \in Nat, NEW T \in SUBSET (0 .. n), T # {}
  PROVE Max(T) \in T /\ \A y \in T : y <= Max(T)
<1>1. T \in SUBSET Nat
  OBVIOUS
<1>2. PICK x \in T : TRUE
  OBVIOUS
<1> DEFINE U == {m \in Nat : \A y \in T : y <= m}
<1>3. n \in U /\ U \in SUBSET Nat
  OBVIOUS
<1>4. PICK m \in U : \A k \in U : m <= k
  BY <1>3, Least
<1>5. m \in T
  <2> SUFFICES ASSUME m \notin T PROVE FALSE
    OBVIOUS
  <2>1. m \in Nat /\ x <= m /\ x # m
    BY <1>4
  <2>2. m - 1 \in Nat
    BY <1>1, <1>2, <2>1
  <2>3. ASSUME NEW y \in T PROVE y <= m - 1
    <3>1. y <= m /\ y # m /\ y \in Int
      BY <1>1, <1>4
    <3> QED
      BY <2>1, <3>1
  <2>4. m - 1 \in U
    BY <2>2, <2>3
  <2> HIDE DEF U
  <2> QED
    BY <1>4, <2>1, <2>4
<1>6. T \in SUBSET Int /\ \A y \in T : y <= m
  BY <1>4
<1>7. Max(T) = m
  BY <1>5, <1>6, MaxIs
<1> QED
  BY <1>5, <1>6, <1>7

LEMMA MaxOfInterval ==
  ASSUME NEW k \in Nat, k # 0
  PROVE Max(1 .. k) = k /\ (1 .. k) \ {k} = 1 .. (k - 1)
<1>1. k \in 1 .. k /\ 1 .. k \in SUBSET Int /\ \A x \in 1 .. k : x <= k
  OBVIOUS
<1>2. Max(1 .. k) = k
  BY <1>1, MaxIs
<1> QED
  BY <1>2

(* A run of Op over s, and over s with one more at its end.                 *)
Run(h, A, Op, base, s) ==
  /\ h \in [0 .. Len(s) -> A] /\ h[0] = base
  /\ \A k \in 1 .. Len(s) : h[k] = Op[h[k - 1]][s[k]]

LEMMA Beginnings ==
  ASSUME NEW A, NEW B, NEW base, NEW s, NEW Op, Folds(A, B, base, s, Op), NEW k \in 1 .. Len(s)
  PROVE /\ Max(1 .. k) = k /\ (1 .. k) \ {k} = 1 .. (k - 1)
        /\ 1 .. k \in SUBSET (DOMAIN s) /\ 1 .. k # {} /\ s[k] \in B
<1>1. PICK L \in Nat : L = Len(s) /\ DOMAIN s = 1 .. L /\ \A i \in 1 .. L : s[i] \in B
  BY DEF Folds
<1>2. k \in Nat /\ k # 0 /\ k \in 1 .. L /\ k \in 1 .. k
  BY <1>1
<1>3. Max(1 .. k) = k /\ (1 .. k) \ {k} = 1 .. (k - 1)
  BY <1>2, MaxOfInterval
<1>4. 1 .. k \in SUBSET (DOMAIN s) /\ 1 .. k # {} /\ s[k] \in B
  BY <1>1, <1>2
<1> QED
  BY <1>3, <1>4

(* What FoldLeft chooses, of which only this is known at first, is a run.   *)
Iterates(g, A, base, s, Op) ==
  /\ g[{}] = base
  /\ \A k \in 1 .. Len(s) :
       g[1 .. (k - 1)] \in A => g[1 .. k] = Op[g[1 .. (k - 1)]][s[k]]

LEMMA IsRun ==
  ASSUME NEW A, NEW B, NEW base, NEW s, NEW Op, NEW g,
         Folds(A, B, base, s, Op), Iterates(g, A, base, s, Op)
  PROVE \E h : Run(h, A, Op, base, s) /\ g[DOMAIN s] = h[Len(s)]
<1>1. PICK L \in Nat : L = Len(s) /\ DOMAIN s = 1 .. L /\ \A i \in 1 .. L : s[i] \in B
  BY DEF Folds
<1>2. base \in A /\ Op \in [A -> [B -> A]]
  BY DEF Folds
<1>3. \A k \in 1 .. L : g[1 .. (k - 1)] \in A => g[1 .. k] = Op[g[1 .. (k - 1)]][s[k]]
  BY <1>1 DEF Iterates
<1>4. 1 .. 0 = {} /\ g[1 .. 0] = base
  BY DEF Iterates
<1> DEFINE Typed == {k \in Nat : k <= L => g[1 .. k] \in A}
<1>5. 0 \in Typed
  BY <1>2, <1>4
<1>6. ASSUME NEW k \in Nat, k \in Typed PROVE k + 1 \in Typed
  <2> SUFFICES ASSUME k + 1 <= L PROVE g[1 .. (k + 1)] \in A
    OBVIOUS
  <2>1. k + 1 \in 1 .. L /\ (k + 1) - 1 = k /\ g[1 .. k] \in A
    BY <1>6
  <2>2. g[1 .. (k + 1)] = Op[g[1 .. k]][s[k + 1]] /\ s[k + 1] \in B
    BY <1>1, <1>3, <2>1
  <2> QED
    BY <1>2, <2>1, <2>2
<1>7. Nat \subseteq Typed
  <2> HIDE DEF Typed
  <2> QED
    BY <1>5, <1>6, Induct
<1>8. \A k \in 0 .. L : g[1 .. k] \in A
  BY <1>7
<1> HIDE DEF Typed
<1> DEFINE h == [k \in 0 .. L |-> g[1 .. k]]
<1>9. h \in [0 .. L -> A] /\ h[0] = base /\ h[L] = g[1 .. L]
  BY <1>4, <1>8
<1>10. \A k \in 1 .. L : h[k] = Op[h[k - 1]][s[k]]
  <2> SUFFICES ASSUME NEW k \in 1 .. L PROVE h[k] = Op[h[k - 1]][s[k]]
    OBVIOUS
  <2>1. k \in 0 .. L /\ k - 1 \in 0 .. L
    OBVIOUS
  <2>2. h[k] = g[1 .. k] /\ h[k - 1] = g[1 .. (k - 1)] /\ g[1 .. (k - 1)] \in A
    BY <1>8, <2>1
  <2> HIDE DEF h
  <2> QED
    BY <1>3, <2>2
<1> HIDE DEF h
<1>11. Run(h, A, Op, base, s)
  BY <1>1, <1>9, <1>10 DEF Run
<1> QED
  BY <1>1, <1>9, <1>11

Runs(A, B, base, Op, s, x, g, h) ==
  /\ Folds(A, B, base, s, Op) /\ x \in B
  /\ Run(g, A, Op, base, s) /\ Run(h, A, Op, base, Append(s, x))

LEMMA RunAppended ==
  ASSUME NEW A, NEW B, NEW base, NEW Op, NEW s, NEW x, NEW g, NEW h, Runs(A, B, base, Op, s, x, g, h)
  PROVE h[Len(Append(s, x))] = Op[g[Len(s)]][x]
<1>1. PICK L \in Nat : /\ L = Len(s) /\ Len(Append(s, x)) = L + 1 /\ Append(s, x)[L + 1] = x
                       /\ \A k \in 1 .. L : Append(s, x)[k] = s[k]
  <2>1. s \in Seq(B) /\ x \in B
    BY DEF Runs, Folds
  <2> QED
    BY <2>1
<1>2. /\ \A k \in 1 .. L : g[k] = Op[g[k - 1]][s[k]]
      /\ \A k \in 1 .. L + 1 : h[k] = Op[h[k - 1]][Append(s, x)[k]]
      /\ h[0] = g[0]
  BY <1>1 DEF Runs, Run
<1> DEFINE Same == {k \in Nat : k <= L => h[k] = g[k]}
<1>3. 0 \in Same
  BY <1>2
<1>4. ASSUME NEW k \in Nat, k \in Same PROVE k + 1 \in Same
  <2> SUFFICES ASSUME k + 1 <= L PROVE h[k + 1] = g[k + 1]
    OBVIOUS
  <2>1. k + 1 \in 1 .. L /\ k + 1 \in 1 .. L + 1 /\ (k + 1) - 1 = k
    OBVIOUS
  <2>2. h[k + 1] = Op[h[k]][s[k + 1]] /\ g[k + 1] = Op[g[k]][s[k + 1]]
    BY <1>1, <1>2, <2>1
  <2>3. h[k] = g[k]
    BY <1>4
  <2> QED
    BY <2>2, <2>3
<1>5. Nat \subseteq Same
  <2> HIDE DEF Same
  <2> QED
    BY <1>3, <1>4, Induct
<1>6. h[L] = g[L]
  BY <1>5
<1>7. L + 1 \in 1 .. L + 1 /\ (L + 1) - 1 = L
  OBVIOUS
<1>8. h[L + 1] = Op[h[L]][x]
  BY <1>1, <1>2, <1>7
<1> QED
  BY <1>1, <1>6, <1>8

(***************************************************************************)
(* The arithmetic of the codec.  Twelve bits of the accumulator are all     *)
(* that is ever read of it, and they survive its width.                     *)
(***************************************************************************)
(* Reading a number modulo the width of the register keeps its low twelve   *)
(* bits.                                                                    *)
LEMMA LowBits ==
  ASSUME NEW R \in Nat \ {0}, R % 4096 = 0, NEW n \in Nat
  PROVE n % R \in Nat /\ (n % R) % 4096 = n % 4096
<1>1. PICK k \in Nat, rest \in Nat : n = R * k + rest /\ rest = n % R
  <2>1. n % R \in Nat /\ n \div R \in Nat /\ n = R * (n \div R) + (n % R)
    OBVIOUS
  <2> QED
    BY <2>1
<1>2. PICK q \in Nat : R = 4096 * q
  OBVIOUS
<1>3. PICK p \in Nat : p = q * k
  OBVIOUS
<1>4. R * k = 4096 * p
  BY <1>2, <1>3
<1>5. n = 4096 * p + rest
  BY <1>1, <1>4
<1> QED
  BY <1>1, <1>5

Codes(V, v, y, x) == V \in Nat /\ v \in Nat /\ y \in 0 .. 255 /\ x \in 0 .. 255

LEMMA Modulo ==
  ASSUME NEW n \in Nat, NEW m \in Nat, n % 4096 = m % 4096
  PROVE \A w \in {8, 16, 32, 64, 128, 256, 512, 1024, 2048} : n % w = m % w
<1>1. PICK a \in Nat, t \in 0 .. 4095 : n = 4096 * a + t
  OBVIOUS
<1>2. PICK b \in Nat : m = 4096 * b + t
  BY <1>1, SMTT(30)
<1>3. n % 8 = m % 8
  BY <1>1, <1>2
<1>4. n % 16 = m % 16
  BY <1>1, <1>2
<1>5. n % 32 = m % 32
  BY <1>1, <1>2
<1>6. n % 64 = m % 64
  BY <1>1, <1>2
<1>7. n % 128 = m % 128
  BY <1>1, <1>2
<1>8. n % 256 = m % 256
  BY <1>1, <1>2
<1>9. n % 512 = m % 512
  BY <1>1, <1>2
<1>10. n % 1024 = m % 1024
  BY <1>1, <1>2
<1>11. n % 2048 = m % 2048
  BY <1>1, <1>2
<1> QED
  BY <1>3, <1>4, <1>5, <1>6, <1>7, <1>8, <1>9, <1>10, <1>11

(* Five or eight bits at any place that the codec reads are those of the    *)
(* number's last bits.                                                      *)
LEMMA FiveBits ==
  ASSUME NEW n \in Nat
  PROVE \A j \in {1, 2, 4, 8, 16, 32, 64, 128} : (n \div j) % 32 = (n % (32 * j)) \div j /\ (n \div j) % 32 \in 0 .. 31
<1>1. (n \div 1) % 32 = (n % 32) \div 1
  OBVIOUS
<1>2. (n \div 2) % 32 = (n % 64) \div 2
  OBVIOUS
<1>3. (n \div 4) % 32 = (n % 128) \div 4
  OBVIOUS
<1>4. (n \div 8) % 32 = (n % 256) \div 8
  OBVIOUS
<1>5. (n \div 16) % 32 = (n % 512) \div 16
  OBVIOUS
<1>6. (n \div 32) % 32 = (n % 1024) \div 32
  OBVIOUS
<1>7. (n \div 64) % 32 = (n % 2048) \div 64
  OBVIOUS
<1>8. (n \div 128) % 32 = (n % 4096) \div 128
  OBVIOUS
<1> QED
  BY <1>1, <1>2, <1>3, <1>4, <1>5, <1>6, <1>7, <1>8

LEMMA EightBits ==
  ASSUME NEW n \in Nat
  PROVE \A j \in {1, 2, 4, 8, 16} : (n \div j) % 256 = (n % (256 * j)) \div j /\ (n \div j) % 256 \in 0 .. 255
<1>1. (n \div 1) % 256 = (n % 256) \div 1
  OBVIOUS
<1>2. (n \div 2) % 256 = (n % 512) \div 2
  OBVIOUS
<1>3. (n \div 4) % 256 = (n % 1024) \div 4
  OBVIOUS
<1>4. (n \div 8) % 256 = (n % 2048) \div 8
  OBVIOUS
<1>5. (n \div 16) % 256 = (n % 4096) \div 16
  OBVIOUS
<1> QED
  BY <1>1, <1>2, <1>3, <1>4, <1>5

(* What the codes of a byte x are when r of the bits of the byte y before   *)
(* it are left in the encoder, for r from 0 to 4: V and V1 are the encoder's*)
(* values before and after x, d and c the digits, v, v1 and v2 the          *)
(* decoder's values.  The decoder gets y, and what is left is of x.         *)
Codes0(V, v, x, V1, d, v1) ==
  /\ V \in Nat /\ v \in Nat /\ x \in 0 .. 255
  /\ V1 \in Nat /\ V1 % 4096 = (V * 256 + x) % 4096
  /\ d \in Nat /\ d = (V1 \div 8) % 32 /\ v1 \in Nat /\ v1 % 4096 = (v * 32 + d) % 4096

LEMMA Step0 ==
  ASSUME NEW V, NEW v, NEW x, NEW V1, NEW d, NEW v1, Codes0(V, v, x, V1, d, v1)
  PROVE v1 % 32 = x \div 8 /\ V1 % 8 = x % 8
BY DEF Codes0

Codes1(V, v, y, x, V1, d, v1) ==
  /\ V \in Nat /\ v \in Nat /\ y \in 0 .. 255 /\ x \in 0 .. 255
  /\ V % 2 = y % 2 /\ v % 128 = y \div 2
  /\ V1 \in Nat /\ V1 % 4096 = (V * 256 + x) % 4096
  /\ d \in Nat /\ d = (V1 \div 16) % 32 /\ v1 \in Nat /\ v1 % 4096 = (v * 32 + d) % 4096

LEMMA Step1 ==
  ASSUME NEW V, NEW v, NEW y, NEW x, NEW V1, NEW d, NEW v1, Codes1(V, v, y, x, V1, d, v1)
  PROVE (v1 \div 16) % 256 = y /\ v1 % 16 = x \div 16 /\ V1 % 16 = x % 16
<1> USE DEF Codes1
<1>1. PICK h \in 0 .. 127, b \in 0 .. 1 : y = 2 * h + b /\ h = y \div 2 /\ b = y % 2
  OBVIOUS
<1>2. PICK g \in 0 .. 15, l \in 0 .. 15 : x = 16 * g + l
  OBVIOUS
<1>3. V1 % 512 = 256 * b + x
  <2>1. PICK k \in Nat : V = 2 * k + b
    BY <1>1
  <2>2. V * 256 + x = 512 * k + (256 * b + x) /\ V * 256 + x \in Nat
    BY <2>1
  <2>3. (V * 256 + x) % 512 = 256 * b + x
    BY <2>2, <1>1
  <2>4. V1 % 512 = (V * 256 + x) % 512
    <3>1. PICK m \in Nat : m = V * 256 + x /\ V1 % 4096 = m % 4096 /\ V1 \in Nat
      BY <2>2
    <3>2. V1 % 512 = m % 512
      BY <3>1, Modulo
    <3> QED
      BY <3>1, <3>2
  <2> QED
    BY <2>3, <2>4
<1>4. d = 16 * b + g /\ d \in 0 .. 31
  <2>1. d = (V1 % 512) \div 16
    BY FiveBits
  <2> QED
    BY <1>1, <1>2, <1>3, <2>1
<1>5. v1 % 4096 = 32 * h + d
  <2>1. PICK k \in Nat : v = 128 * k + h
    BY <1>1
  <2>2. v * 32 + d = 4096 * k + (32 * h + d) /\ v * 32 + d \in Nat
    BY <2>1
  <2>3. (v * 32 + d) % 4096 = 32 * h + d
    BY <2>2, <1>1, <1>4
  <2>4. v1 % 4096 = (v * 32 + d) % 4096
    OBVIOUS
  <2> QED
    BY <2>3, <2>4
<1>6. (v1 \div 16) % 256 = y
  <2>1. (v1 \div 16) % 256 = (v1 % 4096) \div 16
    BY EightBits
  <2> QED
    BY <1>1, <1>2, <1>4, <1>5, <2>1
<1>7. v1 % 16 = g
  <2>1. PICK k \in Nat : v1 = 4096 * k + (32 * h + d)
    BY <1>1, <1>4, <1>5
  <2> QED
    BY <1>2, <1>4, <2>1
<1>8. V1 % 16 = x % 16
  <2>1. PICK k \in Nat : V1 = 512 * k + (256 * b + x)
    BY <1>1, <1>3
  <2> QED
    BY <2>1
<1> QED
  BY <1>2, <1>4, <1>6, <1>7, <1>8

Codes2(V, v, y, x, V1, d, v1, c, v2) ==
  /\ V \in Nat /\ v \in Nat /\ y \in 0 .. 255 /\ x \in 0 .. 255
  /\ V % 4 = y % 4 /\ v % 64 = y \div 4
  /\ V1 \in Nat /\ V1 % 4096 = (V * 256 + x) % 4096
  /\ d \in Nat /\ d = (V1 \div 32) % 32 /\ v1 \in Nat /\ v1 % 4096 = (v * 32 + d) % 4096
  /\ c \in Nat /\ c = V1 % 32 /\ v2 \in Nat /\ v2 % 4096 = (v1 * 32 + c) % 4096

LEMMA Step2 ==
  ASSUME NEW V, NEW v, NEW y, NEW x, NEW V1, NEW d, NEW v1, NEW c, NEW v2, Codes2(V, v, y, x, V1, d, v1, c, v2)
  PROVE (v1 \div 8) % 256 = y /\ v2 % 256 = x
<1> USE DEF Codes2
<1>1. PICK h \in 0 .. 63, b \in 0 .. 3 : y = 4 * h + b /\ h = y \div 4 /\ b = y % 4
  OBVIOUS
<1>2. PICK g \in 0 .. 7, l \in 0 .. 31 : x = 32 * g + l
  OBVIOUS
<1>3. V1 % 1024 = 256 * b + x
  <2>1. PICK k \in Nat : V = 4 * k + b
    BY <1>1
  <2>2. V * 256 + x = 1024 * k + (256 * b + x) /\ V * 256 + x \in Nat
    BY <2>1
  <2>3. (V * 256 + x) % 1024 = 256 * b + x
    BY <2>2, <1>1
  <2>4. V1 % 1024 = (V * 256 + x) % 1024
    <3>1. PICK m \in Nat : m = V * 256 + x /\ V1 % 4096 = m % 4096 /\ V1 \in Nat
      BY <2>2
    <3>2. V1 % 1024 = m % 1024
      BY <3>1, Modulo
    <3> QED
      BY <3>1, <3>2
  <2> QED
    BY <2>3, <2>4
<1>4. d = 8 * b + g /\ d \in 0 .. 31
  <2>1. d = (V1 % 1024) \div 32
    BY FiveBits
  <2> QED
    BY <1>1, <1>2, <1>3, <2>1
<1>5. v1 % 2048 = 32 * h + d
  <2>1. PICK k \in Nat : v = 64 * k + h
    BY <1>1
  <2>2. v * 32 + d = 2048 * k + (32 * h + d) /\ v * 32 + d \in Nat
    BY <2>1
  <2>3. (v * 32 + d) % 2048 = 32 * h + d
    BY <2>2, <1>1, <1>4
  <2>4. v1 % 2048 = (v * 32 + d) % 2048
    <3>1. PICK m \in Nat : m = v * 32 + d /\ v1 % 4096 = m % 4096 /\ v1 \in Nat
      BY <2>2
    <3>2. v1 % 2048 = m % 2048
      BY <3>1, Modulo
    <3> QED
      BY <3>1, <3>2
  <2> QED
    BY <2>3, <2>4
<1>6. (v1 \div 8) % 256 = y
  <2>1. (v1 \div 8) % 256 = (v1 % 2048) \div 8
    BY EightBits
  <2> QED
    BY <1>1, <1>2, <1>4, <1>5, <2>1
<1>7. v1 % 8 = g
  <2>1. PICK k \in Nat : v1 = 2048 * k + (32 * h + d)
    BY <1>1, <1>4, <1>5
  <2> QED
    BY <1>2, <1>4, <2>1
<1>8. c = l /\ c \in 0 .. 31
  <2>1. c = (V1 % 32)
    BY FiveBits
  <2>2. V1 % 32 = l
    <3>1. PICK k \in Nat : V1 = 1024 * k + (256 * b + x)
      BY <1>1, <1>3
    <3> QED
      BY <1>2, <3>1
  <2> QED
    BY <1>2, <2>1, <2>2
<1>9. v2 % 256 = 32 * g + c
  <2>1. PICK k \in Nat : v1 = 8 * k + g
    BY <1>2, <1>7
  <2>2. v1 * 32 + c = 256 * k + (32 * g + c) /\ v1 * 32 + c \in Nat
    BY <2>1
  <2>3. (v1 * 32 + c) % 256 = 32 * g + c
    BY <2>2, <1>2, <1>8
  <2>4. v2 % 256 = (v1 * 32 + c) % 256
    <3>1. PICK m \in Nat : m = v1 * 32 + c /\ v2 % 4096 = m % 4096 /\ v2 \in Nat
      BY <2>2
    <3>2. v2 % 256 = m % 256
      BY <3>1, Modulo
    <3> QED
      BY <3>1, <3>2
  <2> QED
    BY <2>3, <2>4
<1> QED
  BY <1>2, <1>4, <1>6, <1>8, <1>9

Codes3(V, v, y, x, V1, d, v1, c, v2) ==
  /\ V \in Nat /\ v \in Nat /\ y \in 0 .. 255 /\ x \in 0 .. 255
  /\ V % 8 = y % 8 /\ v % 32 = y \div 8
  /\ V1 \in Nat /\ V1 % 4096 = (V * 256 + x) % 4096
  /\ d \in Nat /\ d = (V1 \div 64) % 32 /\ v1 \in Nat /\ v1 % 4096 = (v * 32 + d) % 4096
  /\ c \in Nat /\ c = (V1 \div 2) % 32 /\ v2 \in Nat /\ v2 % 4096 = (v1 * 32 + c) % 4096

LEMMA Step3 ==
  ASSUME NEW V, NEW v, NEW y, NEW x, NEW V1, NEW d, NEW v1, NEW c, NEW v2, Codes3(V, v, y, x, V1, d, v1, c, v2)
  PROVE (v1 \div 4) % 256 = y /\ v2 % 128 = x \div 2 /\ V1 % 2 = x % 2
<1> USE DEF Codes3
<1>1. PICK h \in 0 .. 31, b \in 0 .. 7 : y = 8 * h + b /\ h = y \div 8 /\ b = y % 8
  OBVIOUS
<1>2. PICK g \in 0 .. 3, l \in 0 .. 63 : x = 64 * g + l
  OBVIOUS
<1>3. V1 % 2048 = 256 * b + x
  <2>1. PICK k \in Nat : V = 8 * k + b
    BY <1>1
  <2>2. V * 256 + x = 2048 * k + (256 * b + x) /\ V * 256 + x \in Nat
    BY <2>1
  <2>3. (V * 256 + x) % 2048 = 256 * b + x
    BY <2>2, <1>1
  <2>4. V1 % 2048 = (V * 256 + x) % 2048
    <3>1. PICK m \in Nat : m = V * 256 + x /\ V1 % 4096 = m % 4096 /\ V1 \in Nat
      BY <2>2
    <3>2. V1 % 2048 = m % 2048
      BY <3>1, Modulo
    <3> QED
      BY <3>1, <3>2
  <2> QED
    BY <2>3, <2>4
<1>4. d = 4 * b + g /\ d \in 0 .. 31
  <2>1. d = (V1 % 2048) \div 64
    BY FiveBits
  <2> QED
    BY <1>1, <1>2, <1>3, <2>1
<1>5. v1 % 1024 = 32 * h + d
  <2>1. PICK k \in Nat : v = 32 * k + h
    BY <1>1
  <2>2. v * 32 + d = 1024 * k + (32 * h + d) /\ v * 32 + d \in Nat
    BY <2>1
  <2>3. (v * 32 + d) % 1024 = 32 * h + d
    BY <2>2, <1>1, <1>4
  <2>4. v1 % 1024 = (v * 32 + d) % 1024
    <3>1. PICK m \in Nat : m = v * 32 + d /\ v1 % 4096 = m % 4096 /\ v1 \in Nat
      BY <2>2
    <3>2. v1 % 1024 = m % 1024
      BY <3>1, Modulo
    <3> QED
      BY <3>1, <3>2
  <2> QED
    BY <2>3, <2>4
<1>6. (v1 \div 4) % 256 = y
  <2>1. (v1 \div 4) % 256 = (v1 % 1024) \div 4
    BY EightBits
  <2> QED
    BY <1>1, <1>2, <1>4, <1>5, <2>1
<1>7. v1 % 4 = g
  <2>1. PICK k \in Nat : v1 = 1024 * k + (32 * h + d)
    BY <1>1, <1>4, <1>5
  <2> QED
    BY <1>2, <1>4, <2>1
<1>8. V1 % 2 = x % 2
  <2>1. PICK k \in Nat : V1 = 2048 * k + (256 * b + x)
    BY <1>1, <1>3
  <2> QED
    BY <2>1
<1>9. c = l \div 2 /\ c \in 0 .. 31
  <2>1. c = (V1 % 64) \div 2
    BY FiveBits
  <2>2. V1 % 64 = l
    <3>1. PICK k \in Nat : V1 = 2048 * k + (256 * b + x)
      BY <1>1, <1>3
    <3> QED
      BY <1>2, <3>1
  <2> QED
    BY <1>2, <2>1, <2>2
<1>10. v2 % 128 = 32 * g + c
  <2>1. PICK k \in Nat : v1 = 4 * k + g
    BY <1>2, <1>7
  <2>2. v1 * 32 + c = 128 * k + (32 * g + c) /\ v1 * 32 + c \in Nat
    BY <2>1
  <2>3. (v1 * 32 + c) % 128 = 32 * g + c
    BY <2>2, <1>2, <1>9
  <2>4. v2 % 128 = (v1 * 32 + c) % 128
    <3>1. PICK m \in Nat : m = v1 * 32 + c /\ v2 % 4096 = m % 4096 /\ v2 \in Nat
      BY <2>2
    <3>2. v2 % 128 = m % 128
      BY <3>1, Modulo
    <3> QED
      BY <3>1, <3>2
  <2> QED
    BY <2>3, <2>4
<1> QED
  BY <1>2, <1>4, <1>6, <1>9, <1>10, <1>8

Codes4(V, v, y, x, V1, d, v1, c, v2) ==
  /\ V \in Nat /\ v \in Nat /\ y \in 0 .. 255 /\ x \in 0 .. 255
  /\ V % 16 = y % 16 /\ v % 16 = y \div 16
  /\ V1 \in Nat /\ V1 % 4096 = (V * 256 + x) % 4096
  /\ d \in Nat /\ d = (V1 \div 128) % 32 /\ v1 \in Nat /\ v1 % 4096 = (v * 32 + d) % 4096
  /\ c \in Nat /\ c = (V1 \div 4) % 32 /\ v2 \in Nat /\ v2 % 4096 = (v1 * 32 + c) % 4096

LEMMA Step4 ==
  ASSUME NEW V, NEW v, NEW y, NEW x, NEW V1, NEW d, NEW v1, NEW c, NEW v2, Codes4(V, v, y, x, V1, d, v1, c, v2)
  PROVE (v1 \div 2) % 256 = y /\ v2 % 64 = x \div 4 /\ V1 % 4 = x % 4
<1> USE DEF Codes4
<1>1. PICK h \in 0 .. 15, b \in 0 .. 15 : y = 16 * h + b /\ h = y \div 16 /\ b = y % 16
  OBVIOUS
<1>2. PICK g \in 0 .. 1, l \in 0 .. 127 : x = 128 * g + l
  OBVIOUS
<1>3. V1 % 4096 = 256 * b + x
  <2>1. PICK k \in Nat : V = 16 * k + b
    BY <1>1
  <2>2. V * 256 + x = 4096 * k + (256 * b + x) /\ V * 256 + x \in Nat
    BY <2>1
  <2>3. (V * 256 + x) % 4096 = 256 * b + x
    BY <2>2, <1>1
  <2>4. V1 % 4096 = (V * 256 + x) % 4096
    OBVIOUS
  <2> QED
    BY <2>3, <2>4
<1>4. d = 2 * b + g /\ d \in 0 .. 31
  <2>1. d = (V1 % 4096) \div 128
    BY FiveBits
  <2> QED
    BY <1>1, <1>2, <1>3, <2>1
<1>5. v1 % 512 = 32 * h + d
  <2>1. PICK k \in Nat : v = 16 * k + h
    BY <1>1
  <2>2. v * 32 + d = 512 * k + (32 * h + d) /\ v * 32 + d \in Nat
    BY <2>1
  <2>3. (v * 32 + d) % 512 = 32 * h + d
    BY <2>2, <1>1, <1>4
  <2>4. v1 % 512 = (v * 32 + d) % 512
    <3>1. PICK m \in Nat : m = v * 32 + d /\ v1 % 4096 = m % 4096 /\ v1 \in Nat
      BY <2>2
    <3>2. v1 % 512 = m % 512
      BY <3>1, Modulo
    <3> QED
      BY <3>1, <3>2
  <2> QED
    BY <2>3, <2>4
<1>6. (v1 \div 2) % 256 = y
  <2>1. (v1 \div 2) % 256 = (v1 % 512) \div 2
    BY EightBits
  <2> QED
    BY <1>1, <1>2, <1>4, <1>5, <2>1
<1>7. v1 % 2 = g
  <2>1. PICK k \in Nat : v1 = 512 * k + (32 * h + d)
    BY <1>1, <1>4, <1>5
  <2> QED
    BY <1>2, <1>4, <2>1
<1>8. V1 % 4 = x % 4
  <2>1. PICK k \in Nat : V1 = 4096 * k + (256 * b + x)
    BY <1>1, <1>3
  <2> QED
    BY <2>1
<1>9. c = l \div 4 /\ c \in 0 .. 31
  <2>1. c = (V1 % 128) \div 4
    BY FiveBits
  <2>2. V1 % 128 = l
    <3>1. PICK k \in Nat : V1 = 4096 * k + (256 * b + x)
      BY <1>1, <1>3
    <3> QED
      BY <1>2, <3>1
  <2> QED
    BY <1>2, <2>1, <2>2
<1>10. v2 % 64 = 32 * g + c
  <2>1. PICK k \in Nat : v1 = 2 * k + g
    BY <1>2, <1>7
  <2>2. v1 * 32 + c = 64 * k + (32 * g + c) /\ v1 * 32 + c \in Nat
    BY <2>1
  <2>3. (v1 * 32 + c) % 64 = 32 * g + c
    BY <2>2, <1>2, <1>9
  <2>4. v2 % 64 = (v1 * 32 + c) % 64
    <3>1. PICK m \in Nat : m = v1 * 32 + c /\ v2 % 4096 = m % 4096 /\ v2 \in Nat
      BY <2>2
    <3>2. v2 % 64 = m % 64
      BY <3>1, Modulo
    <3> QED
      BY <3>1, <3>2
  <2> QED
    BY <2>3, <2>4
<1> QED
  BY <1>2, <1>4, <1>6, <1>9, <1>10, <1>8

(* The last digit c, when r bits of the last byte y are left.               *)
Ends1(V, v, y, c, v1) ==
  /\ V \in Nat /\ v \in Nat /\ y \in 0 .. 255 /\ V % 2 = y % 2 /\ v % 128 = y \div 2
  /\ c \in Nat /\ c = (V * 16) % 32 /\ v1 \in Nat /\ v1 % 4096 = (v * 32 + c) % 4096

LEMMA End1 ==
  ASSUME NEW V, NEW v, NEW y, NEW c, NEW v1, Ends1(V, v, y, c, v1)
  PROVE (v1 \div 16) % 256 = y
<1> USE DEF Ends1
<1>1. PICK h \in 0 .. 127, b \in 0 .. 1 : y = 2 * h + b /\ h = y \div 2 /\ b = y % 2
  OBVIOUS
<1>2. PICK g \in Nat : v = 128 * g + h
  BY <1>1
<1>3. c = 16 * b
  <2>1. PICK f \in Nat : V = 2 * f + b
    BY <1>1
  <2>2. V * 16 = 32 * f + 16 * b
    BY <2>1
  <2> QED
    BY <1>1, <2>2
<1>4. v \in Nat /\ c \in Nat /\ v1 \in Nat /\ v1 % 4096 = (v * 32 + c) % 4096
  OBVIOUS
<1> HIDE DEF Ends1
<1>5. PICK m \in Nat : m = 4096 * g + (32 * h + c)
  BY <1>1, <1>3, <1>4
<1>6. m = v * 32 + c
  BY <1>2, <1>5, <1>4
<1>7. v1 % 4096 = m % 4096 /\ v1 \in Nat
  BY <1>6, <1>4
<1>8. m % 4096 = 32 * h + c
  <2>1. PICK k \in 0 .. 4095 : k = 32 * h + c
    BY <1>3, <1>4
  <2>2. m = 4096 * g + k
    BY <1>5, <2>1
  <2>3. m % 4096 = k
    BY <2>2
  <2> QED
    BY <2>1, <2>3
<1>9. v1 % 4096 = m % 4096
  BY <1>7
<1>10. (v1 \div 16) % 256 = (v1 % 4096) \div 16
  BY <1>7, EightBits
<1> QED
  BY <1>1, <1>3, <1>8, <1>9, <1>10

Ends2(V, v, y, c, v1) ==
  /\ V \in Nat /\ v \in Nat /\ y \in 0 .. 255 /\ V % 4 = y % 4 /\ v % 64 = y \div 4
  /\ c \in Nat /\ c = (V * 8) % 32 /\ v1 \in Nat /\ v1 % 4096 = (v * 32 + c) % 4096

LEMMA End2 ==
  ASSUME NEW V, NEW v, NEW y, NEW c, NEW v1, Ends2(V, v, y, c, v1)
  PROVE (v1 \div 8) % 256 = y
<1> USE DEF Ends2
<1>1. PICK h \in 0 .. 63, b \in 0 .. 3 : y = 4 * h + b /\ h = y \div 4 /\ b = y % 4
  OBVIOUS
<1>2. PICK g \in Nat : v = 64 * g + h
  BY <1>1
<1>3. c = 8 * b
  <2>1. PICK f \in Nat : V = 4 * f + b
    BY <1>1
  <2>2. V * 8 = 32 * f + 8 * b
    BY <2>1
  <2> QED
    BY <1>1, <2>2
<1>4. v \in Nat /\ c \in Nat /\ v1 \in Nat /\ v1 % 4096 = (v * 32 + c) % 4096
  OBVIOUS
<1> HIDE DEF Ends2
<1>5. PICK m \in Nat : m = 2048 * g + (32 * h + c)
  BY <1>1, <1>3, <1>4
<1>6. m = v * 32 + c
  BY <1>2, <1>5, <1>4
<1>7. v1 % 4096 = m % 4096 /\ v1 \in Nat
  BY <1>6, <1>4
<1>8. m % 2048 = 32 * h + c
  <2>1. PICK k \in 0 .. 2047 : k = 32 * h + c
    BY <1>3, <1>4
  <2>2. m = 2048 * g + k
    BY <1>5, <2>1
  <2>3. m % 2048 = k
    BY <2>2
  <2> QED
    BY <2>1, <2>3
<1>9. v1 % 2048 = m % 2048
  BY <1>7, Modulo
<1>10. (v1 \div 8) % 256 = (v1 % 2048) \div 8
  BY <1>7, EightBits
<1> QED
  BY <1>1, <1>3, <1>8, <1>9, <1>10

Ends3(V, v, y, c, v1) ==
  /\ V \in Nat /\ v \in Nat /\ y \in 0 .. 255 /\ V % 8 = y % 8 /\ v % 32 = y \div 8
  /\ c \in Nat /\ c = (V * 4) % 32 /\ v1 \in Nat /\ v1 % 4096 = (v * 32 + c) % 4096

LEMMA End3 ==
  ASSUME NEW V, NEW v, NEW y, NEW c, NEW v1, Ends3(V, v, y, c, v1)
  PROVE (v1 \div 4) % 256 = y
<1> USE DEF Ends3
<1>1. PICK h \in 0 .. 31, b \in 0 .. 7 : y = 8 * h + b /\ h = y \div 8 /\ b = y % 8
  OBVIOUS
<1>2. PICK g \in Nat : v = 32 * g + h
  BY <1>1
<1>3. c = 4 * b
  <2>1. PICK f \in Nat : V = 8 * f + b
    BY <1>1
  <2>2. V * 4 = 32 * f + 4 * b
    BY <2>1
  <2> QED
    BY <1>1, <2>2
<1>4. v \in Nat /\ c \in Nat /\ v1 \in Nat /\ v1 % 4096 = (v * 32 + c) % 4096
  OBVIOUS
<1> HIDE DEF Ends3
<1>5. PICK m \in Nat : m = 1024 * g + (32 * h + c)
  BY <1>1, <1>3, <1>4
<1>6. m = v * 32 + c
  BY <1>2, <1>5, <1>4
<1>7. v1 % 4096 = m % 4096 /\ v1 \in Nat
  BY <1>6, <1>4
<1>8. m % 1024 = 32 * h + c
  <2>1. PICK k \in 0 .. 1023 : k = 32 * h + c
    BY <1>3, <1>4
  <2>2. m = 1024 * g + k
    BY <1>5, <2>1
  <2>3. m % 1024 = k
    BY <2>2
  <2> QED
    BY <2>1, <2>3
<1>9. v1 % 1024 = m % 1024
  BY <1>7, Modulo
<1>10. (v1 \div 4) % 256 = (v1 % 1024) \div 4
  BY <1>7, EightBits
<1> QED
  BY <1>1, <1>3, <1>8, <1>9, <1>10

Ends4(V, v, y, c, v1) ==
  /\ V \in Nat /\ v \in Nat /\ y \in 0 .. 255 /\ V % 16 = y % 16 /\ v % 16 = y \div 16
  /\ c \in Nat /\ c = (V * 2) % 32 /\ v1 \in Nat /\ v1 % 4096 = (v * 32 + c) % 4096

LEMMA End4 ==
  ASSUME NEW V, NEW v, NEW y, NEW c, NEW v1, Ends4(V, v, y, c, v1)
  PROVE (v1 \div 2) % 256 = y
<1> USE DEF Ends4
<1>1. PICK h \in 0 .. 15, b \in 0 .. 15 : y = 16 * h + b /\ h = y \div 16 /\ b = y % 16
  OBVIOUS
<1>2. PICK g \in Nat : v = 16 * g + h
  BY <1>1
<1>3. c = 2 * b
  <2>1. PICK f \in Nat : V = 16 * f + b
    BY <1>1
  <2>2. V * 2 = 32 * f + 2 * b
    BY <2>1
  <2> QED
    BY <1>1, <2>2
<1>4. v \in Nat /\ c \in Nat /\ v1 \in Nat /\ v1 % 4096 = (v * 32 + c) % 4096
  OBVIOUS
<1> HIDE DEF Ends4
<1>5. PICK m \in Nat : m = 512 * g + (32 * h + c)
  BY <1>1, <1>3, <1>4
<1>6. m = v * 32 + c
  BY <1>2, <1>5, <1>4
<1>7. v1 % 4096 = m % 4096 /\ v1 \in Nat
  BY <1>6, <1>4
<1>8. m % 512 = 32 * h + c
  <2>1. PICK k \in 0 .. 511 : k = 32 * h + c
    BY <1>3, <1>4
  <2>2. m = 512 * g + k
    BY <1>5, <2>1
  <2>3. m % 512 = k
    BY <2>2
  <2> QED
    BY <2>1, <2>3
<1>9. v1 % 512 = m % 512
  BY <1>7, Modulo
<1>10. (v1 \div 2) % 256 = (v1 % 512) \div 2
  BY <1>7, EightBits
<1> QED
  BY <1>1, <1>3, <1>8, <1>9, <1>10

-----------------------------------------------------------------------------
(***************************************************************************)
(* The encoder and the decoder, fed with bytes and with digits.             *)
(***************************************************************************)
Octets == 0 .. 255
Quintets == 0 .. 31
Base36 == 0 .. 35
Encoders == [value : Nat, bits : 0 .. 4, out : Seq(Quintets)]
Decoders == [value : Nat, bits : 0 .. 7, out : Seq(Octets)]
Encoding == [a \in Encoders |-> [b \in Octets |-> EncodeByte(a, b)]]
Decoding == [a \in Decoders |-> [d \in Base36 |-> DecodeDigit(a, d)]]

(* The powers of two that the codec shifts by.                              *)
LEMMA PowerIs ==
  ASSUME NEW e \in 0 .. 8
  PROVE /\ 2^e \in Nat /\ 2^e > 0
        /\ e = 0 => 2^e = 1
        /\ e = 1 => 2^e = 2
        /\ e = 2 => 2^e = 4
        /\ e = 3 => 2^e = 8
        /\ e = 4 => 2^e = 16
        /\ e = 5 => 2^e = 32
        /\ e = 6 => 2^e = 64
        /\ e = 7 => 2^e = 128
        /\ e = 8 => 2^e = 256
<1>1. 2^0 = 1 /\ 2^1 = 2 /\ 2^2 = 4 /\ 2^3 = 8 /\ 2^4 = 16 /\ 2^5 = 32 /\ 2^6 = 64 /\ 2^7 = 128 /\ 2^8 = 256
  BY SMT
<1>2. e \in {0, 1, 2, 3, 4, 5, 6, 7, 8}
  OBVIOUS
<1>3. e = 0 => 2^e = 1
  BY <1>1, Zenon
<1>4. e = 1 => 2^e = 2
  BY <1>1, Zenon
<1>5. e = 2 => 2^e = 4
  BY <1>1, Zenon
<1>6. e = 3 => 2^e = 8
  BY <1>1, Zenon
<1>7. e = 4 => 2^e = 16
  BY <1>1, Zenon
<1>8. e = 5 => 2^e = 32
  BY <1>1, Zenon
<1>9. e = 6 => 2^e = 64
  BY <1>1, Zenon
<1>10. e = 7 => 2^e = 128
  <2>1. 2^7 = 128
    BY <1>1
  <2> QED
    BY <2>1, Zenon
<1>11. e = 8 => 2^e = 256
  <2>1. 2^8 = 256
    BY <1>1
  <2> QED
    BY <2>1, Zenon
<1>12. e = 0 => 2^e \in Nat /\ 2^e > 0
  <2>1. 1 \in Nat /\ 1 > 0
    OBVIOUS
  <2> QED
    BY <1>3, <2>1, Zenon
<1>13. e = 1 => 2^e \in Nat /\ 2^e > 0
  <2>1. 2 \in Nat /\ 2 > 0
    OBVIOUS
  <2> QED
    BY <1>4, <2>1, Zenon
<1>14. e = 2 => 2^e \in Nat /\ 2^e > 0
  <2>1. 4 \in Nat /\ 4 > 0
    OBVIOUS
  <2> QED
    BY <1>5, <2>1, Zenon
<1>15. e = 3 => 2^e \in Nat /\ 2^e > 0
  <2>1. 8 \in Nat /\ 8 > 0
    OBVIOUS
  <2> QED
    BY <1>6, <2>1, Zenon
<1>16. e = 4 => 2^e \in Nat /\ 2^e > 0
  <2>1. 16 \in Nat /\ 16 > 0
    OBVIOUS
  <2> QED
    BY <1>7, <2>1, Zenon
<1>17. e = 5 => 2^e \in Nat /\ 2^e > 0
  <2>1. 32 \in Nat /\ 32 > 0
    OBVIOUS
  <2> QED
    BY <1>8, <2>1, Zenon
<1>18. e = 6 => 2^e \in Nat /\ 2^e > 0
  <2>1. 64 \in Nat /\ 64 > 0
    OBVIOUS
  <2> QED
    BY <1>9, <2>1, Zenon
<1>19. e = 7 => 2^e \in Nat /\ 2^e > 0
  <2>1. 128 \in Nat /\ 128 > 0
    OBVIOUS
  <2> QED
    BY <1>10, <2>1, Zenon
<1>20. e = 8 => 2^e \in Nat /\ 2^e > 0
  <2>1. 256 \in Nat /\ 256 > 0
    OBVIOUS
  <2> QED
    BY <1>11, <2>1, Zenon
<1>21. 2^e \in Nat /\ 2^e > 0
  BY <1>2, <1>12, <1>13, <1>14, <1>15, <1>16, <1>17, <1>18, <1>19, <1>20, Zenon
<1> QED
  BY <1>3, <1>4, <1>5, <1>6, <1>7, <1>8, <1>9, <1>10, <1>11, <1>21, Zenon

LEMMA EncodeByteTyped ==
  ASSUME NEW a \in Encoders, NEW b \in Octets
  PROVE EncodeByte(a, b) \in Encoders
<1>1. PICK value \in Nat : value = Shift(a.value, 8, b)
  <2>1. a.value * 2^8 + b \in Nat
    BY PowerIs DEF Encoders, Octets
  <2> QED
    BY <2>1, RegisterAssumption DEF Shift
<1>2. PICK bits \in 8 .. 12 : bits = a.bits + 8
  BY DEF Encoders
<1> DEFINE new == [k \in 1 .. bits \div 5 |-> (value \div 2^(bits - 5 * k)) % 32]
<1>3. EncodeByte(a, b) = [value |-> value, bits |-> bits % 5, out |-> a.out \o new]
  BY <1>1, <1>2 DEF EncodeByte
<1>4. new \in Seq(Quintets)
  <2>1. ASSUME NEW k \in 1 .. bits \div 5 PROVE (value \div 2^(bits - 5 * k)) % 32 \in Quintets
    <3>1. bits - 5 * k \in 0 .. 8
      OBVIOUS
    <3>2. PICK d \in Nat : d = 2^(bits - 5 * k) /\ d > 0
      BY <3>1, PowerIs
    <3>3. value \div d \in Int
      BY <3>2
    <3> QED
      BY <3>2, <3>3 DEF Quintets
  <2>2. bits \div 5 \in Nat
    OBVIOUS
  <2> QED
    BY <2>1, <2>2
<1> HIDE DEF new
<1>5. a.out \o new \in Seq(Quintets) /\ bits % 5 \in 0 .. 4
  BY <1>4 DEF Encoders
<1> QED
  BY <1>3, <1>5 DEF Encoders

LEMMA EncodeRun ==
  ASSUME NEW s \in Seq(Octets)
  PROVE \E h : Run(h, Encoders, Encoding, NoBits, s) /\ FoldLeft(EncodeByte, NoBits, s) = h[Len(s)]
<1>1. NoBits \in Encoders /\ Encoding \in [Encoders -> [Octets -> Encoders]]
  BY EncodeByteTyped DEF Encoding, Encoders, NoBits
<1>2. Len(s) \in Nat /\ DOMAIN s = 1 .. Len(s) /\ \A i \in 1 .. Len(s) : s[i] \in Octets
  OBVIOUS
<1> DEFINE Body(g) == [t \in SUBSET (DOMAIN s) |->
                        IF t = {} THEN NoBits ELSE EncodeByte(g[t \ {Max(t)}], s[Max(t)])]
<1>3. \E g : g = Body(g)
  <2>1. Folds(Encoders, Octets, NoBits, s, Encoding)
    BY <1>1 DEF Folds
  <2>2. PICK g : Solution(g, Encoders, NoBits, s, Encoding)
    BY <2>1, FoldSolution
  <2>3. ASSUME NEW t \in SUBSET (DOMAIN s), t # {}
        PROVE Encoding[g[t \ {Max(t)}]][s[Max(t)]] = EncodeByte(g[t \ {Max(t)}], s[Max(t)])
    <3>1. t \in SUBSET (0 .. Len(s))
      BY <1>2
    <3>2. Max(t) \in 1 .. Len(s)
      BY <1>2, <2>3, <3>1, MaxOf
    <3> QED
      BY <1>2, <2>2, <3>2 DEF Encoding, Solution
  <2>4. g = Body(g)
    BY <2>2, <2>3 DEF Solution
  <2> QED
    BY <2>4
<1>4. PICK g : g = Body(g) /\ FoldLeft(EncodeByte, NoBits, s) = g[DOMAIN s]
  BY <1>3 DEF FoldLeft, MapThenFoldSet
<1> HIDE DEF Body
<1>5. \A t \in SUBSET (DOMAIN s) :
        g[t] = IF t = {} THEN NoBits ELSE EncodeByte(g[t \ {Max(t)}], s[Max(t)])
  BY <1>4 DEF Body
<1>6. \A a \in Encoders, b \in Octets : Encoding[a][b] = EncodeByte(a, b)
  BY DEF Encoding
<1>7. Folds(Encoders, Octets, NoBits, s, Encoding)
  BY <1>1 DEF Folds
<1>8. Iterates(g, Encoders, NoBits, s, Encoding)
  <2>1. g[{}] = NoBits
    BY <1>5
  <2>2. ASSUME NEW k \in 1 .. Len(s), g[1 .. (k - 1)] \in Encoders
        PROVE g[1 .. k] = Encoding[g[1 .. (k - 1)]][s[k]]
    <3>1. /\ Max(1 .. k) = k /\ (1 .. k) \ {k} = 1 .. (k - 1)
          /\ 1 .. k \in SUBSET (DOMAIN s) /\ 1 .. k # {} /\ s[k] \in Octets
      BY <1>7, Beginnings
    <3>2. g[1 .. k] = EncodeByte(g[(1 .. k) \ {Max(1 .. k)}], s[Max(1 .. k)])
      BY <1>5, <3>1
    <3>3. g[1 .. k] = EncodeByte(g[1 .. (k - 1)], s[k])
      BY <3>1, <3>2
    <3> QED
      BY <1>6, <2>2, <3>1, <3>3
  <2> QED
    BY <2>1, <2>2 DEF Iterates
<1> QED
  BY <1>4, <1>7, <1>8, IsRun

LEMMA EncodeAppend ==
  ASSUME NEW s \in Seq(Octets), NEW x \in Octets
  PROVE /\ FoldLeft(EncodeByte, NoBits, s) \in Encoders
        /\ FoldLeft(EncodeByte, NoBits, Append(s, x)) = EncodeByte(FoldLeft(EncodeByte, NoBits, s), x)
<1>1. NoBits \in Encoders /\ Encoding \in [Encoders -> [Octets -> Encoders]]
  BY EncodeByteTyped DEF Encoding, Encoders, NoBits
<1>2. PICK g : Run(g, Encoders, Encoding, NoBits, s) /\ FoldLeft(EncodeByte, NoBits, s) = g[Len(s)]
  BY EncodeRun
<1>3. PICK h : /\ Run(h, Encoders, Encoding, NoBits, Append(s, x))
               /\ FoldLeft(EncodeByte, NoBits, Append(s, x)) = h[Len(Append(s, x))]
  BY Append(s, x) \in Seq(Octets), EncodeRun
<1>4. h[Len(Append(s, x))] = Encoding[g[Len(s)]][x]
  <2>1. Runs(Encoders, Octets, NoBits, Encoding, s, x, g, h)
    BY <1>1, <1>2, <1>3 DEF Runs, Folds
  <2> QED
    BY <2>1, RunAppended
<1>5. g[Len(s)] \in Encoders
  BY <1>2 DEF Run
<1> QED
  BY <1>2, <1>3, <1>4, <1>5 DEF Encoding

LEMMA DecodeDigitTyped ==
  ASSUME NEW a \in Decoders, NEW d \in Base36
  PROVE DecodeDigit(a, d) \in Decoders
<1>1. PICK value \in Nat : value = Or5(a.value, d)
  <2>1. a.value \in Nat /\ a.value + 1 \in Nat /\ d % 32 \in Nat
    BY DEF Decoders, Base36
  <2>2. ASSUME NEW v \in Nat PROVE Shift(v, 5, d % 32) \in Nat
    <3>1. PICK low \in Nat : low = d % 32
      BY <2>1
    <3>2. v * 2^5 + low \in Nat
      BY PowerIs
    <3> QED
      BY <3>1, <3>2, RegisterAssumption DEF Shift
  <2> QED
    BY <2>1, <2>2 DEF Or5
<1>2. PICK bits \in 5 .. 12 : bits = a.bits + 5
  BY DEF Decoders
<1>3. CASE bits < 8
  <2>1. DecodeDigit(a, d) = [a EXCEPT !.value = value, !.bits = bits]
    BY <1>1, <1>2, <1>3 DEF DecodeDigit
  <2>2. bits \in 0 .. 7
    BY <1>3
  <2> QED
    BY <2>1, <2>2 DEF Decoders
<1>4. CASE ~(bits < 8)
  <2>1. DecodeDigit(a, d) = [value |-> value, bits |-> bits - 8,
                             out |-> Append(a.out, (value \div 2^(bits - 8)) % 256)]
    BY <1>1, <1>2, <1>4 DEF DecodeDigit
  <2>2. bits - 8 \in 0 .. 7 /\ bits - 8 \in 0 .. 8
    BY <1>4
  <2>3. PICK p \in Nat : p = 2^(bits - 8) /\ p > 0
    BY <2>2, PowerIs
  <2>4. (value \div p) % 256 \in Octets
    BY <2>3 DEF Octets
  <2>5. Append(a.out, (value \div p) % 256) \in Seq(Octets)
    BY <2>4 DEF Decoders
  <2> QED
    BY <2>1, <2>2, <2>3, <2>5 DEF Decoders
<1> QED
  BY <1>3, <1>4

LEMMA DecodeRun ==
  ASSUME NEW s \in Seq(Base36)
  PROVE \E h : Run(h, Decoders, Decoding, NoBits, s) /\ FoldLeft(DecodeDigit, NoBits, s) = h[Len(s)]
<1>1. NoBits \in Decoders /\ Decoding \in [Decoders -> [Base36 -> Decoders]]
  BY DecodeDigitTyped DEF Decoding, Decoders, NoBits
<1>2. Len(s) \in Nat /\ DOMAIN s = 1 .. Len(s) /\ \A i \in 1 .. Len(s) : s[i] \in Base36
  OBVIOUS
<1> DEFINE Body(g) == [t \in SUBSET (DOMAIN s) |->
                        IF t = {} THEN NoBits ELSE DecodeDigit(g[t \ {Max(t)}], s[Max(t)])]
<1>3. \E g : g = Body(g)
  <2>1. Folds(Decoders, Base36, NoBits, s, Decoding)
    BY <1>1 DEF Folds
  <2>2. PICK g : Solution(g, Decoders, NoBits, s, Decoding)
    BY <2>1, FoldSolution
  <2>3. ASSUME NEW t \in SUBSET (DOMAIN s), t # {}
        PROVE Decoding[g[t \ {Max(t)}]][s[Max(t)]] = DecodeDigit(g[t \ {Max(t)}], s[Max(t)])
    <3>1. t \in SUBSET (0 .. Len(s))
      BY <1>2
    <3>2. Max(t) \in 1 .. Len(s)
      BY <1>2, <2>3, <3>1, MaxOf
    <3> QED
      BY <1>2, <2>2, <3>2 DEF Decoding, Solution
  <2>4. g = Body(g)
    BY <2>2, <2>3 DEF Solution
  <2> QED
    BY <2>4
<1>4. PICK g : g = Body(g) /\ FoldLeft(DecodeDigit, NoBits, s) = g[DOMAIN s]
  BY <1>3 DEF FoldLeft, MapThenFoldSet
<1> HIDE DEF Body
<1>5. \A t \in SUBSET (DOMAIN s) :
        g[t] = IF t = {} THEN NoBits ELSE DecodeDigit(g[t \ {Max(t)}], s[Max(t)])
  BY <1>4 DEF Body
<1>6. \A a \in Decoders, b \in Base36 : Decoding[a][b] = DecodeDigit(a, b)
  BY DEF Decoding
<1>7. Folds(Decoders, Base36, NoBits, s, Decoding)
  BY <1>1 DEF Folds
<1>8. Iterates(g, Decoders, NoBits, s, Decoding)
  <2>1. g[{}] = NoBits
    BY <1>5
  <2>2. ASSUME NEW k \in 1 .. Len(s), g[1 .. (k - 1)] \in Decoders
        PROVE g[1 .. k] = Decoding[g[1 .. (k - 1)]][s[k]]
    <3>1. /\ Max(1 .. k) = k /\ (1 .. k) \ {k} = 1 .. (k - 1)
          /\ 1 .. k \in SUBSET (DOMAIN s) /\ 1 .. k # {} /\ s[k] \in Base36
      BY <1>7, Beginnings
    <3>2. g[1 .. k] = DecodeDigit(g[(1 .. k) \ {Max(1 .. k)}], s[Max(1 .. k)])
      BY <1>5, <3>1
    <3>3. g[1 .. k] = DecodeDigit(g[1 .. (k - 1)], s[k])
      BY <3>1, <3>2
    <3> QED
      BY <1>6, <2>2, <3>1, <3>3
  <2> QED
    BY <2>1, <2>2 DEF Iterates
<1> QED
  BY <1>4, <1>7, <1>8, IsRun

LEMMA DecodeAppend ==
  ASSUME NEW s \in Seq(Base36), NEW x \in Base36
  PROVE /\ FoldLeft(DecodeDigit, NoBits, s) \in Decoders
        /\ FoldLeft(DecodeDigit, NoBits, Append(s, x)) = DecodeDigit(FoldLeft(DecodeDigit, NoBits, s), x)
<1>1. NoBits \in Decoders /\ Decoding \in [Decoders -> [Base36 -> Decoders]]
  BY DecodeDigitTyped DEF Decoding, Decoders, NoBits
<1>2. PICK g : Run(g, Decoders, Decoding, NoBits, s) /\ FoldLeft(DecodeDigit, NoBits, s) = g[Len(s)]
  BY DecodeRun
<1>3. PICK h : /\ Run(h, Decoders, Decoding, NoBits, Append(s, x))
               /\ FoldLeft(DecodeDigit, NoBits, Append(s, x)) = h[Len(Append(s, x))]
  BY Append(s, x) \in Seq(Base36), DecodeRun
<1>4. h[Len(Append(s, x))] = Decoding[g[Len(s)]][x]
  <2>1. Runs(Decoders, Base36, NoBits, Decoding, s, x, g, h)
    BY <1>1, <1>2, <1>3 DEF Runs, Folds
  <2> QED
    BY <2>1, RunAppended
<1>5. g[Len(s)] \in Decoders
  BY <1>2 DEF Run
<1> QED
  BY <1>2, <1>3, <1>4, <1>5 DEF Decoding

LEMMA DecoderTyped ==
  ASSUME NEW s \in Seq(Base36)
  PROVE FoldLeft(DecodeDigit, NoBits, s) \in Decoders
<1>1. PICK h : Run(h, Decoders, Decoding, NoBits, s) /\ FoldLeft(DecodeDigit, NoBits, s) = h[Len(s)]
  BY DecodeRun
<1> QED
  BY <1>1 DEF Run

LEMMA CodesOfNothing ==
  FoldLeft(EncodeByte, NoBits, << >>) = NoBits /\ FoldLeft(DecodeDigit, NoBits, << >>) = NoBits
<1>1. << >> \in Seq(Octets) /\ << >> \in Seq(Base36) /\ Len(<< >>) = 0
  OBVIOUS
<1>2. FoldLeft(EncodeByte, NoBits, << >>) = NoBits
  BY <1>1, EncodeRun DEF Run
<1>3. FoldLeft(DecodeDigit, NoBits, << >>) = NoBits
  BY <1>1, DecodeRun DEF Run
<1> QED
  BY <1>2, <1>3

-----------------------------------------------------------------------------
(* What one byte, or one digit adds, bit by bit.                          *)
Encoded0(e, x, V) ==
  EncodeByte(e, x) = [value |-> V, bits |-> 3, out |-> Append(e.out, (V \div 8) % 32)]
Encoded1(e, x, V) ==
  EncodeByte(e, x) = [value |-> V, bits |-> 4, out |-> Append(e.out, (V \div 16) % 32)]
Encoded2(e, x, V) ==
  EncodeByte(e, x) = [value |-> V, bits |-> 0, out |-> Append(Append(e.out, (V \div 32) % 32), V % 32)]
Encoded3(e, x, V) ==
  EncodeByte(e, x) = [value |-> V, bits |-> 1, out |-> Append(Append(e.out, (V \div 64) % 32), (V \div 2) % 32)]
Encoded4(e, x, V) ==
  EncodeByte(e, x) = [value |-> V, bits |-> 2, out |-> Append(Append(e.out, (V \div 128) % 32), (V \div 4) % 32)]
Encoded(e, x, V) ==
  /\ V % 4096 = (e.value * 256 + x) % 4096
  /\ e.bits = 0 => Encoded0(e, x, V)
  /\ e.bits = 1 => Encoded1(e, x, V)
  /\ e.bits = 2 => Encoded2(e, x, V)
  /\ e.bits = 3 => Encoded3(e, x, V)
  /\ e.bits = 4 => Encoded4(e, x, V)

LEMMA EncodedByte ==
  ASSUME NEW e \in Encoders, NEW x \in Octets
  PROVE \E V \in Nat : Encoded(e, x, V)
<1>1. PICK n \in Nat : n = e.value * 2^8 + x /\ n = e.value * 256 + x
  <2>1. e.value * 2^8 + x = e.value * 256 + x
    BY PowerIs
  <2> QED
    BY <2>1 DEF Encoders, Octets
<1>2. PICK V \in Nat : V = Shift(e.value, 8, x) /\ V % 4096 = n % 4096
  BY <1>1, LowBits, RegisterAssumption DEF Shift
<1>3. PICK s \in Seq(Quintets) : s = e.out
  BY DEF Encoders
<1>4. PICK bits \in 8 .. 12 : bits = e.bits + 8
  BY DEF Encoders
<1> DEFINE new == [k \in 1 .. bits \div 5 |-> (V \div 2^(bits - 5 * k)) % 32]
<1>5. EncodeByte(e, x) = [value |-> V, bits |-> bits % 5, out |-> s \o new]
  BY <1>2, <1>3, <1>4 DEF EncodeByte
<1>6. e.bits = 0 => Encoded0(e, x, V)
  <2> SUFFICES ASSUME e.bits = 0 PROVE EncodeByte(e, x) =
               [value |-> V, bits |-> 3, out |-> Append(s, (V \div 8) % 32)]
    BY <1>3 DEF Encoded0
  <2>1. bits \div 5 = 1 /\ bits % 5 = 3 /\ bits - 5 * 1 = 3
    BY <1>4
  <2>2. new = << (V \div 8) % 32 >>
    <3>1. 2^3 = 8
      BY SMT
    <3>2. DOMAIN new = 1 .. 1 /\ new[1] = (V \div 8) % 32
      BY <2>1, <3>1
    <3>3. 1 .. 1 = {1} /\ new = [k \in DOMAIN new |-> new[k]]
      OBVIOUS
    <3> HIDE DEF new
    <3> QED
      BY <3>2, <3>3
  <2> HIDE DEF new
  <2>3. s \o new = Append(s, (V \div 8) % 32)
    BY <2>2
  <2> QED
    BY <1>5, <2>1, <2>3, Zenon
<1>7. e.bits = 1 => Encoded1(e, x, V)
  <2> SUFFICES ASSUME e.bits = 1 PROVE EncodeByte(e, x) =
               [value |-> V, bits |-> 4, out |-> Append(s, (V \div 16) % 32)]
    BY <1>3 DEF Encoded1
  <2>1. bits \div 5 = 1 /\ bits % 5 = 4 /\ bits - 5 * 1 = 4
    BY <1>4
  <2>2. new = << (V \div 16) % 32 >>
    <3>1. 2^4 = 16
      BY SMT
    <3>2. DOMAIN new = 1 .. 1 /\ new[1] = (V \div 16) % 32
      BY <2>1, <3>1
    <3>3. 1 .. 1 = {1} /\ new = [k \in DOMAIN new |-> new[k]]
      OBVIOUS
    <3> HIDE DEF new
    <3> QED
      BY <3>2, <3>3
  <2> HIDE DEF new
  <2>3. s \o new = Append(s, (V \div 16) % 32)
    BY <2>2
  <2> QED
    BY <1>5, <2>1, <2>3, Zenon
<1>8. e.bits = 2 => Encoded2(e, x, V)
  <2> SUFFICES ASSUME e.bits = 2 PROVE EncodeByte(e, x) =
               [value |-> V, bits |-> 0, out |-> Append(Append(s, (V \div 32) % 32), V % 32)]
    BY <1>3 DEF Encoded2
  <2>1. bits \div 5 = 2 /\ bits % 5 = 0 /\ bits - 5 * 1 = 5 /\ bits - 5 * 2 = 0
    BY <1>4
  <2>2. new = << (V \div 32) % 32, V % 32 >>
    <3>1. 2^5 = 32 /\ 2^0 = 1
      BY SMT
    <3>2. DOMAIN new = 1 .. 2 /\ new[1] = (V \div 32) % 32 /\ new[2] = V % 32
      BY <2>1, <3>1
    <3>3. 1 .. 2 = {1, 2} /\ new = [k \in DOMAIN new |-> new[k]]
      OBVIOUS
    <3> HIDE DEF new
    <3> QED
      BY <3>2, <3>3
  <2> HIDE DEF new
  <2>3. s \o new = Append(Append(s, (V \div 32) % 32), V % 32)
    BY <2>2
  <2> QED
    BY <1>5, <2>1, <2>3, Zenon
<1>9. e.bits = 3 => Encoded3(e, x, V)
  <2> SUFFICES ASSUME e.bits = 3 PROVE EncodeByte(e, x) =
               [value |-> V, bits |-> 1, out |-> Append(Append(s, (V \div 64) % 32), (V \div 2) % 32)]
    BY <1>3 DEF Encoded3
  <2>1. bits \div 5 = 2 /\ bits % 5 = 1 /\ bits - 5 * 1 = 6 /\ bits - 5 * 2 = 1
    BY <1>4
  <2>2. new = << (V \div 64) % 32, (V \div 2) % 32 >>
    <3>1. 2^6 = 64 /\ 2^1 = 2
      BY SMT
    <3>2. DOMAIN new = 1 .. 2 /\ new[1] = (V \div 64) % 32 /\ new[2] = (V \div 2) % 32
      BY <2>1, <3>1
    <3>3. 1 .. 2 = {1, 2} /\ new = [k \in DOMAIN new |-> new[k]]
      OBVIOUS
    <3> HIDE DEF new
    <3> QED
      BY <3>2, <3>3
  <2> HIDE DEF new
  <2>3. s \o new = Append(Append(s, (V \div 64) % 32), (V \div 2) % 32)
    BY <2>2
  <2> QED
    BY <1>5, <2>1, <2>3, Zenon
<1>10. e.bits = 4 => Encoded4(e, x, V)
  <2> SUFFICES ASSUME e.bits = 4 PROVE EncodeByte(e, x) =
               [value |-> V, bits |-> 2, out |-> Append(Append(s, (V \div 128) % 32), (V \div 4) % 32)]
    BY <1>3 DEF Encoded4
  <2>1. bits \div 5 = 2 /\ bits % 5 = 2 /\ bits - 5 * 1 = 7 /\ bits - 5 * 2 = 2
    BY <1>4
  <2>2. new = << (V \div 128) % 32, (V \div 4) % 32 >>
    <3>1. 2^7 = 128 /\ 2^2 = 4
      BY SMT
    <3>2. DOMAIN new = 1 .. 2 /\ new[1] = (V \div 128) % 32 /\ new[2] = (V \div 4) % 32
      BY <2>1, <3>1
    <3>3. 1 .. 2 = {1, 2} /\ new = [k \in DOMAIN new |-> new[k]]
      OBVIOUS
    <3> HIDE DEF new
    <3> QED
      BY <3>2, <3>3
  <2> HIDE DEF new
  <2>3. s \o new = Append(Append(s, (V \div 128) % 32), (V \div 4) % 32)
    BY <2>2
  <2> QED
    BY <1>5, <2>1, <2>3, Zenon
<1>11. V % 4096 = (e.value * 256 + x) % 4096
  BY <1>1, <1>2
<1>12. Encoded(e, x, V)
  BY <1>11, <1>6, <1>7, <1>8, <1>9, <1>10, SMT DEF Encoded
<1> QED
  BY <1>12

Decoded(d, c, v) ==
  /\ v % 4096 = (d.value * 32 + c) % 4096
  /\ d.bits < 3 => DecodeDigit(d, c) = [value |-> v, bits |-> d.bits + 5, out |-> d.out]
  /\ d.bits = 3 => DecodeDigit(d, c) = [value |-> v, bits |-> 0, out |-> Append(d.out, v % 256)]
  /\ d.bits = 4 => DecodeDigit(d, c) = [value |-> v, bits |-> 1, out |-> Append(d.out, (v \div 2) % 256)]
  /\ d.bits = 5 => DecodeDigit(d, c) = [value |-> v, bits |-> 2, out |-> Append(d.out, (v \div 4) % 256)]
  /\ d.bits = 6 => DecodeDigit(d, c) = [value |-> v, bits |-> 3, out |-> Append(d.out, (v \div 8) % 256)]
  /\ d.bits = 7 => DecodeDigit(d, c) = [value |-> v, bits |-> 4, out |-> Append(d.out, (v \div 16) % 256)]

LEMMA DecodedDigit ==
  ASSUME NEW d \in Decoders, NEW c \in Quintets
  PROVE \E v \in Nat : Decoded(d, c, v)
<1>1. PICK n \in Nat : n = d.value * 2^5 + c /\ n = d.value * 32 + c
  <2>1. d.value * 2^5 + c = d.value * 32 + c
    BY PowerIs
  <2> QED
    BY <2>1 DEF Decoders, Quintets
<1>2. PICK v \in Nat : v = Shift(d.value, 5, c) /\ v % 4096 = n % 4096
  BY <1>1, LowBits, RegisterAssumption DEF Shift
<1>3. Or5(d.value, c) = v
  <2>1. c % 32 = c /\ ~(c >= 32)
    BY DEF Quintets
  <2> QED
    BY <1>2, <2>1 DEF Or5
<1>4. PICK bits \in 5 .. 12 : bits = d.bits + 5
  BY DEF Decoders
<1>5. d.bits < 3 => DecodeDigit(d, c) = [value |-> v, bits |-> d.bits + 5, out |-> d.out]
  <2> SUFFICES ASSUME bits < 8 PROVE DecodeDigit(d, c) = [value |-> v, bits |-> bits, out |-> d.out]
    BY <1>4 DEF Decoders
  <2>1. DecodeDigit(d, c) = [d EXCEPT !.value = v, !.bits = bits]
    BY <1>3, <1>4 DEF DecodeDigit
  <2> QED
    BY <2>1 DEF Decoders
<1>6. d.bits = 3 => DecodeDigit(d, c) = [value |-> v, bits |-> 0, out |-> Append(d.out, v % 256)]
  <2> SUFFICES ASSUME bits = 8 PROVE DecodeDigit(d, c) = [value |-> v, bits |-> 0, out |-> Append(d.out, v % 256)]
    BY <1>4
  <2>1. ~(bits < 8) /\ bits - 8 = 0
    OBVIOUS
  <2>2. 2^0 = 1
    BY SMT
  <2>3. DecodeDigit(d, c) = [value |-> v, bits |-> bits - 8, out |-> Append(d.out, (v \div 2^(bits - 8)) % 256)]
    BY <1>3, <1>4, <2>1 DEF DecodeDigit
  <2>4. v \div 1 = v
    OBVIOUS
  <2> QED
    BY <2>1, <2>2, <2>3, <2>4
<1>7. d.bits = 4 => DecodeDigit(d, c) = [value |-> v, bits |-> 1, out |-> Append(d.out, (v \div 2) % 256)]
  <2> SUFFICES ASSUME bits = 9 PROVE DecodeDigit(d, c) = [value |-> v, bits |-> 1, out |-> Append(d.out, (v \div 2) % 256)]
    BY <1>4
  <2>1. ~(bits < 8) /\ bits - 8 = 1
    OBVIOUS
  <2>2. 2^1 = 2
    BY SMT
  <2>3. DecodeDigit(d, c) = [value |-> v, bits |-> bits - 8, out |-> Append(d.out, (v \div 2^(bits - 8)) % 256)]
    BY <1>3, <1>4, <2>1 DEF DecodeDigit
  <2> QED
    BY <2>1, <2>2, <2>3
<1>8. d.bits = 5 => DecodeDigit(d, c) = [value |-> v, bits |-> 2, out |-> Append(d.out, (v \div 4) % 256)]
  <2> SUFFICES ASSUME bits = 10 PROVE DecodeDigit(d, c) = [value |-> v, bits |-> 2, out |-> Append(d.out, (v \div 4) % 256)]
    BY <1>4
  <2>1. ~(bits < 8) /\ bits - 8 = 2
    OBVIOUS
  <2>2. 2^2 = 4
    BY SMT
  <2>3. DecodeDigit(d, c) = [value |-> v, bits |-> bits - 8, out |-> Append(d.out, (v \div 2^(bits - 8)) % 256)]
    BY <1>3, <1>4, <2>1 DEF DecodeDigit
  <2> QED
    BY <2>1, <2>2, <2>3
<1>9. d.bits = 6 => DecodeDigit(d, c) = [value |-> v, bits |-> 3, out |-> Append(d.out, (v \div 8) % 256)]
  <2> SUFFICES ASSUME bits = 11 PROVE DecodeDigit(d, c) = [value |-> v, bits |-> 3, out |-> Append(d.out, (v \div 8) % 256)]
    BY <1>4
  <2>1. ~(bits < 8) /\ bits - 8 = 3
    OBVIOUS
  <2>2. 2^3 = 8
    BY SMT
  <2>3. DecodeDigit(d, c) = [value |-> v, bits |-> bits - 8, out |-> Append(d.out, (v \div 2^(bits - 8)) % 256)]
    BY <1>3, <1>4, <2>1 DEF DecodeDigit
  <2> QED
    BY <2>1, <2>2, <2>3
<1>10. d.bits = 7 => DecodeDigit(d, c) = [value |-> v, bits |-> 4, out |-> Append(d.out, (v \div 16) % 256)]
  <2> SUFFICES ASSUME bits = 12 PROVE DecodeDigit(d, c) = [value |-> v, bits |-> 4, out |-> Append(d.out, (v \div 16) % 256)]
    BY <1>4
  <2>1. ~(bits < 8) /\ bits - 8 = 4
    OBVIOUS
  <2>2. 2^4 = 16
    BY SMT
  <2>3. DecodeDigit(d, c) = [value |-> v, bits |-> bits - 8, out |-> Append(d.out, (v \div 2^(bits - 8)) % 256)]
    BY <1>3, <1>4, <2>1 DEF DecodeDigit
  <2> QED
    BY <2>1, <2>2, <2>3
<1>11. v % 4096 = (d.value * 32 + c) % 4096
  BY <1>1, <1>2
<1>12. Decoded(d, c, v)
  BY <1>5, <1>6, <1>7, <1>8, <1>9, <1>10, <1>11, SMT DEF Decoded
<1> QED
  BY <1>12

-----------------------------------------------------------------------------
(* The decoder, given what the encoder has put out, is behind it by the bits    *)
(* that the encoder still holds: those of a last byte y.                    *)
Halfway(e, d, y, bits, low, high) ==
  e.bits = bits /\ d.bits = 8 - bits /\ e.value % low = y % low /\ d.value % high = y \div low
Follows(s, e, d) ==
  \/ e.bits = 0 /\ d.bits = 0 /\ d.out = s
  \/ \E y \in Octets :
       /\ s = Append(d.out, y)
       /\ \/ Halfway(e, d, y, 1, 2, 128)
          \/ Halfway(e, d, y, 2, 4, 64)
          \/ Halfway(e, d, y, 3, 8, 32)
          \/ Halfway(e, d, y, 4, 16, 16)
Decoder(t) == FoldLeft(DecodeDigit, NoBits, t)

(* One byte more, by the number of bits that the encoder holds.             *)
LEMMA Follow0 ==
  ASSUME NEW s \in Seq(Octets), NEW x \in Octets, NEW e \in Encoders, NEW d \in Decoders, d = Decoder(e.out),
         e.bits = 0, d.bits = 0, d.out = s
  PROVE LET e1 == EncodeByte(e, x) IN Follows(Append(s, x), e1, Decoder(e1.out))
<1>1. PICK V \in Nat : Encoded(e, x, V)
  BY EncodedByte
<1>2. PICK a \in Quintets : a = (V \div 8) % 32
  BY FiveBits DEF Quintets
<1>3. PICK v1 \in Nat : Decoded(d, a, v1)
  BY DecodedDigit
<1>4. e.out \in Seq(Base36) /\ a \in Base36
  BY DEF Encoders, Quintets, Base36
<1>5. PICK d1 \in Decoders : d1 = DecodeDigit(d, a) /\ d1 = Decoder(Append(e.out, a))
  BY <1>4, DecodeAppend, DecodeDigitTyped DEF Decoder
<1>6. d1 = [value |-> v1, bits |-> 5, out |-> d.out]
  BY <1>3, <1>5 DEF Decoded
<1>7. d.value \in Nat /\ e.value \in Nat /\ a \in Nat /\ x \in 0 .. 255
  BY DEF Encoders, Decoders, Quintets, Octets
<1>8. V % 4096 = (e.value * 256 + x) % 4096 /\ v1 % 4096 = (d.value * 32 + a) % 4096
  BY <1>1, <1>3 DEF Encoded, Decoded
<1>9. /\ v1 % 32 = x \div 8 /\ V % 8 = x % 8
  <2>1. Codes0(e.value, d.value, x, V, a, v1)
    BY <1>2, <1>7, <1>8 DEF Codes0
  <2> QED
    BY <2>1, Step0
<1>10. PICK e1 : e1 = EncodeByte(e, x) /\ e1 = [value |-> V, bits |-> 3, out |-> Append(e.out, a)]
  <2>1. EncodeByte(e, x) = [value |-> V, bits |-> 3, out |-> Append(e.out, (V \div 8) % 32)]
    BY <1>1, SMT DEF Encoded, Encoded0
  <2>2. EncodeByte(e, x) = [value |-> V, bits |-> 3, out |-> Append(e.out, a)]
    BY <1>2, <2>1
  <2> QED
    BY <2>2
<1>11. Decoder(e1.out) = d1 /\ d1.bits = 5 /\ d1.out = s /\ d1.value = v1
  <2>1. e1.out = Append(e.out, a)
    BY <1>10
  <2>2. Decoder(e1.out) = d1
    BY <1>5, <2>1, Zenon
  <2> QED
    BY <1>6, <1>9, <2>2
<1>12. Halfway(e1, d1, x, 3, 8, 32)
  BY <1>9, <1>10, <1>11 DEF Halfway
<1>13. Append(s, x) = Append(d1.out, x)
  BY <1>11
<1>14. Follows(Append(s, x), e1, d1)
  BY <1>12, <1>13 DEF Follows
<1> QED
  BY <1>10, <1>11, <1>14

LEMMA Follow1 ==
  ASSUME NEW s \in Seq(Octets), NEW x \in Octets, NEW e \in Encoders, NEW d \in Decoders, d = Decoder(e.out),
         NEW y \in Octets, s = Append(d.out, y), Halfway(e, d, y, 1, 2, 128)
  PROVE LET e1 == EncodeByte(e, x) IN Follows(Append(s, x), e1, Decoder(e1.out))
<1>1. PICK V \in Nat : Encoded(e, x, V)
  BY EncodedByte
<1>2. PICK a \in Quintets : a = (V \div 16) % 32
  BY FiveBits DEF Quintets
<1>3. PICK v1 \in Nat : Decoded(d, a, v1)
  BY DecodedDigit
<1>4. e.out \in Seq(Base36) /\ a \in Base36
  BY DEF Encoders, Quintets, Base36
<1>5. PICK d1 \in Decoders : d1 = DecodeDigit(d, a) /\ d1 = Decoder(Append(e.out, a))
  BY <1>4, DecodeAppend, DecodeDigitTyped DEF Decoder
<1>6. d1 = [value |-> v1, bits |-> 4, out |-> Append(d.out, (v1 \div 16) % 256)]
  BY <1>3, <1>5 DEF Decoded, Halfway
<1>7. d.value \in Nat /\ e.value \in Nat /\ a \in Nat /\ x \in 0 .. 255 /\ y \in 0 .. 255
  BY DEF Encoders, Decoders, Quintets, Octets
<1>8. V % 4096 = (e.value * 256 + x) % 4096 /\ v1 % 4096 = (d.value * 32 + a) % 4096
  BY <1>1, <1>3 DEF Encoded, Decoded
<1>9. e.bits = 1 /\ d.bits = 7 /\ e.value % 2 = y % 2 /\ d.value % 128 = y \div 2
  BY DEF Halfway
<1>10. /\ v1 % 16 = x \div 16 /\ V % 16 = x % 16 /\ (v1 \div 16) % 256 = y
  <2>1. Codes1(e.value, d.value, y, x, V, a, v1)
    BY <1>2, <1>7, <1>8, <1>9 DEF Codes1
  <2> QED
    BY <2>1, Step1
<1>11. PICK e1 : e1 = EncodeByte(e, x) /\ e1 = [value |-> V, bits |-> 4, out |-> Append(e.out, a)]
  <2>1. EncodeByte(e, x) = [value |-> V, bits |-> 4, out |-> Append(e.out, (V \div 16) % 32)]
    <3>1. e.bits = 1
      BY <1>9
    <3>2. Encoded1(e, x, V)
      BY <1>1, <3>1, SMT DEF Encoded
    <3> QED
      BY <3>2, Zenon DEF Encoded1
  <2>2. EncodeByte(e, x) = [value |-> V, bits |-> 4, out |-> Append(e.out, a)]
    BY <1>2, <2>1
  <2> QED
    BY <2>2
<1>12. Decoder(e1.out) = d1 /\ d1.bits = 4 /\ d1.out = s /\ d1.value = v1
  <2>1. e1.out = Append(e.out, a)
    BY <1>11
  <2>2. Decoder(e1.out) = d1
    BY <1>5, <2>1, Zenon
  <2> QED
    BY <1>6, <1>10, <2>2
<1>13. Halfway(e1, d1, x, 4, 16, 16)
  BY <1>10, <1>11, <1>12 DEF Halfway
<1>14. Append(s, x) = Append(d1.out, x)
  BY <1>12
<1>15. Follows(Append(s, x), e1, d1)
  BY <1>13, <1>14 DEF Follows
<1> QED
  BY <1>11, <1>12, <1>15

LEMMA Follow2 ==
  ASSUME NEW s \in Seq(Octets), NEW x \in Octets, NEW e \in Encoders, NEW d \in Decoders, d = Decoder(e.out),
         NEW y \in Octets, s = Append(d.out, y), Halfway(e, d, y, 2, 4, 64)
  PROVE LET e1 == EncodeByte(e, x) IN Follows(Append(s, x), e1, Decoder(e1.out))
<1>1. PICK V \in Nat : Encoded(e, x, V)
  BY EncodedByte
<1>2. PICK a \in Quintets : a = (V \div 32) % 32
  BY FiveBits DEF Quintets
<1>3. PICK v1 \in Nat : Decoded(d, a, v1)
  BY DecodedDigit
<1>4. e.out \in Seq(Base36) /\ a \in Base36
  BY DEF Encoders, Quintets, Base36
<1>5. PICK d1 \in Decoders : d1 = DecodeDigit(d, a) /\ d1 = Decoder(Append(e.out, a))
  BY <1>4, DecodeAppend, DecodeDigitTyped DEF Decoder
<1>6. d1 = [value |-> v1, bits |-> 3, out |-> Append(d.out, (v1 \div 8) % 256)]
  BY <1>3, <1>5 DEF Decoded, Halfway
<1>7. d.value \in Nat /\ e.value \in Nat /\ a \in Nat /\ x \in 0 .. 255 /\ y \in 0 .. 255
  BY DEF Encoders, Decoders, Quintets, Octets
<1>8. V % 4096 = (e.value * 256 + x) % 4096 /\ v1 % 4096 = (d.value * 32 + a) % 4096
  BY <1>1, <1>3 DEF Encoded, Decoded
<1>9. e.bits = 2 /\ d.bits = 6 /\ e.value % 4 = y % 4 /\ d.value % 64 = y \div 4
  BY DEF Halfway
<1>10. PICK c \in Quintets : c = V % 32
  BY FiveBits DEF Quintets
<1>11. PICK v2 \in Nat : Decoded(d1, c, v2)
  BY DecodedDigit
<1>12. Append(e.out, a) \in Seq(Base36) /\ c \in Base36
  BY <1>4 DEF Quintets, Base36
<1>13. PICK d2 \in Decoders : d2 = DecodeDigit(d1, c) /\ d2 = Decoder(Append(Append(e.out, a), c))
  BY <1>5, <1>12, DecodeAppend, DecodeDigitTyped DEF Decoder
<1>14. d2 = [value |-> v2, bits |-> 0, out |-> Append(d1.out, v2 % 256)]
  <2>1. d1.bits = 3
    BY <1>6
  <2> QED
    BY <1>11, <1>13, <2>1 DEF Decoded
<1>15. v2 % 4096 = (v1 * 32 + c) % 4096 /\ c \in Nat
  BY <1>6, <1>11 DEF Decoded, Quintets
<1>16. (v1 \div 8) % 256 = y /\ v2 % 256 = x
  <2>1. Codes2(e.value, d.value, y, x, V, a, v1, c, v2)
    BY <1>2, <1>7, <1>8, <1>9, <1>10, <1>15 DEF Codes2
  <2> QED
    BY <2>1, Step2
<1>17. PICK e1 : e1 = EncodeByte(e, x) /\ e1 = [value |-> V, bits |-> 0, out |-> Append(Append(e.out, a), c)]
  <2>1. EncodeByte(e, x) = [value |-> V, bits |-> 0, out |-> Append(Append(e.out, (V \div 32) % 32), V % 32)]
    <3>1. e.bits = 2
      BY <1>9
    <3>2. Encoded2(e, x, V)
      BY <1>1, <3>1, SMT DEF Encoded
    <3> QED
      BY <3>2, Zenon DEF Encoded2
  <2>2. EncodeByte(e, x) = [value |-> V, bits |-> 0, out |-> Append(Append(e.out, a), c)]
    BY <1>2, <1>10, <2>1
  <2> QED
    BY <2>2
<1>18. Decoder(e1.out) = d2 /\ d2.bits = 0 /\ d2.out = Append(s, x) /\ e1.bits = 0
  <2>1. e1.out = Append(Append(e.out, a), c) /\ e1.bits = 0
    BY <1>17
  <2>2. Decoder(e1.out) = d2
    BY <1>13, <2>1, Zenon
  <2>3. d1.out = s
    BY <1>6, <1>16
  <2>4. d2.bits = 0 /\ d2.out = Append(d1.out, v2 % 256)
    BY <1>14
  <2>5. d2.out = Append(s, x)
    BY <1>16, <2>3, <2>4, ZenonT(60)
  <2> QED
    BY <2>1, <2>2, <2>4, <2>5
<1>19. Follows(Append(s, x), e1, d2)
  BY <1>18 DEF Follows
<1> QED
  BY <1>17, <1>18, <1>19

LEMMA Follow3 ==
  ASSUME NEW s \in Seq(Octets), NEW x \in Octets, NEW e \in Encoders, NEW d \in Decoders, d = Decoder(e.out),
         NEW y \in Octets, s = Append(d.out, y), Halfway(e, d, y, 3, 8, 32)
  PROVE LET e1 == EncodeByte(e, x) IN Follows(Append(s, x), e1, Decoder(e1.out))
<1>1. PICK V \in Nat : Encoded(e, x, V)
  BY EncodedByte
<1>2. PICK a \in Quintets : a = (V \div 64) % 32
  BY FiveBits DEF Quintets
<1>3. PICK v1 \in Nat : Decoded(d, a, v1)
  BY DecodedDigit
<1>4. e.out \in Seq(Base36) /\ a \in Base36
  BY DEF Encoders, Quintets, Base36
<1>5. PICK d1 \in Decoders : d1 = DecodeDigit(d, a) /\ d1 = Decoder(Append(e.out, a))
  BY <1>4, DecodeAppend, DecodeDigitTyped DEF Decoder
<1>6. d1 = [value |-> v1, bits |-> 2, out |-> Append(d.out, (v1 \div 4) % 256)]
  BY <1>3, <1>5 DEF Decoded, Halfway
<1>7. d.value \in Nat /\ e.value \in Nat /\ a \in Nat /\ x \in 0 .. 255 /\ y \in 0 .. 255
  BY DEF Encoders, Decoders, Quintets, Octets
<1>8. V % 4096 = (e.value * 256 + x) % 4096 /\ v1 % 4096 = (d.value * 32 + a) % 4096
  BY <1>1, <1>3 DEF Encoded, Decoded
<1>9. e.bits = 3 /\ d.bits = 5 /\ e.value % 8 = y % 8 /\ d.value % 32 = y \div 8
  BY DEF Halfway
<1>10. PICK c \in Quintets : c = (V \div 2) % 32
  BY FiveBits DEF Quintets
<1>11. PICK v2 \in Nat : Decoded(d1, c, v2)
  BY DecodedDigit
<1>12. Append(e.out, a) \in Seq(Base36) /\ c \in Base36
  BY <1>4 DEF Quintets, Base36
<1>13. PICK d2 \in Decoders : d2 = DecodeDigit(d1, c) /\ d2 = Decoder(Append(Append(e.out, a), c))
  BY <1>5, <1>12, DecodeAppend, DecodeDigitTyped DEF Decoder
<1>14. d2 = [value |-> v2, bits |-> 7, out |-> d1.out]
  <2>1. d1.bits = 2
    BY <1>6
  <2> QED
    BY <1>11, <1>13, <2>1 DEF Decoded
<1>15. v2 % 4096 = (v1 * 32 + c) % 4096 /\ c \in Nat
  BY <1>6, <1>11 DEF Decoded, Quintets
<1>16. (v1 \div 4) % 256 = y /\ v2 % 128 = x \div 2 /\ V % 2 = x % 2
  <2>1. Codes3(e.value, d.value, y, x, V, a, v1, c, v2)
    BY <1>2, <1>7, <1>8, <1>9, <1>10, <1>15 DEF Codes3
  <2> QED
    BY <2>1, Step3
<1>17. PICK e1 : e1 = EncodeByte(e, x) /\ e1 = [value |-> V, bits |-> 1, out |-> Append(Append(e.out, a), c)]
  <2>1. EncodeByte(e, x) = [value |-> V, bits |-> 1, out |-> Append(Append(e.out, (V \div 64) % 32), (V \div 2) % 32)]
    <3>1. e.bits = 3
      BY <1>9
    <3>2. Encoded3(e, x, V)
      BY <1>1, <3>1, SMT DEF Encoded
    <3> QED
      BY <3>2, Zenon DEF Encoded3
  <2>2. EncodeByte(e, x) = [value |-> V, bits |-> 1, out |-> Append(Append(e.out, a), c)]
    BY <1>2, <1>10, <2>1
  <2> QED
    BY <2>2
<1>18. Decoder(e1.out) = d2 /\ d2.bits = 7 /\ d2.out = s /\ d2.value = v2
  <2>1. e1.out = Append(Append(e.out, a), c) /\ e1.bits = 1
    BY <1>17
  <2>2. Decoder(e1.out) = d2
    BY <1>13, <2>1, Zenon
  <2>3. d1.out = s
    BY <1>6, <1>16
  <2> QED
    BY <1>16, <1>14, <2>1, <2>2, <2>3
<1>19. Halfway(e1, d2, x, 1, 2, 128)
  BY <1>16, <1>17, <1>18 DEF Halfway
<1>20. Append(s, x) = Append(d2.out, x)
  BY <1>18
<1>21. Follows(Append(s, x), e1, d2)
  BY <1>19, <1>20 DEF Follows
<1> QED
  BY <1>17, <1>18, <1>21

LEMMA Follow4 ==
  ASSUME NEW s \in Seq(Octets), NEW x \in Octets, NEW e \in Encoders, NEW d \in Decoders, d = Decoder(e.out),
         NEW y \in Octets, s = Append(d.out, y), Halfway(e, d, y, 4, 16, 16)
  PROVE LET e1 == EncodeByte(e, x) IN Follows(Append(s, x), e1, Decoder(e1.out))
<1>1. PICK V \in Nat : Encoded(e, x, V)
  BY EncodedByte
<1>2. PICK a \in Quintets : a = (V \div 128) % 32
  BY FiveBits DEF Quintets
<1>3. PICK v1 \in Nat : Decoded(d, a, v1)
  BY DecodedDigit
<1>4. e.out \in Seq(Base36) /\ a \in Base36
  BY DEF Encoders, Quintets, Base36
<1>5. PICK d1 \in Decoders : d1 = DecodeDigit(d, a) /\ d1 = Decoder(Append(e.out, a))
  BY <1>4, DecodeAppend, DecodeDigitTyped DEF Decoder
<1>6. d1 = [value |-> v1, bits |-> 1, out |-> Append(d.out, (v1 \div 2) % 256)]
  BY <1>3, <1>5 DEF Decoded, Halfway
<1>7. d.value \in Nat /\ e.value \in Nat /\ a \in Nat /\ x \in 0 .. 255 /\ y \in 0 .. 255
  BY DEF Encoders, Decoders, Quintets, Octets
<1>8. V % 4096 = (e.value * 256 + x) % 4096 /\ v1 % 4096 = (d.value * 32 + a) % 4096
  BY <1>1, <1>3 DEF Encoded, Decoded
<1>9. e.bits = 4 /\ d.bits = 4 /\ e.value % 16 = y % 16 /\ d.value % 16 = y \div 16
  BY DEF Halfway
<1>10. PICK c \in Quintets : c = (V \div 4) % 32
  BY FiveBits DEF Quintets
<1>11. PICK v2 \in Nat : Decoded(d1, c, v2)
  BY DecodedDigit
<1>12. Append(e.out, a) \in Seq(Base36) /\ c \in Base36
  BY <1>4 DEF Quintets, Base36
<1>13. PICK d2 \in Decoders : d2 = DecodeDigit(d1, c) /\ d2 = Decoder(Append(Append(e.out, a), c))
  BY <1>5, <1>12, DecodeAppend, DecodeDigitTyped DEF Decoder
<1>14. d2 = [value |-> v2, bits |-> 6, out |-> d1.out]
  <2>1. d1.bits = 1
    BY <1>6
  <2> QED
    BY <1>11, <1>13, <2>1 DEF Decoded
<1>15. v2 % 4096 = (v1 * 32 + c) % 4096 /\ c \in Nat
  BY <1>6, <1>11 DEF Decoded, Quintets
<1>16. (v1 \div 2) % 256 = y /\ v2 % 64 = x \div 4 /\ V % 4 = x % 4
  <2>1. Codes4(e.value, d.value, y, x, V, a, v1, c, v2)
    BY <1>2, <1>7, <1>8, <1>9, <1>10, <1>15 DEF Codes4
  <2> QED
    BY <2>1, Step4
<1>17. PICK e1 : e1 = EncodeByte(e, x) /\ e1 = [value |-> V, bits |-> 2, out |-> Append(Append(e.out, a), c)]
  <2>1. EncodeByte(e, x) = [value |-> V, bits |-> 2, out |-> Append(Append(e.out, (V \div 128) % 32), (V \div 4) % 32)]
    <3>1. e.bits = 4
      BY <1>9
    <3>2. Encoded4(e, x, V)
      BY <1>1, <3>1, SMT DEF Encoded
    <3> QED
      BY <3>2, Zenon DEF Encoded4
  <2>2. EncodeByte(e, x) = [value |-> V, bits |-> 2, out |-> Append(Append(e.out, a), c)]
    BY <1>2, <1>10, <2>1
  <2> QED
    BY <2>2
<1>18. Decoder(e1.out) = d2 /\ d2.bits = 6 /\ d2.out = s /\ d2.value = v2
  <2>1. e1.out = Append(Append(e.out, a), c) /\ e1.bits = 2
    BY <1>17
  <2>2. Decoder(e1.out) = d2
    BY <1>13, <2>1, Zenon
  <2>3. d1.out = s
    BY <1>6, <1>16
  <2> QED
    BY <1>16, <1>14, <2>1, <2>2, <2>3
<1>19. Halfway(e1, d2, x, 2, 4, 64)
  BY <1>16, <1>17, <1>18 DEF Halfway
<1>20. Append(s, x) = Append(d2.out, x)
  BY <1>18
<1>21. Follows(Append(s, x), e1, d2)
  BY <1>19, <1>20 DEF Follows
<1> QED
  BY <1>17, <1>18, <1>21

LEMMA FollowOne ==
  ASSUME NEW s \in Seq(Octets), NEW x \in Octets, NEW e \in Encoders, NEW d \in Decoders, d = Decoder(e.out),
         Follows(s, e, d)
  PROVE LET e1 == EncodeByte(e, x) IN Follows(Append(s, x), e1, Decoder(e1.out))
<1>1. CASE e.bits = 0 /\ d.bits = 0 /\ d.out = s
  BY <1>1, Follow0
<1>2. CASE \E y \in Octets :
            /\ s = Append(d.out, y)
            /\ \/ Halfway(e, d, y, 1, 2, 128)
               \/ Halfway(e, d, y, 2, 4, 64)
               \/ Halfway(e, d, y, 3, 8, 32)
               \/ Halfway(e, d, y, 4, 16, 16)
  <2>1. PICK y \in Octets :
            /\ s = Append(d.out, y)
            /\ \/ Halfway(e, d, y, 1, 2, 128)
               \/ Halfway(e, d, y, 2, 4, 64)
               \/ Halfway(e, d, y, 3, 8, 32)
               \/ Halfway(e, d, y, 4, 16, 16)
    BY <1>2
  <2>2. CASE Halfway(e, d, y, 1, 2, 128)
    BY <2>1, <2>2, Follow1
  <2>3. CASE Halfway(e, d, y, 2, 4, 64)
    BY <2>1, <2>3, Follow2
  <2>4. CASE Halfway(e, d, y, 3, 8, 32)
    BY <2>1, <2>4, Follow3
  <2>5. CASE Halfway(e, d, y, 4, 16, 16)
    BY <2>1, <2>5, Follow4
  <2> QED
    BY <2>1, <2>2, <2>3, <2>4, <2>5
<1> QED
  BY <1>1, <1>2 DEF Follows

(* Whatever the input, the decoder follows.                                 *)
Tracked(s) ==
  LET e == FoldLeft(EncodeByte, NoBits, s) IN
  e \in Encoders /\ Decoder(e.out) \in Decoders /\ Follows(s, e, Decoder(e.out))

LEMMA FollowAll ==
  ASSUME NEW s \in Seq(Octets)
  PROVE Tracked(s)
<1> DEFINE Holds == {n \in Nat : \A t \in Seq(Octets) : Len(t) = n => Tracked(t)}
<1>1. 0 \in Holds
  <2>1. \A t \in Seq(Octets) : Len(t) = 0 => t = << >>
    OBVIOUS
  <2>2. NoBits \in Encoders /\ NoBits \in Decoders /\ NoBits.bits = 0 /\ NoBits.out = << >>
    BY DEF NoBits, Encoders, Decoders
  <2>3. Decoder(<< >>) = NoBits
    BY CodesOfNothing DEF Decoder
  <2>4. Follows(<< >>, NoBits, NoBits)
    BY <2>2 DEF Follows
  <2>5. Tracked(<< >>)
    BY <2>2, <2>3, <2>4, CodesOfNothing DEF Tracked
  <2> QED
    BY <2>1, <2>5
<1>2. ASSUME NEW n \in Nat, n \in Holds PROVE n + 1 \in Holds
  <2> SUFFICES ASSUME NEW t \in Seq(Octets), Len(t) = n + 1 PROVE Tracked(t)
    OBVIOUS
  <2>1. PICK u \in Seq(Octets), x \in Octets : t = Append(u, x) /\ Len(u) = n
    <3> DEFINE u == SubSeq(t, 1, n)
    <3>1. u \in Seq(Octets) /\ Len(u) = n /\ t[n + 1] \in Octets /\ t = Append(u, t[n + 1])
      OBVIOUS
    <3> QED
      BY <3>1
  <2>2. Tracked(u)
    BY <1>2, <2>1
  <2> HIDE DEF Holds
  <2>3. PICK e \in Encoders : e = FoldLeft(EncodeByte, NoBits, u)
    BY <2>2 DEF Tracked
  <2>4. PICK d \in Decoders : d = Decoder(e.out) /\ Follows(u, e, d)
    BY <2>2, <2>3 DEF Tracked
  <2>5. PICK e1 \in Encoders : e1 = EncodeByte(e, x) /\ e1 = FoldLeft(EncodeByte, NoBits, t)
    BY <2>1, <2>3, EncodeAppend, EncodeByteTyped
  <2>6. Follows(t, e1, Decoder(e1.out))
    BY <2>1, <2>4, <2>5, FollowOne
  <2>7. Decoder(e1.out) \in Decoders
    <3>1. e1.out \in Seq(Base36)
      BY DEF Encoders, Quintets, Base36
    <3> QED
      BY <3>1, DecoderTyped DEF Decoder
  <2> QED
    BY <2>5, <2>6, <2>7 DEF Tracked
<1>3. Nat \subseteq Holds
  <2> HIDE DEF Holds
  <2> QED
    BY <1>1, <1>2, Induct
<1> QED
  BY <1>3

(* The end of the text, by the number of bits that the encoder holds.       *)
LEMMA Last1 ==
  ASSUME NEW s \in Seq(Octets), NEW e \in Encoders, NEW d \in Decoders, d = Decoder(e.out),
         NEW y \in Octets, s = Append(d.out, y), Halfway(e, d, y, 1, 2, 128)
  PROVE /\ e.out \o Leftover(e) \in Seq(Quintets)
        /\ Decoder(e.out \o Leftover(e)).out = s
<1>1. /\ e.bits = 1 /\ d.bits = 7 /\ e.value % 2 = y % 2 /\ d.value % 128 = y \div 2
      /\ e.value \in Nat /\ d.value \in Nat /\ y \in 0 .. 255
  BY DEF Halfway, Encoders, Decoders, Octets
<1>2. PICK c \in Quintets : c \in Nat /\ c = (e.value * 16) % 32
  <2>1. PICK n \in Nat : n = e.value * 16
    BY <1>1
  <2>2. n % 32 \in Nat /\ n % 32 \in 0 .. 31
    OBVIOUS
  <2> QED
    BY <2>1, <2>2 DEF Quintets
<1>3. e.out \o Leftover(e) = Append(e.out, c)
  <2>1. e.bits = 1 /\ e.bits > 0 /\ 5 - e.bits = 4
    BY <1>1
  <2>2. 2^4 = 16
    BY SMT
  <2>3. Leftover(e) = << c >>
    BY <1>2, <2>1, <2>2 DEF Leftover
  <2> QED
    BY <2>3 DEF Encoders
<1>4. PICK v \in Nat : Decoded(d, c, v)
  BY DecodedDigit
<1>5. e.out \in Seq(Base36) /\ c \in Base36
  BY DEF Encoders, Quintets, Base36
<1>6. Decoder(Append(e.out, c)) = DecodeDigit(d, c)
  BY <1>5, DecodeAppend DEF Decoder
<1>7. DecodeDigit(d, c).out = Append(d.out, (v \div 16) % 256)
  <2>1. DecodeDigit(d, c) = [value |-> v, bits |-> 4, out |-> Append(d.out, (v \div 16) % 256)]
    BY <1>1, <1>4 DEF Decoded
  <2> QED
    BY <2>1
<1>8. (v \div 16) % 256 = y
  <2>1. v % 4096 = (d.value * 32 + c) % 4096
    BY <1>4 DEF Decoded
  <2>2. Ends1(e.value, d.value, y, c, v)
    BY <1>1, <1>2, <1>4, <2>1 DEF Ends1
  <2> QED
    BY <2>2, End1
<1>9. Append(e.out, c) \in Seq(Quintets)
  BY DEF Encoders
<1> QED
  BY <1>3, <1>6, <1>7, <1>8, <1>9

LEMMA Last2 ==
  ASSUME NEW s \in Seq(Octets), NEW e \in Encoders, NEW d \in Decoders, d = Decoder(e.out),
         NEW y \in Octets, s = Append(d.out, y), Halfway(e, d, y, 2, 4, 64)
  PROVE /\ e.out \o Leftover(e) \in Seq(Quintets)
        /\ Decoder(e.out \o Leftover(e)).out = s
<1>1. /\ e.bits = 2 /\ d.bits = 6 /\ e.value % 4 = y % 4 /\ d.value % 64 = y \div 4
      /\ e.value \in Nat /\ d.value \in Nat /\ y \in 0 .. 255
  BY DEF Halfway, Encoders, Decoders, Octets
<1>2. PICK c \in Quintets : c \in Nat /\ c = (e.value * 8) % 32
  <2>1. PICK n \in Nat : n = e.value * 8
    BY <1>1
  <2>2. n % 32 \in Nat /\ n % 32 \in 0 .. 31
    OBVIOUS
  <2> QED
    BY <2>1, <2>2 DEF Quintets
<1>3. e.out \o Leftover(e) = Append(e.out, c)
  <2>1. e.bits = 2 /\ e.bits > 0 /\ 5 - e.bits = 3
    BY <1>1
  <2>2. 2^3 = 8
    BY SMT
  <2>3. Leftover(e) = << c >>
    BY <1>2, <2>1, <2>2 DEF Leftover
  <2> QED
    BY <2>3 DEF Encoders
<1>4. PICK v \in Nat : Decoded(d, c, v)
  BY DecodedDigit
<1>5. e.out \in Seq(Base36) /\ c \in Base36
  BY DEF Encoders, Quintets, Base36
<1>6. Decoder(Append(e.out, c)) = DecodeDigit(d, c)
  BY <1>5, DecodeAppend DEF Decoder
<1>7. DecodeDigit(d, c).out = Append(d.out, (v \div 8) % 256)
  <2>1. DecodeDigit(d, c) = [value |-> v, bits |-> 3, out |-> Append(d.out, (v \div 8) % 256)]
    BY <1>1, <1>4 DEF Decoded
  <2> QED
    BY <2>1
<1>8. (v \div 8) % 256 = y
  <2>1. v % 4096 = (d.value * 32 + c) % 4096
    BY <1>4 DEF Decoded
  <2>2. Ends2(e.value, d.value, y, c, v)
    BY <1>1, <1>2, <1>4, <2>1 DEF Ends2
  <2> QED
    BY <2>2, End2
<1>9. Append(e.out, c) \in Seq(Quintets)
  BY DEF Encoders
<1> QED
  BY <1>3, <1>6, <1>7, <1>8, <1>9

LEMMA Last3 ==
  ASSUME NEW s \in Seq(Octets), NEW e \in Encoders, NEW d \in Decoders, d = Decoder(e.out),
         NEW y \in Octets, s = Append(d.out, y), Halfway(e, d, y, 3, 8, 32)
  PROVE /\ e.out \o Leftover(e) \in Seq(Quintets)
        /\ Decoder(e.out \o Leftover(e)).out = s
<1>1. /\ e.bits = 3 /\ d.bits = 5 /\ e.value % 8 = y % 8 /\ d.value % 32 = y \div 8
      /\ e.value \in Nat /\ d.value \in Nat /\ y \in 0 .. 255
  BY DEF Halfway, Encoders, Decoders, Octets
<1>2. PICK c \in Quintets : c \in Nat /\ c = (e.value * 4) % 32
  <2>1. PICK n \in Nat : n = e.value * 4
    BY <1>1
  <2>2. n % 32 \in Nat /\ n % 32 \in 0 .. 31
    OBVIOUS
  <2> QED
    BY <2>1, <2>2 DEF Quintets
<1>3. e.out \o Leftover(e) = Append(e.out, c)
  <2>1. e.bits = 3 /\ e.bits > 0 /\ 5 - e.bits = 2
    BY <1>1
  <2>2. 2^2 = 4
    BY SMT
  <2>3. Leftover(e) = << c >>
    BY <1>2, <2>1, <2>2 DEF Leftover
  <2> QED
    BY <2>3 DEF Encoders
<1>4. PICK v \in Nat : Decoded(d, c, v)
  BY DecodedDigit
<1>5. e.out \in Seq(Base36) /\ c \in Base36
  BY DEF Encoders, Quintets, Base36
<1>6. Decoder(Append(e.out, c)) = DecodeDigit(d, c)
  BY <1>5, DecodeAppend DEF Decoder
<1>7. DecodeDigit(d, c).out = Append(d.out, (v \div 4) % 256)
  <2>1. DecodeDigit(d, c) = [value |-> v, bits |-> 2, out |-> Append(d.out, (v \div 4) % 256)]
    BY <1>1, <1>4 DEF Decoded
  <2> QED
    BY <2>1
<1>8. (v \div 4) % 256 = y
  <2>1. v % 4096 = (d.value * 32 + c) % 4096
    BY <1>4 DEF Decoded
  <2>2. Ends3(e.value, d.value, y, c, v)
    BY <1>1, <1>2, <1>4, <2>1 DEF Ends3
  <2> QED
    BY <2>2, End3
<1>9. Append(e.out, c) \in Seq(Quintets)
  BY DEF Encoders
<1> QED
  BY <1>3, <1>6, <1>7, <1>8, <1>9

LEMMA Last4 ==
  ASSUME NEW s \in Seq(Octets), NEW e \in Encoders, NEW d \in Decoders, d = Decoder(e.out),
         NEW y \in Octets, s = Append(d.out, y), Halfway(e, d, y, 4, 16, 16)
  PROVE /\ e.out \o Leftover(e) \in Seq(Quintets)
        /\ Decoder(e.out \o Leftover(e)).out = s
<1>1. /\ e.bits = 4 /\ d.bits = 4 /\ e.value % 16 = y % 16 /\ d.value % 16 = y \div 16
      /\ e.value \in Nat /\ d.value \in Nat /\ y \in 0 .. 255
  BY DEF Halfway, Encoders, Decoders, Octets
<1>2. PICK c \in Quintets : c \in Nat /\ c = (e.value * 2) % 32
  <2>1. PICK n \in Nat : n = e.value * 2
    BY <1>1
  <2>2. n % 32 \in Nat /\ n % 32 \in 0 .. 31
    OBVIOUS
  <2> QED
    BY <2>1, <2>2 DEF Quintets
<1>3. e.out \o Leftover(e) = Append(e.out, c)
  <2>1. e.bits = 4 /\ e.bits > 0 /\ 5 - e.bits = 1
    BY <1>1
  <2>2. 2^1 = 2
    BY SMT
  <2>3. Leftover(e) = << c >>
    BY <1>2, <2>1, <2>2 DEF Leftover
  <2> QED
    BY <2>3 DEF Encoders
<1>4. PICK v \in Nat : Decoded(d, c, v)
  BY DecodedDigit
<1>5. e.out \in Seq(Base36) /\ c \in Base36
  BY DEF Encoders, Quintets, Base36
<1>6. Decoder(Append(e.out, c)) = DecodeDigit(d, c)
  BY <1>5, DecodeAppend DEF Decoder
<1>7. DecodeDigit(d, c).out = Append(d.out, (v \div 2) % 256)
  <2>1. DecodeDigit(d, c) = [value |-> v, bits |-> 1, out |-> Append(d.out, (v \div 2) % 256)]
    BY <1>1, <1>4 DEF Decoded
  <2> QED
    BY <2>1
<1>8. (v \div 2) % 256 = y
  <2>1. v % 4096 = (d.value * 32 + c) % 4096
    BY <1>4 DEF Decoded
  <2>2. Ends4(e.value, d.value, y, c, v)
    BY <1>1, <1>2, <1>4, <2>1 DEF Ends4
  <2> QED
    BY <2>2, End4
<1>9. Append(e.out, c) \in Seq(Quintets)
  BY DEF Encoders
<1> QED
  BY <1>3, <1>6, <1>7, <1>8, <1>9

(* A text of digits is all that Digits leaves of it.                        *)
LEMMA AllDigits ==
  ASSUME NEW t \in Seq(Base36)
  PROVE Digits(t) = t
<1>1. PICK n \in Nat : n = Len(t) /\ \A i \in 1 .. n : t[i] \in Base36
  OBVIOUS
<1> DEFINE good == {k \in 0 .. n : \A i \in 1 .. k : t[i] < 36}
<1>2. \A i \in 1 .. n : t[i] < 36
  <2> SUFFICES ASSUME NEW i \in 1 .. n PROVE t[i] < 36
    OBVIOUS
  <2>1. PICK b \in Base36 : b = t[i]
    BY <1>1
  <2>2. b < 36
    BY DEF Base36
  <2> QED
    BY <2>1, <2>2, Zenon
<1>3. good \in SUBSET Int /\ n \in good /\ \A k \in good : k <= n
  BY <1>2
<1>4. Max(good) = n
  <2> HIDE DEF good
  <2> QED
    BY <1>3, MaxIs
<1>5. Digits(t) = SubSeq(t, 1, n)
  BY <1>1, <1>4 DEF Digits
<1> QED
  BY <1>1, <1>5

(* string_from_custom_base36 gives back what string_to_custom_base36 was    *)
(* given, however long, and the text it makes has no other digits than the  *)
(* first 32.                                                                *)
THEOREM Base36LosesNothing ==
  ASSUME NEW s \in Seq(0 .. 255)
  PROVE /\ string_to_custom_base36(s) \in Seq(0 .. 31)
        /\ string_from_custom_base36(string_to_custom_base36(s)) = s
<1>1. s \in Seq(Octets)
  BY DEF Octets
<1>2. PICK e \in Encoders : e = FoldLeft(EncodeByte, NoBits, s) /\ Tracked(s)
  BY <1>1, FollowAll DEF Tracked
<1>3. PICK d \in Decoders : d = Decoder(e.out) /\ Follows(s, e, d)
  BY <1>2 DEF Tracked
<1>4. PICK t : t = e.out \o Leftover(e)
  OBVIOUS
<1>5. string_to_custom_base36(s) = t
  BY <1>2, <1>4 DEF string_to_custom_base36
<1>6. t \in Seq(Quintets) /\ Decoder(t).out = s
  <2>1. CASE e.bits = 0 /\ d.bits = 0 /\ d.out = s
    <3>1. Leftover(e) = << >>
      BY <2>1 DEF Leftover
    <3>2. t = e.out /\ t \in Seq(Quintets)
      BY <1>4, <3>1 DEF Encoders
    <3> QED
      BY <1>3, <2>1, <3>2
  <2>2. CASE \E y \in Octets :
               /\ s = Append(d.out, y)
               /\ \/ Halfway(e, d, y, 1, 2, 128)
                  \/ Halfway(e, d, y, 2, 4, 64)
                  \/ Halfway(e, d, y, 3, 8, 32)
                  \/ Halfway(e, d, y, 4, 16, 16)
    <3>1. PICK y \in Octets :
               /\ s = Append(d.out, y)
               /\ \/ Halfway(e, d, y, 1, 2, 128)
                  \/ Halfway(e, d, y, 2, 4, 64)
                  \/ Halfway(e, d, y, 3, 8, 32)
                  \/ Halfway(e, d, y, 4, 16, 16)
      BY <2>2
    <3>2. /\ e.out \o Leftover(e) \in Seq(Quintets)
          /\ Decoder(e.out \o Leftover(e)).out = s
      <4>1. CASE Halfway(e, d, y, 1, 2, 128)
        BY <1>1, <1>3, <3>1, <4>1, Last1
      <4>2. CASE Halfway(e, d, y, 2, 4, 64)
        BY <1>1, <1>3, <3>1, <4>2, Last2
      <4>3. CASE Halfway(e, d, y, 3, 8, 32)
        BY <1>1, <1>3, <3>1, <4>3, Last3
      <4>4. CASE Halfway(e, d, y, 4, 16, 16)
        BY <1>1, <1>3, <3>1, <4>4, Last4
      <4> QED
        BY <3>1, <4>1, <4>2, <4>3, <4>4
    <3> QED
      BY <1>4, <3>2, Zenon
  <2> QED
    BY <1>3, <2>1, <2>2 DEF Follows
<1>7. t \in Seq(Base36)
  BY <1>6 DEF Quintets, Base36
<1>8. string_from_custom_base36(t) = s
  BY <1>6, <1>7, AllDigits DEF string_from_custom_base36, Decoder
<1> QED
  BY <1>5, <1>6, <1>8 DEF Quintets

-----------------------------------------------------------------------------
(* How much a decoder makes of a text.                                      *)
Counted(t) ==
  LET d == Decoder(t) IN d \in Decoders /\ 8 * Len(d.out) + d.bits = 5 * Len(t)

LEMMA DecodedLen ==
  ASSUME NEW t \in Seq(Base36)
  PROVE Counted(t)
<1> DEFINE Holds == {n \in Nat : \A u \in Seq(Base36) : Len(u) = n => Counted(u)}
<1>1. 0 \in Holds
  <2>1. \A u \in Seq(Base36) : Len(u) = 0 => u = << >>
    OBVIOUS
  <2>2. NoBits \in Decoders /\ NoBits.bits = 0 /\ Len(NoBits.out) = 0 /\ Len(<< >>) = 0
    BY DEF NoBits, Decoders
  <2>3. Decoder(<< >>) = NoBits
    BY CodesOfNothing DEF Decoder
  <2>4. Counted(<< >>)
    BY <2>2, <2>3 DEF Counted
  <2> QED
    BY <2>1, <2>4
<1>2. ASSUME NEW n \in Nat, n \in Holds PROVE n + 1 \in Holds
  <2> SUFFICES ASSUME NEW u \in Seq(Base36), Len(u) = n + 1 PROVE Counted(u)
    OBVIOUS
  <2>1. PICK w \in Seq(Base36), c \in Base36 : u = Append(w, c) /\ Len(w) = n
    <3> DEFINE w == SubSeq(u, 1, n)
    <3>1. w \in Seq(Base36) /\ Len(w) = n /\ u[n + 1] \in Base36 /\ u = Append(w, u[n + 1])
      OBVIOUS
    <3> QED
      BY <3>1
  <2>2. Counted(w)
    BY <1>2, <2>1
  <2> HIDE DEF Holds
  <2>3. PICK d \in Decoders : d = Decoder(w) /\ 8 * Len(d.out) + d.bits = 5 * n
    BY <2>1, <2>2 DEF Counted
  <2>4. PICK d1 \in Decoders : d1 = DecodeDigit(d, c) /\ d1 = Decoder(u)
    BY <2>1, <2>3, DecodeAppend, DecodeDigitTyped DEF Decoder
  <2>5. PICK k \in Nat, bits \in 5 .. 12 : k = Len(d.out) /\ bits = d.bits + 5 /\ d.bits \in Nat
    <3>1. d.out \in Seq(Octets) /\ d.bits \in 0 .. 7
      BY DEF Decoders
    <3>2. Len(d.out) \in Nat /\ d.bits + 5 \in 5 .. 12 /\ d.bits \in Nat
      BY <3>1, SMTT(30)
    <3> QED
      BY <3>2
  <2>6. 8 * Len(d1.out) + d1.bits = 8 * k + bits
    <3>1. PICK v : v = Or5(d.value, c)
      OBVIOUS
    <3>2. CASE bits < 8
      <4>1. d1 = [d EXCEPT !.value = v, !.bits = bits]
        BY <2>4, <2>5, <3>1, <3>2 DEF DecodeDigit
      <4>2. d1.bits = bits /\ d1.out = d.out
        BY <4>1 DEF Decoders
      <4> QED
        BY <2>5, <4>2
    <3>3. CASE ~(bits < 8)
      <4>1. d1 = [value |-> v, bits |-> bits - 8, out |-> Append(d.out, (v \div 2^(bits - 8)) % 256)]
        BY <2>4, <2>5, <3>1, <3>3 DEF DecodeDigit
      <4>2. d1.bits = bits - 8 /\ Len(d1.out) = k + 1
        BY <2>5, <4>1 DEF Decoders
      <4> QED
        BY <4>2
    <3> QED
      BY <3>2, <3>3
  <2>7. 8 * k + bits = 5 * (n + 1)
    <3>1. PICK b \in Nat : b = d.bits
      BY <2>5
    <3>2. 8 * k + b = 5 * n /\ bits = b + 5
      BY <2>3, <2>5, <3>1
    <3> QED
      BY <3>2
  <2> QED
    BY <2>1, <2>4, <2>6, <2>7 DEF Counted
<1>3. Nat \subseteq Holds
  <2> HIDE DEF Holds
  <2> QED
    BY <1>1, <1>2, Induct
<1> QED
  BY <1>3

Alphabet == 0 .. Other

LEMMA GoodOf ==
  ASSUME NEW t \in Seq(Alphabet)
  PROVE /\ Digits(t) \in Seq(Base36) /\ Len(Digits(t)) = GoodLen(t)
        /\ string_from_custom_base36(t) \in Seq(Octets)
        /\ GoodLen(t) - (8 * Len(string_from_custom_base36(t)) + 4) \div 5 \in {0, 1}
<1>1. PICK n \in Nat : n = Len(t) /\ \A i \in 1 .. n : t[i] \in Alphabet
  OBVIOUS
<1> DEFINE good == {k \in 0 .. n : \A i \in 1 .. k : t[i] < 36}
<1>2. good \in SUBSET (0 .. n) /\ 0 \in good
  OBVIOUS
<1>3. PICK g \in good : g = Max(good)
  <2> HIDE DEF good
  <2> QED
    BY <1>2, MaxOf
<1>4. GoodLen(t) = g /\ Digits(t) = SubSeq(t, 1, g)
  BY <1>1, <1>3 DEF GoodLen, Digits
<1>5. g \in 0 .. n /\ \A i \in 1 .. g : t[i] \in Base36
  <2>1. g \in 0 .. n /\ \A i \in 1 .. g : t[i] < 36 /\ i \in 1 .. n
    OBVIOUS
  <2>2. ASSUME NEW i \in 1 .. g PROVE t[i] \in Base36
    <3>1. PICK c \in Alphabet : c = t[i]
      BY <1>1, <2>1
    <3>2. c < 36
      BY <2>1, <3>1
    <3>3. c \in Base36
      BY <3>2 DEF Alphabet, Base36, Other
    <3> QED
      BY <3>1, <3>3
  <2> QED
    BY <2>1, <2>2
<1>6. PICK u \in Seq(Base36) : u = Digits(t) /\ Len(u) = g
  <2>1. SubSeq(t, 1, g) \in Seq(Base36) /\ Len(SubSeq(t, 1, g)) = g
    BY <1>1, <1>5
  <2> QED
    BY <1>4, <2>1
<1>7. Counted(u)
  BY DecodedLen
<1>8. PICK d \in Decoders : d = Decoder(u) /\ 8 * Len(d.out) + d.bits = 5 * g
  BY <1>6, <1>7 DEF Counted
<1>9. string_from_custom_base36(t) = d.out
  BY <1>6, <1>8 DEF string_from_custom_base36, Decoder
<1>10. PICK k \in Nat, b \in 0 .. 7 : k = Len(d.out) /\ b = d.bits
  BY DEF Decoders
<1>11. g - (8 * k + 4) \div 5 \in {0, 1}
  <2>1. 8 * k + b = 5 * g
    BY <1>8, <1>10
  <2> HIDE DEF good
  <2>2. g \in Int
    BY <1>5
  <2> QED
    BY <2>1, <2>2
<1> QED
  BY <1>4, <1>6, <1>9, <1>10, <1>11 DEF Decoders

-----------------------------------------------------------------------------
(***************************************************************************)
(* base64.  FlattenSeq of parts of w elements, of which the last may be     *)
(* shorter: its recursion has one solution.                                 *)
(***************************************************************************)
LEMMA PlaceIn ==
  ASSUME NEW w \in {3, 4}, NEW g \in Nat, NEW i \in Nat, w * g < i, i <= w * g + w
  PROVE (i - 1) \div w = g /\ (i - 1) % w = i - w * g - 1
<1>1. CASE w = 3
  <2>1. PICK d \in 0 .. 2 : i - 1 = 3 * g + d
    <3>1. i - 1 - 3 * g \in 0 .. 2
      BY <1>1
    <3> QED
      BY <3>1
  <2>2. (3 * g + d) \div 3 = g /\ (3 * g + d) % 3 = d
    OBVIOUS
  <2> QED
    BY <1>1, <2>1, <2>2
<1>2. CASE w = 4
  <2>1. PICK d \in 0 .. 3 : i - 1 = 4 * g + d
    <3>1. i - 1 - 4 * g \in 0 .. 3
      BY <1>2
    <3> QED
      BY <3>1
  <2>2. (4 * g + d) \div 4 = g /\ (4 * g + d) % 4 = d
    OBVIOUS
  <2> QED
    BY <1>2, <2>1, <2>2
<1> QED
  BY <1>1, <1>2

LEMMA DivMod ==
  ASSUME NEW w \in {3, 4}, NEW n \in Nat
  PROVE n \div w \in Nat /\ n % w \in 0 .. w - 1 /\ n = w * (n \div w) + (n % w)
<1>1. n \div 3 \in Nat /\ n % 3 \in 0 .. 2 /\ n = 3 * (n \div 3) + (n % 3)
  OBVIOUS
<1>2. n \div 4 \in Nat /\ n % 4 \in 0 .. 3 /\ n = 4 * (n \div 4) + (n % 4)
  OBVIOUS
<1>3. CASE w = 3
  BY <1>1, <1>3
<1>4. CASE w = 4
  BY <1>2, <1>4
<1> QED
  BY <1>3, <1>4

(* The parts of p, G of them, and the first g of them in a row.             *)
Parts(p, w, G, S) ==
  /\ w \in {3, 4} /\ G \in Nat \ {0} /\ p \in [1 .. G -> Seq(S)]
  /\ \A g \in 1 .. G : Len(p[g]) \in 0 .. w /\ (g < G => Len(p[g]) = w)
Row(p, w, g) == [i \in 1 .. w * (g - 1) + Len(p[g]) |-> p[(i - 1) \div w + 1][((i - 1) % w) + 1]]

LEMMA RowTyped ==
  ASSUME NEW S, NEW w, NEW G, NEW p, Parts(p, w, G, S), NEW g \in 1 .. G
  PROVE Row(p, w, g) \in Seq(S) /\ Len(Row(p, w, g)) = w * (g - 1) + Len(p[g])
<1> w \in {3, 4} /\ G \in Nat \ {0}
  BY DEF Parts
<1>1. PICK l \in 0 .. w : l = Len(p[g]) /\ w * (g - 1) + l \in Nat
  BY DEF Parts
<1>2. PICK n \in Nat : n = w * (g - 1) + l
  BY <1>1
<1>3. ASSUME NEW i \in 1 .. w * (g - 1) + l PROVE p[(i - 1) \div w + 1][((i - 1) % w) + 1] \in S
  <2>1. PICK h \in Nat, k \in 0 .. w - 1 : i - 1 = w * h + k /\ (i - 1) \div w = h /\ (i - 1) % w = k
    <3>1. i - 1 \in Nat
      OBVIOUS
    <3> QED
      BY <3>1, DivMod
  <2>2. h < g /\ (h + 1 = g => k + 1 <= l)
    <3>1. g \in Nat /\ i \in Nat /\ l \in Nat /\ k \in Nat /\ k < w /\ l <= w
      BY <1>1, <2>1
    <3>2. i <= w * (g - 1) + l
      BY <1>2
    <3>3. i - 1 = w * h + k /\ i <= w * (g - 1) + l
      BY <2>1, <3>2
    <3>4. CASE w = 3
      <4>1. i - 1 = 3 * h + k /\ i <= 3 * (g - 1) + l /\ k < 3 /\ l <= 3
        BY <3>4, <3>1, <3>3
      <4> QED
        BY <3>1, <4>1
    <3>5. CASE w = 4
      <4>1. i - 1 = 4 * h + k /\ i <= 4 * (g - 1) + l /\ k < 4 /\ l <= 4
        BY <3>5, <3>1, <3>3
      <4> QED
        BY <3>1, <4>1
    <3> QED
      BY <3>4, <3>5
  <2>3. h + 1 \in 1 .. G /\ p[h + 1] \in Seq(S)
    BY <2>1, <2>2 DEF Parts
  <2>4. k + 1 \in 1 .. Len(p[h + 1])
    <3>1. CASE h + 1 = g
      BY <1>1, <2>1, <2>2, <3>1
    <3>2. CASE h + 1 # g
      <4>1. h + 1 < G
        BY <2>1, <2>2, <3>2
      <4>2. Len(p[h + 1]) = w
        BY <2>3, <4>1 DEF Parts
      <4> QED
        BY <2>1, <4>2
    <3> QED
      BY <3>1, <3>2
  <2>5. p[h + 1][k + 1] \in S
    BY <2>3, <2>4
  <2> QED
    BY <2>1, <2>5
<1>4. Row(p, w, g) = [i \in 1 .. w * (g - 1) + l |-> p[(i - 1) \div w + 1][((i - 1) % w) + 1]]
  BY <1>1 DEF Row
<1> DEFINE F(i) == p[(i - 1) \div w + 1][((i - 1) % w) + 1]
<1>5. \A i \in 1 .. n : F(i) \in S
  BY <1>3, <1>2
<1>6. Row(p, w, g) = [i \in 1 .. n |-> F(i)]
  BY <1>4, <1>2
<1> HIDE DEF F
<1>7. Row(p, w, g) \in Seq(S) /\ Len(Row(p, w, g)) = n
  BY <1>5, <1>6
<1> QED
  BY <1>1, <1>2, <1>7

LEMMA Times ==
  ASSUME NEW w \in {3, 4}, NEW g \in Nat
  PROVE w * g \in Nat /\ w * (g + 1) = w * g + w
<1>1. CASE w = 3
  BY <1>1
<1>2. CASE w = 4
  BY <1>2
<1> QED
  BY <1>1, <1>2

LEMMA Joined ==
  ASSUME NEW S, NEW r \in Seq(S), NEW q \in Seq(S)
  PROVE r \o q = [i \in 1 .. Len(r) + Len(q) |-> IF i <= Len(r) THEN r[i] ELSE q[i - Len(r)]]
<1>1. PICK c \in Seq(S) : c = r \o q
  BY ConcatProperties
<1>2. Len(c) = Len(r) + Len(q)
      /\ \A i \in 1 .. Len(r) + Len(q) : c[i] = IF i <= Len(r) THEN r[i] ELSE q[i - Len(r)]
  BY <1>1, ConcatProperties
<1>3. c = [i \in 1 .. Len(r) + Len(q) |-> c[i]]
  BY <1>2
<1> QED
  BY <1>1, <1>2, <1>3

Grows(p, w, g) == Row(p, w, g) = IF g = 1 THEN p[g] ELSE Row(p, w, g - 1) \o p[g]
LEMMA RowStep ==
  ASSUME NEW S, NEW w, NEW G, NEW p, Parts(p, w, G, S), NEW g \in 1 .. G
  PROVE Grows(p, w, g)
<1>1. \A k \in 1 .. G : Row(p, w, k) \in Seq(S) /\ Len(Row(p, w, k)) = w * (k - 1) + Len(p[k])
  BY RowTyped
<1> w \in {3, 4} /\ G \in Nat \ {0}
  BY DEF Parts
<1>2. w \in Nat /\ Len(p[g]) \in 0 .. w
  BY DEF Parts
<1>3. PICK l \in Nat : l = Len(p[g]) /\ l <= w
  BY <1>2
<1>4. PICK h \in Nat : h = g - 1
  OBVIOUS
<1>5. PICK n \in Nat : n = w * h
  BY Times
<1>6. PICK q \in Seq(S) : q = p[g] /\ Len(q) = l /\ q = [k \in 1 .. l |-> q[k]]
  <2>1. p[g] \in Seq(S)
    BY DEF Parts
  <2> QED
    BY <1>3, <2>1
<1> DEFINE F(i) == p[(i - 1) \div w + 1][((i - 1) % w) + 1]
<1>7. Row(p, w, g) = [i \in 1 .. n + l |-> F(i)]
  BY <1>3, <1>4, <1>5 DEF Row
<1>8. ASSUME NEW k \in 1 .. l PROVE F(n + k) = q[k]
  <2>1. n + k \in Nat /\ n < n + k /\ n + k <= n + w /\ n + k - n - 1 = k - 1
    BY <1>3, <1>2
  <2>2. (n + k - 1) \div w = h /\ (n + k - 1) % w = n + k - n - 1
    <3>1. w * h < n + k /\ n + k <= w * h + w
      BY <1>5, <2>1
    <3> QED
      BY <1>5, <3>1, PlaceIn
  <2>3. (n + k - 1) \div w + 1 = g /\ ((n + k - 1) % w) + 1 = k
    BY <1>4, <2>1, <2>2
  <2> QED
    BY <1>6, <2>3
<1>9. CASE g = 1
  <2>1. n = 0
    <3>1. h = 0
      BY <1>9, <1>4
    <3> QED
      BY <1>5, <3>1
  <2> HIDE DEF F
  <2>2. \A k \in 1 .. l : F(k) = q[k]
    <3>1. \A k \in 1 .. l : n + k = k
      BY <2>1
    <3> QED
      BY <1>8, <3>1
  <2>3. Row(p, w, g) = [i \in 1 .. l |-> F(i)]
    <3>1. n + l = l
      BY <1>3, <2>1
    <3> QED
      BY <1>7, <3>1
  <2> QED
    BY <1>6, <1>9, <2>2, <2>3 DEF Grows
<1>10. CASE g # 1
  <2>1. PICK f \in Nat : f = g - 1 - 1 /\ h = f + 1 /\ w * f \in Nat /\ w * f + w = n
    <3>1. PICK f \in Nat : f = g - 1 - 1 /\ h = f + 1
      BY <1>10, <1>4
    <3>2. w * f \in Nat /\ w * (f + 1) = w * f + w
      BY Times
    <3> QED
      BY <1>5, <3>1, <3>2
  <2>2. h \in 1 .. G /\ h < G /\ Len(p[h]) = w
    BY <1>4, <2>1 DEF Parts
  <2>3. Row(p, w, h) = [i \in 1 .. n |-> F(i)] /\ Row(p, w, h) \in Seq(S) /\ Len(Row(p, w, h)) = n
    <3>1. h - 1 = f
      BY <2>1
    <3>2. w * (h - 1) + Len(p[h]) = n
      BY <2>1, <2>2, <3>1, Zenon
    <3>3. Row(p, w, h) = [i \in 1 .. n |-> F(i)]
      BY <3>2 DEF Row
    <3>4. Row(p, w, h) \in Seq(S) /\ Len(Row(p, w, h)) = w * (h - 1) + Len(p[h])
      BY <2>2, <1>1, Zenon
    <3> QED
      BY <3>2, <3>3, <3>4
  <2> HIDE DEF F
  <2>4. PICK r \in Seq(S) : r = Row(p, w, h) /\ Len(r) = n /\ \A i \in 1 .. n : r[i] = F(i)
    BY <2>3
  <2>5. r \o q = [i \in 1 .. n + l |-> IF i <= n THEN r[i] ELSE q[i - n]]
    <3>1. r \o q = [i \in 1 .. Len(r) + Len(q) |-> IF i <= Len(r) THEN r[i] ELSE q[i - Len(r)]]
      BY Joined, ZenonT(60)
    <3>2. Len(r) = n /\ Len(q) = l
      BY <1>6, <2>4
    <3> QED
      BY <3>1, <3>2, Zenon
  <2>6. ASSUME NEW i \in 1 .. n + l
        PROVE F(i) = IF i <= n THEN r[i] ELSE q[i - n]
    <3>1. CASE i <= n
      BY <2>4, <3>1
    <3>2. CASE ~(i <= n)
      <4>1. i - n \in 1 .. l /\ n + (i - n) = i
        BY <1>3, <3>2
      <4>2. F(n + (i - n)) = q[i - n]
        BY <1>8, <4>1
      <4> QED
        BY <3>2, <4>1, <4>2
    <3> QED
      BY <3>1, <3>2
  <2>7. Row(p, w, g) = r \o q
    BY <1>7, <2>5, <2>6
  <2> QED
    BY <1>6, <1>10, <1>4, <2>4, <2>7 DEF Grows
<1> QED
  BY <1>9, <1>10

FlatRow(p, w, G) == FlattenSeq(p) = Row(p, w, G)
LEMMA FlattenIsRow ==
  ASSUME NEW S, NEW w, NEW G, NEW p, Parts(p, w, G, S)
  PROVE FlatRow(p, w, G)
<1> SUFFICES FlattenSeq(p) = Row(p, w, G)
  BY DEF FlatRow
<1>1. \A g \in 1 .. G : Row(p, w, g) = IF g = 1 THEN p[g] ELSE Row(p, w, g - 1) \o p[g]
  <2> SUFFICES ASSUME NEW g \in 1 .. G PROVE Grows(p, w, g)
    BY DEF Grows
  <2> QED
    BY RowStep
<1> G \in Nat \ {0}
  BY DEF Parts
<1>2. Len(p) = G /\ G # 0 /\ 1 .. Len(p) = 1 .. G
  BY DEF Parts
<1> DEFINE Body(f) == [i \in 1 .. Len(p) |-> IF i = 1 THEN p[i] ELSE f[i - 1] \o p[i]]
<1>3. \E f : f = Body(f)
  <2> DEFINE f == [g \in 1 .. G |-> Row(p, w, g)]
  <2>1. ASSUME NEW g \in 1 .. G PROVE f[g] = IF g = 1 THEN p[g] ELSE f[g - 1] \o p[g]
    <3>1. CASE g = 1
      BY <1>1, <3>1
    <3>2. CASE g # 1
      <4>1. g - 1 \in 1 .. G /\ f[g - 1] = Row(p, w, g - 1)
        BY <3>2
      <4>2. Row(p, w, g) = Row(p, w, g - 1) \o p[g]
        BY <1>1, <3>2
      <4> QED
        BY <3>2, <4>1, <4>2
    <3> QED
      BY <3>1, <3>2
  <2>2. f = [g \in 1 .. G |-> f[g]]
    OBVIOUS
  <2> HIDE DEF f
  <2>3. f = Body(f)
    BY <1>2, <2>1, <2>2
  <2> QED
    BY <2>3
<1>4. PICK f : f = Body(f) /\ FlattenSeq(p) = f[Len(p)]
  BY <1>2, <1>3 DEF FlattenSeq
<1>5. \A g \in 1 .. G : f[g] = IF g = 1 THEN p[g] ELSE f[g - 1] \o p[g]
  BY <1>2, <1>4
<1> HIDE DEF Body
<1> DEFINE Same == {g \in Nat : g < G => f[g + 1] = Row(p, w, g + 1)}
<1>6. 0 \in Same
  <2>1. 1 \in 1 .. G
    OBVIOUS
  <2>2. f[1] = Row(p, w, 1)
    BY <1>5, <2>1, <1>1
  <2> QED
    BY <2>2
<1>7. ASSUME NEW g \in Nat, g \in Same PROVE g + 1 \in Same
  <2> SUFFICES ASSUME g + 1 < G PROVE f[g + 1 + 1] = Row(p, w, g + 1 + 1)
    OBVIOUS
  <2>1. PICK k \in 1 .. G : k = g + 1 + 1 /\ k # 1 /\ k - 1 = g + 1
    OBVIOUS
  <2>2. f[k - 1] = Row(p, w, k - 1)
    BY <1>7, <2>1
  <2>3. f[k] = f[k - 1] \o p[k]
    BY <1>5, <2>1, Zenon
  <2>4. Row(p, w, k) = Row(p, w, k - 1) \o p[k]
    BY <1>1, <2>1, Zenon
  <2> QED
    BY <2>1, <2>2, <2>3, <2>4
<1>8. Nat \subseteq Same
  <2> HIDE DEF Same
  <2> QED
    BY <1>6, <1>7, Induct
<1>9. G - 1 \in Nat /\ G - 1 < G /\ G - 1 + 1 = G
  OBVIOUS
<1>10. f[G] = Row(p, w, G)
  BY <1>8, <1>9
<1> QED
  BY <1>2, <1>4, <1>10

(* Three bytes, their four digits of six bits, and what is read of them.    *)
Three(a, b, c) == a * 65536 + b * 256 + c
Four(n) == << n \div 262144, (n \div 4096) % 64, (n \div 64) % 64, n % 64 >>
Number(x, y, z, u) == x * 262144 + y * 4096 + z * 64 + u

LEMMA FourOfThree ==
  ASSUME NEW a \in Octets, NEW b \in Octets, NEW c \in Octets, NEW n, n = Three(a, b, c)
  PROVE /\ n \in Nat
        /\ n \div 262144 = a \div 4
        /\ (n \div 4096) % 64 = (a % 4) * 16 + b \div 16
        /\ (n \div 64) % 64 = (b % 16) * 4 + c \div 64
        /\ n % 64 = c % 64
<1>1. a \in 0 .. 255 /\ b \in 0 .. 255 /\ c \in 0 .. 255 /\ n = a * 65536 + b * 256 + c
  BY DEF Octets, Three
<1>2. PICK a1 \in 0 .. 63, a2 \in 0 .. 3 : a = 4 * a1 + a2 /\ a1 = a \div 4 /\ a2 = a % 4
  BY <1>1
<1>3. PICK b1 \in 0 .. 15, b2 \in 0 .. 15 : b = 16 * b1 + b2 /\ b1 = b \div 16 /\ b2 = b % 16
  BY <1>1
<1>4. PICK c1 \in 0 .. 3, c2 \in 0 .. 63 : c = 64 * c1 + c2 /\ c1 = c \div 64 /\ c2 = c % 64
  BY <1>1
<1>5. n = 262144 * a1 + 65536 * a2 + 4096 * b1 + 256 * b2 + 64 * c1 + c2
  BY <1>1, <1>2, <1>3, <1>4
<1>6. n \div 262144 = a1
  BY <1>5
<1>7. n \div 4096 = 64 * a1 + 16 * a2 + b1
  BY <1>5
<1>8. (64 * a1 + 16 * a2 + b1) % 64 = 16 * a2 + b1
  OBVIOUS
<1>9. n \div 64 = 64 * (64 * a1 + 16 * a2 + b1) + 4 * b2 + c1
  BY <1>5
<1>10. (64 * (64 * a1 + 16 * a2 + b1) + 4 * b2 + c1) % 64 = 4 * b2 + c1
  OBVIOUS
<1>11. n % 64 = c2 /\ n \in Nat
  BY <1>5
<1> QED
  BY <1>2, <1>3, <1>4, <1>6, <1>7, <1>8, <1>9, <1>10, <1>11

LEMMA ThreeOfFour ==
  ASSUME NEW a \in Octets, NEW b \in Octets, NEW c \in Octets,
         NEW x, NEW y, NEW z, NEW u,
         x = a \div 4, y = (a % 4) * 16 + b \div 16, z = (b % 16) * 4 + c \div 64, u = c % 64
  PROVE /\ x \in 0 .. 63 /\ y \in 0 .. 63 /\ z \in 0 .. 63 /\ u \in 0 .. 63
        /\ Byte(Number(x, y, z, u) \div 65536) = a
        /\ Byte(Number(x, y, z, u) \div 256) = b
        /\ Byte(Number(x, y, z, u)) = c
        /\ Byte(Number(x, y, z, 0) \div 65536) = a
        /\ Byte(Number(x, y, z, 0) \div 256) = b
        /\ Byte(Number(x, y, 0, 0) \div 65536) = a
<1>1. a \in 0 .. 255 /\ b \in 0 .. 255 /\ c \in 0 .. 255
  BY DEF Octets
<1>2. PICK a1 \in 0 .. 63, a2 \in 0 .. 3 : a = 4 * a1 + a2 /\ a1 = a \div 4 /\ a2 = a % 4
  BY <1>1
<1>3. PICK b1 \in 0 .. 15, b2 \in 0 .. 15 : b = 16 * b1 + b2 /\ b1 = b \div 16 /\ b2 = b % 16
  BY <1>1
<1>4. PICK c1 \in 0 .. 3, c2 \in 0 .. 63 : c = 64 * c1 + c2 /\ c1 = c \div 64 /\ c2 = c % 64
  BY <1>1
<1>5. x = a1 /\ y = 16 * a2 + b1 /\ z = 4 * b2 + c1 /\ u = c2
  BY <1>2, <1>3, <1>4
<1>6. /\ Number(x, y, z, u) = 65536 * a + 256 * b + c
      /\ Number(x, y, z, 0) = 65536 * a + 256 * b + 64 * c1
      /\ Number(x, y, 0, 0) = 65536 * a + 4096 * b1
  BY <1>2, <1>3, <1>4, <1>5 DEF Number
<1>7. \A k \in Nat : k <= 65535 => ((65536 * a + k) \div 65536) % 256 = a
  BY <1>1
<1>8. \A k \in Nat : k <= 255 => ((65536 * a + 256 * b + k) \div 256) % 256 = b
  <2> SUFFICES ASSUME NEW k \in Nat, k <= 255 PROVE ((65536 * a + 256 * b + k) \div 256) % 256 = b
    OBVIOUS
  <2>1. (65536 * a + 256 * b + k) \div 256 = 256 * a + b
    BY <1>1
  <2>2. (256 * a + b) % 256 = b
    BY <1>1
  <2> QED
    BY <2>1, <2>2
<1>9. \A m \in Nat : (256 * m + c) % 256 = c
  BY <1>1
<1>10. 256 * b + c \in Nat /\ 256 * b + c <= 65535 /\ 65536 * a + 256 * b + c = 65536 * a + (256 * b + c)
  BY <1>1
<1>11. /\ 64 * c1 \in Nat /\ 64 * c1 <= 255 /\ 256 * b + 64 * c1 \in Nat /\ 256 * b + 64 * c1 <= 65535
       /\ 65536 * a + 256 * b + 64 * c1 = 65536 * a + (256 * b + 64 * c1)
  BY <1>1
<1>12. 4096 * b1 \in Nat /\ 4096 * b1 <= 65535
  OBVIOUS
<1>13. 256 * a + b \in Nat /\ 65536 * a + 256 * b + c = 256 * (256 * a + b) + c
  BY <1>1
<1>14. Byte(Number(x, y, z, u)) = c
  BY <1>6, <1>9, <1>13 DEF Byte
<1>15. Byte(Number(x, y, z, u) \div 256) = b
  <2>1. c \in Nat /\ c <= 255
    BY <1>1
  <2>2. ((65536 * a + 256 * b + c) \div 256) % 256 = b
    BY <1>8, <2>1
  <2> QED
    BY <1>6, <2>2 DEF Byte
<1>16. Byte(Number(x, y, z, u) \div 65536) = a
  BY <1>6, <1>7, <1>10 DEF Byte
<1>17. Byte(Number(x, y, z, 0) \div 256) = b
  BY <1>6, <1>8, <1>11 DEF Byte
<1>18. Byte(Number(x, y, z, 0) \div 65536) = a
  BY <1>6, <1>7, <1>11 DEF Byte
<1>19. Byte(Number(x, y, 0, 0) \div 65536) = a
  BY <1>6, <1>7, <1>12 DEF Byte
<1>20. x \in 0 .. 63 /\ y \in 0 .. 63 /\ z \in 0 .. 63 /\ u \in 0 .. 63
  BY <1>5
<1> QED
  BY <1>20, <1>14, <1>15, <1>16, <1>17, <1>18, <1>19

LEMMA Thirds ==
  ASSUME NEW N \in Nat \ {0}, NEW G, G = (N + 3 - 1) \div 3
  PROVE /\ G \in Nat \ {0} /\ 3 * (G - 1) < N /\ N <= 3 * G
        /\ N % 3 = 0 => N = 3 * (G - 1) + 3
        /\ N % 3 = 1 => N = 3 * (G - 1) + 1
        /\ N % 3 = 2 => N = 3 * (G - 1) + 2
        /\ N % 3 \in {0, 1, 2}
        /\ \A g \in 1 .. G : g < G => 3 * g < N
OBVIOUS

LEMMA MinIs ==
  ASSUME NEW S \in SUBSET Int, NEW m \in S, \A x \in S : m <= x
  PROVE Min(S) = m
<1>1. m \in S /\ \A y \in S : m <= y
  OBVIOUS
<1>2. Min(S) \in S /\ \A y \in S : Min(S) <= y
  BY <1>1, Zenon DEF Min
<1>3. PICK k \in S : k = Min(S) /\ k >= m /\ k <= m
  BY <1>2
<1> QED
  BY <1>3

LEMMA MinOfTwo ==
  ASSUME NEW a \in Nat, NEW b \in Nat
  PROVE Min({a, b}) = IF a <= b THEN a ELSE b
<1>1. CASE a <= b
  BY <1>1, MinIs
<1>2. CASE ~(a <= b)
  BY <1>2, MinIs
<1> QED
  BY <1>1, <1>2

CutOf(S, t, b, e, o) ==
  t \in Seq(S) /\ b \in Nat /\ e \in Nat /\ b <= e /\ e <= Len(t) /\ o = SubSeq(t, b + 1, e)
CutIs(S, t, b, e, o) == o \in Seq(S) /\ Len(o) = e - b /\ \A i \in 1 .. e - b : o[i] = t[b + i]
LEMMA Cut ==
  ASSUME NEW S, NEW t, NEW b, NEW e, NEW o, CutOf(S, t, b, e, o)
  PROVE CutIs(S, t, b, e, o)
<1> USE DEF CutOf, CutIs
<1>1. \A i \in b + 1 .. e : t[i] \in S
  OBVIOUS
<1>2. /\ o \in Seq(S) /\ Len(o) = IF b + 1 <= e THEN e - (b + 1) + 1 ELSE 0
      /\ \A i \in 1 .. e - (b + 1) + 1 : o[i] = t[b + 1 + i - 1]
  BY <1>1, SubSeqProperties
<1>3. e - (b + 1) + 1 = e - b /\ (~(b + 1 <= e) => e - b = 0) /\ \A i \in 1 .. e - b : b + 1 + i - 1 = b + i
  OBVIOUS
<1> QED
  BY <1>2, <1>3

(* The bytes that a group of three has, zeros after the last.               *)
GroupHas(s, o, g, e) ==
  /\ Len(o) = e - 3 * (g - 1) /\ 3 * (g - 1) + Len(o) = e
  /\ At(o, 1) = At(s, 3 * (g - 1) + 1) /\ At(o, 2) = At(s, 3 * (g - 1) + 2)
  /\ At(o, 3) = At(s, 3 * (g - 1) + 3)
LEMMA GroupOfThree ==
  ASSUME NEW s \in Seq(Octets), s # << >>, NEW G, G = (Len(s) + 3 - 1) \div 3, NEW g \in 1 .. G
  PROVE GroupHas(s, Groups(s, 3)[g], g, IF g < G THEN 3 * g ELSE Len(s))
<1>1. PICK N \in Nat \ {0} : N = Len(s)
  <2>1. Len(s) \in Nat
    OBVIOUS
  <2>2. Len(s) # 0
    OBVIOUS
  <2> QED
    BY <2>1, <2>2
<1>2. /\ G \in Nat \ {0} /\ 3 * (G - 1) < N /\ N <= 3 * G
      /\ \A h \in 1 .. G : h < G => 3 * h < N
  <2>1. G = (N + 3 - 1) \div 3
    BY <1>1
  <2> QED
    BY <2>1, Thirds, Zenon
<1>3. PICK b \in Nat : b = 3 * (g - 1) /\ b + 3 = g * 3
  BY <1>2
<1>4. PICK e \in Nat : /\ e = Min({g * 3, N}) /\ b < e /\ e <= b + 3 /\ e <= N
                       /\ e = (IF g < G THEN 3 * g ELSE N)
                       /\ (e < b + 3 => e = N)
  <2>1. PICK t \in Nat : t = g * 3 /\ t = 3 * g /\ t = b + 3
    BY <1>3
  <2>2. Min({t, N}) = IF t <= N THEN t ELSE N
    BY MinOfTwo
  <2>3. b < N /\ (g < G => t < N) /\ (~(g < G) => N <= t)
    BY <1>2, <1>3, <2>1
  <2> QED
    BY <2>1, <2>2, <2>3
<1>5. PICK o : o = Groups(s, 3)[g]
  OBVIOUS
<1>6. o = SubSeq(s, b + 1, e)
  <2>1. g \in 1 .. (Len(s) + 3 - 1) \div 3
    OBVIOUS
  <2>2. o = SubSeq(s, (g - 1) * 3 + 1, Min({g * 3, Len(s)}))
    BY <1>5, <2>1 DEF Groups
  <2>3. (g - 1) * 3 = b
    BY <1>2, <1>3
  <2> QED
    BY <1>1, <1>4, <2>2, <2>3
<1>7. Len(o) = e - b /\ \A i \in 1 .. e - b : o[i] = s[b + i]
  <2>1. CutOf(Octets, s, b, e, o)
    <3>1. b <= e /\ e <= Len(s)
      BY <1>1, <1>4
    <3> QED
      BY <1>6, <3>1, Zenon DEF CutOf
  <2>2. CutIs(Octets, s, b, e, o)
    BY <2>1, Cut, Zenon
  <2> QED
    BY <2>2 DEF CutIs
<1>8. ASSUME NEW k \in {1, 2, 3} PROVE At(o, k) = At(s, b + k)
  <2>1. CASE k <= e - b
    <3>1. At(o, k) = o[k] /\ b + k <= Len(s)
      BY <1>1, <1>4, <1>7, <2>1 DEF At
    <3> QED
      BY <1>7, <2>1, <3>1 DEF At
  <2>2. CASE ~(k <= e - b)
    <3>1. e < b + 3 /\ ~(b + k <= N)
      BY <1>4, <2>2
    <3> QED
      BY <1>1, <1>7, <2>2, <3>1 DEF At
  <2> QED
    BY <2>1, <2>2
<1>9. b + Len(o) = e /\ Len(o) = e - b
  BY <1>4, <1>7
<1> QED
  BY <1>1, <1>3, <1>4, <1>5, <1>8, <1>9 DEF GroupHas

(* The three bytes of a group, and the four digits that are made of them.   *)
Third(s, g) == Three(At(s, 3 * (g - 1) + 1), At(s, 3 * (g - 1) + 2), At(s, 3 * (g - 1) + 3))
Quad(s, g) == Four(Third(s, g))
(* The quads of a text of which l bytes of the last three are read back.    *)
Ending(d, l) ==
  IF l = 3 THEN d ELSE IF l = 2 THEN << d[1], d[2], d[3], Pad >> ELSE << d[1], d[2], Pad, Pad >>
Quads(s, G, l) == [g \in 1 .. G |-> IF g < G THEN Quad(s, g) ELSE Ending(Quad(s, g), l)]
Letters == 0 .. Pad

LEMMA FourDigits ==
  ASSUME NEW a \in Octets, NEW b \in Octets, NEW c \in Octets
  PROVE Four(Three(a, b, c)) = << a \div 4, (a % 4) * 16 + b \div 16, (b % 16) * 4 + c \div 64, c % 64 >>
<1>1. PICK n : n = Three(a, b, c)
  OBVIOUS
<1>2. /\ n \div 262144 = a \div 4
      /\ (n \div 4096) % 64 = (a % 4) * 16 + b \div 16
      /\ (n \div 64) % 64 = (b % 16) * 4 + c \div 64
      /\ n % 64 = c % 64
  BY <1>1, FourOfThree, SMT
<1> QED
  BY <1>1, <1>2, SMT DEF Four

LEMMA AtTyped ==
  ASSUME NEW s \in Seq(Octets), NEW k \in Nat \ {0}
  PROVE At(s, k) \in Octets
<1>1. CASE k <= Len(s)
  <2>1. s[k] \in Octets
    BY <1>1
  <2> QED
    BY <1>1, <2>1 DEF At
<1>2. CASE ~(k <= Len(s))
  BY <1>2 DEF At, Octets
<1> QED
  BY <1>1, <1>2

LEMMA QuadIs ==
  ASSUME NEW s \in Seq(Octets), NEW g \in Nat \ {0}
  PROVE \E a, b, c \in Octets :
          /\ a = At(s, 3 * (g - 1) + 1) /\ b = At(s, 3 * (g - 1) + 2) /\ c = At(s, 3 * (g - 1) + 3)
          /\ Quad(s, g) = << a \div 4, (a % 4) * 16 + b \div 16, (b % 16) * 4 + c \div 64, c % 64 >>
<1>1. 3 * (g - 1) + 1 \in Nat \ {0} /\ 3 * (g - 1) + 2 \in Nat \ {0} /\ 3 * (g - 1) + 3 \in Nat \ {0}
  OBVIOUS
<1>2. PICK a \in Octets, b \in Octets, c \in Octets :
        a = At(s, 3 * (g - 1) + 1) /\ b = At(s, 3 * (g - 1) + 2) /\ c = At(s, 3 * (g - 1) + 3)
  BY <1>1, AtTyped
<1>3. Quad(s, g) = Four(Three(a, b, c))
  BY <1>2, Zenon DEF Quad, Third
<1>4. Quad(s, g) = << a \div 4, (a % 4) * 16 + b \div 16, (b % 16) * 4 + c \div 64, c % 64 >>
  BY <1>3, FourDigits, Zenon
<1> QED
  BY <1>2, <1>4, ZenonT(60)

LEMMA QuadTyped ==
  ASSUME NEW s \in Seq(Octets), NEW g \in Nat \ {0}
  PROVE \E x, y, z, u \in 0 .. 63 : Quad(s, g) = << x, y, z, u >>
<1>1. PICK a, b, c \in Octets :
        /\ a = At(s, 3 * (g - 1) + 1) /\ b = At(s, 3 * (g - 1) + 2) /\ c = At(s, 3 * (g - 1) + 3)
        /\ Quad(s, g) = << a \div 4, (a % 4) * 16 + b \div 16, (b % 16) * 4 + c \div 64, c % 64 >>
  BY QuadIs, Zenon
<1>2. PICK x, y, z, u : /\ x = a \div 4 /\ y = (a % 4) * 16 + b \div 16 
                        /\ z = (b % 16) * 4 + c \div 64 /\ u = c % 64
  OBVIOUS
<1>3. x \in 0 .. 63 /\ y \in 0 .. 63 /\ z \in 0 .. 63 /\ u \in 0 .. 63
  BY <1>2, ThreeOfFour
<1>4. Quad(s, g) = << x, y, z, u >>
  BY <1>1, <1>2, Zenon
<1> QED
  BY <1>3, <1>4, Zenon

LEMMA QuadsAreParts ==
  ASSUME NEW s \in Seq(Octets), NEW G \in Nat \ {0}, NEW l \in {1, 2, 3}
  PROVE Parts(Quads(s, G, l), 4, G, Letters) /\ \A g \in 1 .. G : Len(Quads(s, G, l)[g]) = 4
<1>1. ASSUME NEW g \in 1 .. G PROVE Quads(s, G, l)[g] \in Seq(Letters) /\ Len(Quads(s, G, l)[g]) = 4
  <2>1. PICK x \in 0 .. 63, y \in 0 .. 63, z \in 0 .. 63, u \in 0 .. 63 : Quad(s, g) = << x, y, z, u >>
    <3>1. g \in Nat \ {0}
      OBVIOUS
    <3> QED
      BY <3>1, QuadTyped, Zenon
  <2>2. x \in Letters /\ y \in Letters /\ z \in Letters /\ u \in Letters /\ Pad \in Letters
    BY DEF Letters, Pad
  <2>3. PICK q : q = Quads(s, G, l)[g] /\ (q = << x, y, z, u >> \/ q = << x, y, z, Pad >> \/ q = << x, y, Pad, Pad >>)
    <3>1. Ending(Quad(s, g), l) \in {<< x, y, z, u >>, << x, y, z, Pad >>, << x, y, Pad, Pad >>}
      BY <2>1 DEF Ending
    <3> QED
      BY <2>1, <3>1 DEF Quads
  <2>4. << x, y, z, u >> \in Seq(Letters) /\ << x, y, z, Pad >> \in Seq(Letters)
      /\ << x, y, Pad, Pad >> \in Seq(Letters)
    BY <2>2
  <2>5. Len(<< x, y, z, u >>) = 4 /\ Len(<< x, y, z, Pad >>) = 4 /\ Len(<< x, y, Pad, Pad >>) = 4
    OBVIOUS
  <2> QED
    BY <2>3, <2>4, <2>5
<1>2. Quads(s, G, l) = [g \in 1 .. G |-> Quads(s, G, l)[g]]
  BY DEF Quads
<1>3. Quads(s, G, l) \in [1 .. G -> Seq(Letters)]
  BY <1>1, <1>2
<1>4. 4 \in {3, 4} /\ \A g \in 1 .. G : Len(Quads(s, G, l)[g]) \in 0 .. 4
  BY <1>1
<1> QED
  BY <1>1, <1>3, <1>4, Zenon DEF Parts

LEMMA EncodeIs ==
  ASSUME NEW s \in Seq(Octets), s # << >>, NEW G, G = (Len(s) + 3 - 1) \div 3
  PROVE base64encode(s) = Row(Quads(s, G, 2), 4, G)
<1>1. PICK N \in Nat \ {0} : N = Len(s)
  <2>1. Len(s) \in Nat
    OBVIOUS
  <2>2. Len(s) # 0
    OBVIOUS
  <2> QED
    BY <2>1, <2>2
<1>2. G \in Nat \ {0} /\ \A h \in 1 .. G : h < G => 3 * h < N
  <2>1. G = (N + 3 - 1) \div 3
    BY <1>1
  <2> QED
    BY <2>1, Thirds, Zenon
<1>3. ASSUME NEW g \in 1 .. G PROVE EncodeGroup(s, g) = Quads(s, G, 2)[g]
  <2>1. PICK o : o = Groups(s, 3)[g]
    OBVIOUS
  <2>2. PICK e \in Nat : e = (IF g < G THEN 3 * g ELSE N) /\ (g < G => e < N) /\ (~(g < G) => e = N)
    BY <1>2
  <2>3. GroupHas(s, o, g, e)
    BY <1>1, <2>1, <2>2, GroupOfThree
  <2>4. EncodeGroup(s, g) = Marks(e, N, Quad(s, g))
    <3>1. PICK t : t = At(o, 1) * 65536 + At(o, 2) * 256 + At(o, 3)
      OBVIOUS
    <3>2. t = Third(s, g) /\ 3 * (g - 1) + Len(o) = e
      BY <2>3, <3>1, SMT DEF GroupHas, Third, Three
    <3>3. EncodeGroup(s, g) = Marks(3 * (g - 1) + Len(o), Len(s), Four(t))
      BY <2>1, <3>1, SMT DEF EncodeGroup, Four
    <3> QED
      BY <1>1, <3>2, <3>3, Zenon DEF Quad
  <2>5. CASE g < G
    <3>1. ~(e > N) /\ e # N
      BY <2>2, <2>5
    <3>2. Marks(e, N, Quad(s, g)) = Quad(s, g)
      BY <3>1 DEF Marks
    <3> QED
      BY <2>4, <2>5, <3>2 DEF Quads
  <2>6. CASE ~(g < G)
    <3>1. ~(e > N) /\ e = N
      BY <2>2, <2>6
    <3>2. Marks(e, N, Quad(s, g)) = Ending(Quad(s, g), 2)
      BY <3>1 DEF Marks, Ending
    <3> QED
      BY <2>4, <2>6, <3>2 DEF Quads
  <2> QED
    BY <2>5, <2>6
<1>4. DOMAIN Groups(s, 3) = 1 .. G
  BY DEF Groups
<1>5. [g \in DOMAIN Groups(s, 3) |-> EncodeGroup(s, g)] = Quads(s, G, 2)
  <2>1. Quads(s, G, 2) = [g \in 1 .. G |-> Quads(s, G, 2)[g]]
    BY DEF Quads
  <2>2. [g \in 1 .. G |-> EncodeGroup(s, g)] = [g \in 1 .. G |-> Quads(s, G, 2)[g]]
    BY <1>3
  <2> QED
    BY <1>4, <2>1, <2>2
<1>6. base64encode(s) = FlattenSeq(Quads(s, G, 2))
  BY <1>5, Zenon DEF base64encode
<1>7. Parts(Quads(s, G, 2), 4, G, Letters)
  BY <1>2, QuadsAreParts
<1> QED
  BY <1>6, <1>7, FlattenIsRow DEF FlatRow

LEMMA SameFour ==
  ASSUME NEW S, NEW o \in Seq(S), NEW q \in Seq(S), Len(o) = 4, Len(q) = 4,
         \A i \in 1 .. 4 : o[i] = q[i]
  PROVE o = q
OBVIOUS

RowOf(p, w, g, S) == Row(p, w, g) \in Seq(S) /\ Len(Row(p, w, g)) = w * (g - 1) + Len(p[g])
LEMMA RowIs ==
  ASSUME NEW S, NEW w, NEW G, NEW p, Parts(p, w, G, S), NEW g \in 1 .. G
  PROVE RowOf(p, w, g, S)
BY RowTyped DEF RowOf

Fours(p, w, G, S) == w = 4 /\ Parts(p, w, G, S) /\ \A g \in 1 .. G : Len(p[g]) = 4
DecodedRow(p, w, G) == base64decode(Row(p, w, G)) = FlattenSeq([g \in 1 .. G |-> DecodeFour(p[g])])
LEMMA DecodeRow ==
  ASSUME NEW S, NEW w, NEW G, NEW p, Fours(p, w, G, S)
  PROVE DecodedRow(p, w, G)
<1> USE DEF DecodedRow
<1> w = 4 /\ Parts(p, w, G, S) /\ \A g \in 1 .. G : Len(p[g]) = 4
  BY DEF Fours
<1>1. G \in Nat \ {0} /\ G \in 1 .. G /\ p \in [1 .. G -> Seq(S)]
  BY DEF Parts
<1>2. Row(p, w, G) \in Seq(S) /\ Len(Row(p, w, G)) = w * (G - 1) + Len(p[G])
  <2>1. RowOf(p, w, G, S)
    BY <1>1, RowIs, Zenon
  <2> QED
    BY <2>1, Zenon DEF RowOf
<1>3. PICK t \in Seq(S) : t = Row(p, w, G) /\ Len(t) = 4 * (G - 1) + Len(p[G])
  BY <1>2
<1>4. Len(t) = 4 * G /\ Len(t) % 4 = 0 /\ (Len(t) + 4 - 1) \div 4 = G
  <2>1. Len(t) = 4 * G
    <3>1. Len(p[G]) = 4
      BY <1>1
    <3> QED
      BY <1>1, <1>3, <3>1
  <2>2. (4 * G) % 4 = 0 /\ (4 * G + 4 - 1) \div 4 = G
    BY <1>1
  <2> QED
    BY <2>1, <2>2
<1>5. DOMAIN Groups(t, 4) = 1 .. G
  BY <1>4 DEF Groups
<1>6. ASSUME NEW g \in 1 .. G PROVE Groups(t, 4)[g] = p[g]
  <2>1. PICK b \in Nat : b = 4 * (g - 1) /\ b = (g - 1) * 4 /\ g * 4 = b + 4 /\ b + 4 <= 4 * G
    BY <1>1
  <2>2. Min({g * 4, Len(t)}) = b + 4
    <3>1. 4 * G \in Nat /\ b + 4 \in Nat
      BY <1>1
    <3>2. Min({b + 4, 4 * G}) = IF b + 4 <= 4 * G THEN b + 4 ELSE 4 * G
      BY <3>1, MinOfTwo
    <3> QED
      BY <1>4, <2>1, <3>2
  <2>3. PICK o : o = Groups(t, 4)[g] /\ o = SubSeq(t, b + 1, b + 4)
    <3>1. g \in 1 .. (Len(t) + 4 - 1) \div 4
      BY <1>4
    <3>2. Groups(t, 4)[g] = SubSeq(t, (g - 1) * 4 + 1, Min({g * 4, Len(t)}))
      BY <3>1 DEF Groups
    <3> QED
      BY <2>1, <2>2, <3>2
  <2>4. o \in Seq(S) /\ Len(o) = 4 /\ \A i \in 1 .. 4 : o[i] = t[b + i]
    <3>1. PICK e \in Nat : e = b + 4 /\ b <= e /\ e <= Len(t) /\ e - b = 4
      BY <1>4, <2>1
    <3>2. o \in Seq(S) /\ Len(o) = e - b /\ \A i \in 1 .. e - b : o[i] = t[b + i]
      <4>1. CutOf(S, t, b, e, o)
        BY <2>3, <3>1 DEF CutOf
      <4>2. CutIs(S, t, b, e, o)
        BY <4>1, Cut, Zenon
      <4> QED
        BY <4>2, Zenon DEF CutIs
    <3> QED
      BY <3>1, <3>2
  <2>5. ASSUME NEW i \in 1 .. 4 PROVE t[b + i] = p[g][i]
    <3>1. PICK n \in Nat : n = w * (G - 1) + Len(p[G]) /\ n = 4 * G
      BY <1>3, <1>4
    <3>2. t = [k \in 1 .. n |-> p[(k - 1) \div w + 1][((k - 1) % w) + 1]]
      BY <1>3, <3>1, SMT DEF Row
    <3>3. PICK k \in 1 .. n : k = b + i
      BY <2>1, <3>1
    <3>4. t[k] = p[(k - 1) \div w + 1][((k - 1) % w) + 1]
      BY <3>2
    <3>5. PICK h \in Nat : h = g - 1 /\ b = w * h
      BY <2>1
    <3>6. (k - 1) \div w = h /\ (k - 1) % w = i - 1
      <4>1. w * h < k /\ k <= w * h + w /\ k \in Nat /\ k - w * h - 1 = i - 1 /\ w \in {3, 4}
        BY <3>3, <3>5
      <4>2. (k - 1) \div w = h /\ (k - 1) % w = k - w * h - 1
        BY <4>1, PlaceIn
      <4> QED
        BY <4>1, <4>2
    <3>7. h + 1 = g /\ i - 1 + 1 = i
      BY <3>5
    <3> QED
      BY <3>3, <3>6, <3>7, <3>4
  <2>6. PICK q \in Seq(S) : q = p[g] /\ Len(q) = 4
    BY <1>1
  <2>7. o = q
    <3>1. \A i \in 1 .. 4 : o[i] = q[i]
      BY <2>4, <2>5, <2>6
    <3>2. Len(o) = 4 /\ o \in Seq(S) /\ q \in Seq(S) /\ Len(q) = 4
      BY <2>4, <2>6, Zenon
    <3> QED
      BY <3>1, <3>2, SameFour, Zenon
  <2> QED
    BY <2>3, <2>6, <2>7
<1>7. [g \in DOMAIN Groups(t, 4) |-> DecodeFour(Groups(t, 4)[g])] = [g \in 1 .. G |-> DecodeFour(p[g])]
  BY <1>5, <1>6
<1> QED
  BY <1>3, <1>4, <1>7 DEF base64decode

Byte1(v) == Byte(v \div 65536)
Byte2(v) == Byte(v \div 256)
FourOf(q, v, x, y, d, e) ==
  /\ x \in 0 .. 63 /\ y \in 0 .. 63
  /\ q = << x, y, d, e >> /\ v = Number(x, y, char_to_value(d), char_to_value(e))
Reads(q, v, d, e) ==
  DecodeFour(q) = << Byte1(v) >> \o (IF d # Pad THEN << Byte2(v) >> ELSE << >>)
                                 \o (IF e # Pad THEN << Byte(v) >> ELSE << >>)
LEMMA DecodeFourIs ==
  ASSUME NEW q, NEW v, NEW x, NEW y, NEW d, NEW e, FourOf(q, v, x, y, d, e)
  PROVE Reads(q, v, d, e)
<1> USE DEF FourOf, Reads
<1>1. char_to_value(x) = x /\ char_to_value(y) = y
  BY DEF char_to_value
<1>2. q[1] = x /\ q[2] = y /\ q[3] = d /\ q[4] = e
  OBVIOUS
<1>3. v = char_to_value(q[1]) * 262144 + char_to_value(q[2]) * 4096
          + char_to_value(q[3]) * 64 + char_to_value(q[4])
  BY <1>1, <1>2, SMT DEF Number
<1> QED
  BY <1>2, <1>3, SMT DEF DecodeFour, Byte1, Byte2

LEMMA JoinedBytes ==
  ASSUME NEW a \in Octets, NEW b \in Octets, NEW c \in Octets
  PROVE /\ << a >> \o << b >> \o << c >> = << a, b, c >>
        /\ << a >> \o << b >> \o << >> = << a, b >>
        /\ << a >> \o << >> \o << >> = << a >>
<1>1. PICK f \in Seq(Octets), g \in Seq(Octets), h \in Seq(Octets) : f = << a >> /\ g = << b >> /\ h = << c >>
  <2>1. << a >> \in Seq(Octets) /\ << b >> \in Seq(Octets) /\ << c >> \in Seq(Octets)
    OBVIOUS
  <2> QED
    BY <2>1, Zenon
<1>2. Len(f) = 1 /\ Len(g) = 1 /\ Len(h) = 1 /\ f[1] = a /\ g[1] = b /\ h[1] = c
  BY <1>1
<1>3. PICK r \in Seq(Octets) : r = f \o g
  BY ConcatProperties
<1>4. Len(r) = 2 /\ r[1] = a /\ r[2] = b
  <2>1. Len(r) = Len(f) + Len(g)
        /\ \A i \in 1 .. Len(f) + Len(g) : r[i] = IF i <= Len(f) THEN f[i] ELSE g[i - Len(f)]
    BY <1>3, ConcatProperties
  <2> QED
    BY <1>2, <2>1
<1>5. PICK q \in Seq(Octets) : q = r \o h
  BY ConcatProperties
<1>6. Len(q) = 3 /\ q[1] = a /\ q[2] = b /\ q[3] = c
  <2>1. Len(q) = Len(r) + Len(h)
        /\ \A i \in 1 .. Len(r) + Len(h) : q[i] = IF i <= Len(r) THEN r[i] ELSE h[i - Len(r)]
    BY <1>5, ConcatProperties
  <2> QED
    BY <1>2, <1>4, <2>1
<1>7. q = << a, b, c >> /\ r = << a, b >>
  BY <1>4, <1>6
<1>8. f \o << >> = f /\ r \o << >> = r
  BY ConcatEmptySeq
<1> QED
  BY <1>1, <1>3, <1>5, <1>7, <1>8, Zenon

DigitsOf(a, b, c, x, y, z, u) ==
  /\ x = a \div 4 /\ y = (a % 4) * 16 + b \div 16 /\ z = (b % 16) * 4 + c \div 64 /\ u = c % 64
  /\ a \in Octets /\ b \in Octets /\ c \in Octets
LEMMA DecodeDigits ==
  ASSUME NEW a, NEW b, NEW c, NEW x, NEW y, NEW z, NEW u, DigitsOf(a, b, c, x, y, z, u)
  PROVE /\ DecodeFour(<< x, y, z, u >>) = << a, b, c >>
        /\ DecodeFour(<< x, y, z, Pad >>) = << a, b >>
        /\ DecodeFour(<< x, y, Pad, Pad >>) = << a >>
<1> a \in Octets /\ b \in Octets /\ c \in Octets
  BY DEF DigitsOf
<1>1. /\ x \in 0 .. 63 /\ y \in 0 .. 63 /\ z \in 0 .. 63 /\ u \in 0 .. 63
      /\ Byte1(Number(x, y, z, u)) = a
      /\ Byte2(Number(x, y, z, u)) = b
      /\ Byte(Number(x, y, z, u)) = c
      /\ Byte1(Number(x, y, z, 0)) = a
      /\ Byte2(Number(x, y, z, 0)) = b
      /\ Byte1(Number(x, y, 0, 0)) = a
  BY ThreeOfFour, SMT DEF Byte1, Byte2, DigitsOf
<1>2. /\ char_to_value(z) = z /\ char_to_value(u) = u /\ char_to_value(Pad) = 0
      /\ z # Pad /\ u # Pad
  BY <1>1 DEF char_to_value, Pad
<1>3. DecodeFour(<< x, y, z, u >>) = << a >> \o << b >> \o << c >>
  <2>1. PICK v, q : v = Number(x, y, z, u) /\ q = << x, y, z, u >>
    OBVIOUS
  <2>2. FourOf(q, v, x, y, z, u)
    BY <1>1, <1>2, <2>1 DEF FourOf
  <2>3. Reads(q, v, z, u)
    BY <2>2, DecodeFourIs
  <2> QED
    BY <1>1, <1>2, <2>1, <2>3, Zenon DEF Reads
<1>4. DecodeFour(<< x, y, z, Pad >>) = << a >> \o << b >> \o << >>
  <2>1. PICK v, q : v = Number(x, y, z, 0) /\ q = << x, y, z, Pad >>
    OBVIOUS
  <2>2. FourOf(q, v, x, y, z, Pad)
    BY <1>1, <1>2, <2>1 DEF FourOf
  <2>3. Reads(q, v, z, Pad)
    BY <2>2, DecodeFourIs
  <2> QED
    BY <1>1, <1>2, <2>1, <2>3, Zenon DEF Reads
<1>5. DecodeFour(<< x, y, Pad, Pad >>) = << a >> \o << >> \o << >>
  <2>1. PICK v, q : v = Number(x, y, 0, 0) /\ q = << x, y, Pad, Pad >>
    OBVIOUS
  <2>2. FourOf(q, v, x, y, Pad, Pad)
    BY <1>1, <1>2, <2>1 DEF FourOf
  <2>3. Reads(q, v, Pad, Pad)
    BY <2>2, DecodeFourIs
  <2> QED
    BY <1>1, <1>2, <2>1, <2>3, Zenon DEF Reads
<1> QED
  BY <1>3, <1>4, <1>5, JoinedBytes, Zenon

(* The bytes of each group, l of the last.                                  *)
Group(s, g, n) == [j \in 1 .. n |-> At(s, 3 * (g - 1) + j)]
Triples(s, G, l) == [g \in 1 .. G |-> Group(s, g, IF g < G THEN 3 ELSE l)]

LEMMA GroupTyped ==
  ASSUME NEW s \in Seq(Octets), NEW g \in Nat \ {0}, NEW n \in Nat
  PROVE Group(s, g, n) \in Seq(Octets) /\ Len(Group(s, g, n)) = n
<1>1. \A j \in 1 .. n : At(s, 3 * (g - 1) + j) \in Octets
  <2> SUFFICES ASSUME NEW j \in 1 .. n PROVE At(s, 3 * (g - 1) + j) \in Octets
    OBVIOUS
  <2>1. 3 * (g - 1) + j \in Nat \ {0}
    OBVIOUS
  <2> QED
    BY <2>1, AtTyped
<1> DEFINE F(j) == At(s, 3 * (g - 1) + j)
<1>2. Group(s, g, n) = [j \in 1 .. n |-> F(j)]
  BY DEF Group
<1>3. \A j \in 1 .. n : F(j) \in Octets
  BY <1>1
<1> HIDE DEF F
<1> QED
  BY <1>2, <1>3

LEMMA TriplesAreParts ==
  ASSUME NEW s \in Seq(Octets), NEW G \in Nat \ {0}, NEW l \in {1, 2, 3}
  PROVE Parts(Triples(s, G, l), 3, G, Octets) /\ \A g \in 1 .. G : Len(Triples(s, G, l)[g]) = IF g < G THEN 3 ELSE l
<1>1. ASSUME NEW g \in 1 .. G
      PROVE /\ Triples(s, G, l)[g] \in Seq(Octets) /\ Len(Triples(s, G, l)[g]) \in 0 .. 3
            /\ Len(Triples(s, G, l)[g]) = IF g < G THEN 3 ELSE l
  <2>1. PICK n \in Nat : n = (IF g < G THEN 3 ELSE l) /\ n <= 3
    OBVIOUS
  <2>2. Triples(s, G, l)[g] = Group(s, g, n)
    BY <2>1 DEF Triples
  <2>3. Group(s, g, n) \in Seq(Octets) /\ Len(Group(s, g, n)) = n
    BY GroupTyped
  <2>4. PICK q : q = Triples(s, G, l)[g] /\ q \in Seq(Octets) /\ Len(q) = n
    BY <2>2, <2>3
  <2>5. Len(q) \in 0 .. 3 /\ Len(q) = IF g < G THEN 3 ELSE l
    BY <2>1, <2>4
  <2> QED
    BY <2>4, <2>5
<1>2. Triples(s, G, l) \in [1 .. G -> Seq(Octets)]
  <2>1. Triples(s, G, l) = [g \in 1 .. G |-> Triples(s, G, l)[g]]
    BY DEF Triples
  <2> QED
    BY <1>1, <2>1
<1>3. 3 \in {3, 4} /\ \A g \in 1 .. G : g < G => Len(Triples(s, G, l)[g]) = 3
  BY <1>1
<1>4. Parts(Triples(s, G, l), 3, G, Octets)
  BY <1>1, <1>2, <1>3, Zenon DEF Parts
<1> QED
  BY <1>1, <1>4

LEMMA DecodedQuad ==
  ASSUME NEW s \in Seq(Octets), NEW G \in Nat \ {0}, NEW l \in {1, 2, 3}, NEW g \in 1 .. G
  PROVE DecodeFour(Quads(s, G, l)[g]) = Triples(s, G, l)[g]
<1>1. g \in Nat \ {0}
  OBVIOUS
<1>2. PICK a \in Octets, b \in Octets, c \in Octets :
          /\ a = At(s, 3 * (g - 1) + 1) /\ b = At(s, 3 * (g - 1) + 2) /\ c = At(s, 3 * (g - 1) + 3)
          /\ Quad(s, g) = << a \div 4, (a % 4) * 16 + b \div 16, (b % 16) * 4 + c \div 64, c % 64 >>
  BY <1>1, QuadIs, Zenon
<1>3. PICK x, y, z, u : /\ x = a \div 4 /\ y = (a % 4) * 16 + b \div 16
                        /\ z = (b % 16) * 4 + c \div 64 /\ u = c % 64
  OBVIOUS
<1>4. /\ DecodeFour(<< x, y, z, u >>) = << a, b, c >>
      /\ DecodeFour(<< x, y, z, Pad >>) = << a, b >>
      /\ DecodeFour(<< x, y, Pad, Pad >>) = << a >>
  <2>1. DigitsOf(a, b, c, x, y, z, u)
    BY <1>3 DEF DigitsOf
  <2> QED
    BY <2>1, DecodeDigits, ZenonT(60)
<1>5. PICK q : q = Quad(s, g) /\ q = << x, y, z, u >>
  BY <1>2, <1>3, Zenon
<1>6. /\ Group(s, g, 3) = << a, b, c >> /\ Group(s, g, 2) = << a, b >> /\ Group(s, g, 1) = << a >>
  <2>1. /\ Group(s, g, 3) \in Seq(Octets) /\ Len(Group(s, g, 3)) = 3
        /\ Group(s, g, 2) \in Seq(Octets) /\ Len(Group(s, g, 2)) = 2
        /\ Group(s, g, 1) \in Seq(Octets) /\ Len(Group(s, g, 1)) = 1
    BY <1>1, GroupTyped
  <2>2. \A n \in {1, 2, 3} : Group(s, g, n)[1] = a
    BY <1>2 DEF Group
  <2>3. \A n \in {2, 3} : Group(s, g, n)[2] = b
    BY <1>2 DEF Group
  <2>4. Group(s, g, 3)[3] = c
    BY <1>2 DEF Group
  <2> QED
    BY <2>1, <2>2, <2>3, <2>4
<1>7. CASE g < G \/ l = 3
  <2>1. Quads(s, G, l)[g] = q
    BY <1>5, <1>7 DEF Quads, Ending
  <2>2. Triples(s, G, l)[g] = Group(s, g, 3)
    BY <1>7 DEF Triples
  <2> QED
    BY <1>4, <1>5, <1>6, <2>1, <2>2, Zenon
<1>8. CASE ~(g < G) /\ l = 2
  <2>1. Quads(s, G, l)[g] = << x, y, z, Pad >>
    <3>1. Quads(s, G, l)[g] = Ending(q, l)
      BY <1>5, <1>8 DEF Quads
    <3>2. q[1] = x /\ q[2] = y /\ q[3] = z
      BY <1>5
    <3> QED
      BY <1>8, <3>1, <3>2 DEF Ending
  <2>2. Triples(s, G, l)[g] = Group(s, g, 2)
    BY <1>8 DEF Triples
  <2> QED
    BY <1>4, <1>6, <2>1, <2>2, Zenon
<1>9. CASE ~(g < G) /\ l = 1
  <2>1. Quads(s, G, l)[g] = << x, y, Pad, Pad >>
    <3>1. Quads(s, G, l)[g] = Ending(q, l)
      BY <1>5, <1>9 DEF Quads
    <3>2. q[1] = x /\ q[2] = y /\ q[3] = z
      BY <1>5
    <3> QED
      BY <1>9, <3>1, <3>2 DEF Ending
  <2>2. Triples(s, G, l)[g] = Group(s, g, 1)
    BY <1>9 DEF Triples
  <2> QED
    BY <1>4, <1>6, <2>1, <2>2, Zenon
<1> QED
  BY <1>7, <1>8, <1>9

LEMMA RowOfTriples ==
  ASSUME NEW s \in Seq(Octets), NEW G \in Nat \ {0}, NEW l \in {1, 2, 3}
  PROVE Row(Triples(s, G, l), 3, G) = [i \in 1 .. 3 * (G - 1) + l |-> At(s, i)]
<1>1. PICK p : p = Triples(s, G, l)
  OBVIOUS
<1>2. G \in 1 .. G /\ Len(p[G]) = l
  <2>1. G \in 1 .. G /\ ~(G < G)
    OBVIOUS
  <2>2. \A g \in 1 .. G : Len(p[g]) = IF g < G THEN 3 ELSE l
    BY <1>1, TriplesAreParts
  <2> QED
    BY <2>1, <2>2
<1>3. PICK n \in Nat : n = 3 * (G - 1) + l
  OBVIOUS
<1> DEFINE F(i) == p[(i - 1) \div 3 + 1][((i - 1) % 3) + 1]
<1>4. Row(p, 3, G) = [i \in 1 .. n |-> F(i)]
  BY <1>2, <1>3 DEF Row
<1>5. ASSUME NEW i \in 1 .. n PROVE F(i) = At(s, i)
  <2>1. PICK h \in Nat, k \in Nat : /\ h = (i - 1) \div 3 /\ k = (i - 1) % 3 /\ k <= 2 /\ i = 3 * h + k + 1
    OBVIOUS
  <2>2. PICK g \in 1 .. G : g = h + 1 /\ (~(g < G) => k + 1 <= l)
    BY <1>3, <2>1
  <2>3. PICK m \in Nat : m = (IF g < G THEN 3 ELSE l) /\ k + 1 \in 1 .. m
    BY <2>1, <2>2
  <2>4. p[g] = Group(s, g, m)
    BY <1>1, <2>3 DEF Triples
  <2>5. Group(s, g, m)[k + 1] = At(s, 3 * (g - 1) + (k + 1))
    BY <2>3 DEF Group
  <2>6. 3 * (g - 1) + (k + 1) = i
    BY <2>1, <2>2
  <2> QED
    BY <2>1, <2>2, <2>4, <2>5, <2>6
<1> HIDE DEF F
<1>6. Row(p, 3, G) = [i \in 1 .. n |-> At(s, i)]
  BY <1>4, <1>5
<1> QED
  BY <1>1, <1>3, <1>6

LEMMA ReadBack ==
  ASSUME NEW s \in Seq(Octets), NEW G \in Nat \ {0}, NEW l \in {1, 2, 3}
  PROVE base64decode(Row(Quads(s, G, l), 4, G)) = [i \in 1 .. 3 * (G - 1) + l |-> At(s, i)]
<1>1. PICK p, w : p = Quads(s, G, l) /\ w = 4
  OBVIOUS
<1>2. Parts(p, w, G, Letters) /\ \A g \in 1 .. G : Len(p[g]) = 4
  BY <1>1, QuadsAreParts
<1>3. base64decode(Row(p, w, G)) = FlattenSeq([g \in 1 .. G |-> DecodeFour(p[g])])
  <2>1. Fours(p, w, G, Letters)
    BY <1>1, <1>2 DEF Fours
  <2> QED
    BY <2>1, DecodeRow DEF DecodedRow
<1>4. [g \in 1 .. G |-> DecodeFour(p[g])] = Triples(s, G, l)
  <2>1. Triples(s, G, l) = [g \in 1 .. G |-> Triples(s, G, l)[g]]
    BY DEF Triples
  <2>2. \A g \in 1 .. G : DecodeFour(p[g]) = Triples(s, G, l)[g]
    BY <1>1, DecodedQuad
  <2>3. [g \in 1 .. G |-> DecodeFour(p[g])] = [g \in 1 .. G |-> Triples(s, G, l)[g]]
    BY <2>2
  <2> QED
    BY <2>1, <2>3, Zenon
<1>5. FlattenSeq(Triples(s, G, l)) = Row(Triples(s, G, l), 3, G)
  <2>1. PICK t, v : t = Triples(s, G, l) /\ v = 3
    OBVIOUS
  <2>2. Parts(t, v, G, Octets)
    BY <2>1, TriplesAreParts
  <2>3. FlattenSeq(t) = Row(t, v, G)
    <3>1. FlatRow(t, v, G)
      BY <2>2, FlattenIsRow
    <3> QED
      BY <3>1 DEF FlatRow
  <2> QED
    BY <2>1, <2>3, Zenon
<1> QED
  BY <1>1, <1>3, <1>4, <1>5, RowOfTriples, Zenon

(* The bits of a byte, the highest first, and what they make.               *)
Bits(a, t) == (a \div 2^(7 - t)) % 2

LEMMA BitsAre ==
  ASSUME NEW a \in Octets
  PROVE /\ Bits(a, 0) = (a \div 128) % 2 /\ Bits(a, 1) = (a \div 64) % 2
        /\ Bits(a, 2) = (a \div 32) % 2 /\ Bits(a, 3) = (a \div 16) % 2
        /\ Bits(a, 4) = (a \div 8) % 2 /\ Bits(a, 5) = (a \div 4) % 2
        /\ Bits(a, 6) = (a \div 2) % 2 /\ Bits(a, 7) = a % 2
<1>1. 2^7 = 128 /\ 2^6 = 64 /\ 2^5 = 32 /\ 2^4 = 16 /\ 2^3 = 8 /\ 2^2 = 4 /\ 2^1 = 2 /\ 2^0 = 1
  BY SMT
<1>2. Bits(a, 0) = (a \div 128) % 2 /\ Bits(a, 1) = (a \div 64) % 2
  BY <1>1 DEF Bits
<1>3. Bits(a, 2) = (a \div 32) % 2 /\ Bits(a, 3) = (a \div 16) % 2
  BY <1>1 DEF Bits
<1>4. Bits(a, 4) = (a \div 8) % 2 /\ Bits(a, 5) = (a \div 4) % 2
  BY <1>1 DEF Bits
<1>5. Bits(a, 6) = (a \div 2) % 2 /\ Bits(a, 7) = a % 2
  BY <1>1 DEF Bits, Octets
<1> QED
  BY <1>2, <1>3, <1>4, <1>5

LEMMA ByteOfBits ==
  ASSUME NEW a \in Octets
  PROVE /\ \A t \in 0 .. 7 : Bits(a, t) \in 0 .. 1
        /\ 32 * Bits(a, 0) + 16 * Bits(a, 1) + 8 * Bits(a, 2) + 4 * Bits(a, 3) + 2 * Bits(a, 4) + Bits(a, 5) = a \div 4
        /\ 2 * Bits(a, 6) + Bits(a, 7) = a % 4
        /\ 8 * Bits(a, 0) + 4 * Bits(a, 1) + 2 * Bits(a, 2) + Bits(a, 3) = a \div 16
        /\ 8 * Bits(a, 4) + 4 * Bits(a, 5) + 2 * Bits(a, 6) + Bits(a, 7) = a % 16
        /\ 2 * Bits(a, 0) + Bits(a, 1) = a \div 64
        /\ 32 * Bits(a, 2) + 16 * Bits(a, 3) + 8 * Bits(a, 4) + 4 * Bits(a, 5) + 2 * Bits(a, 6) + Bits(a, 7) = a % 64
<1>1. /\ a = 128 * Bits(a, 0) + 64 * Bits(a, 1) + 32 * Bits(a, 2) + 16 * Bits(a, 3)
              + 8 * Bits(a, 4) + 4 * Bits(a, 5) + 2 * Bits(a, 6) + Bits(a, 7)
      /\ Bits(a, 0) \in 0 .. 1 /\ Bits(a, 1) \in 0 .. 1 /\ Bits(a, 2) \in 0 .. 1 /\ Bits(a, 3) \in 0 .. 1
      /\ Bits(a, 4) \in 0 .. 1 /\ Bits(a, 5) \in 0 .. 1 /\ Bits(a, 6) \in 0 .. 1 /\ Bits(a, 7) \in 0 .. 1
  <2>1. a \in 0 .. 255
    BY DEF Octets
  <2>2. PICK c1 \in 0 .. 127, d0 \in 0 .. 1 : c1 = a \div 2 /\ d0 = a % 2 /\ a = 2 * c1 + d0
    BY <2>1
  <2>3. PICK c2 \in 0 .. 63, d1 \in 0 .. 1 : c2 = c1 \div 2 /\ d1 = c1 % 2 /\ c1 = 2 * c2 + d1
    OBVIOUS
  <2>4. PICK c3 \in 0 .. 31, d2 \in 0 .. 1 : c3 = c2 \div 2 /\ d2 = c2 % 2 /\ c2 = 2 * c3 + d2
    OBVIOUS
  <2>5. PICK c4 \in 0 .. 15, d3 \in 0 .. 1 : c4 = c3 \div 2 /\ d3 = c3 % 2 /\ c3 = 2 * c4 + d3
    OBVIOUS
  <2>6. PICK c5 \in 0 .. 7, d4 \in 0 .. 1 : c5 = c4 \div 2 /\ d4 = c4 % 2 /\ c4 = 2 * c5 + d4
    OBVIOUS
  <2>7. PICK c6 \in 0 .. 3, d5 \in 0 .. 1 : c6 = c5 \div 2 /\ d5 = c5 % 2 /\ c5 = 2 * c6 + d5
    OBVIOUS
  <2>8. PICK c7 \in 0 .. 1, d6 \in 0 .. 1 : c7 = c6 \div 2 /\ d6 = c6 % 2 /\ c6 = 2 * c7 + d6
    OBVIOUS
  <2>9. a = 4 * c2 + 2 * d1 + d0 /\ a = 8 * c3 + 4 * d2 + 2 * d1 + d0
    BY <2>2, <2>3, <2>4
  <2>10. a = 16 * c4 + 8 * d3 + 4 * d2 + 2 * d1 + d0 /\ a = 32 * c5 + 16 * d4 + 8 * d3 + 4 * d2 + 2 * d1 + d0
    BY <2>9, <2>5, <2>6
  <2>11. a = 64 * c6 + 32 * d5 + 16 * d4 + 8 * d3 + 4 * d2 + 2 * d1 + d0
    BY <2>10, <2>7
  <2>12. a = 128 * c7 + 64 * d6 + 32 * d5 + 16 * d4 + 8 * d3 + 4 * d2 + 2 * d1 + d0
    BY <2>11, <2>8
  <2>13. /\ Bits(a, 0) = c7 /\ Bits(a, 1) = d6 /\ Bits(a, 2) = d5 /\ Bits(a, 3) = d4
        /\ Bits(a, 4) = d3 /\ Bits(a, 5) = d2 /\ Bits(a, 6) = d1 /\ Bits(a, 7) = d0
    <3>1. c2 = a \div 4 /\ c3 = a \div 8 /\ c4 = a \div 16
      BY <2>9, <2>10
    <3>2. c5 = a \div 32 /\ c6 = a \div 64 /\ c7 = a \div 128 /\ c7 % 2 = c7
      BY <2>10, <2>11, <2>12
    <3>3. /\ Bits(a, 0) = c7 % 2 /\ Bits(a, 1) = c6 % 2 /\ Bits(a, 2) = c5 % 2 /\ Bits(a, 3) = c4 % 2
          /\ Bits(a, 4) = c3 % 2 /\ Bits(a, 5) = c2 % 2 /\ Bits(a, 6) = c1 % 2 /\ Bits(a, 7) = a % 2
      BY <2>2, <3>1, <3>2, BitsAre, ZenonT(60)
    <3> QED
      BY <2>2, <2>3, <2>4, <2>5, <2>6, <2>7, <2>8, <3>2, <3>3, Zenon
  <2> QED
    BY <2>13, <2>12, Zenon
<1>2. \A t \in 0 .. 7 : Bits(a, t) \in 0 .. 1
  <2>1. \A t \in 0 .. 7 : t = 0 \/ t = 1 \/ t = 2 \/ t = 3 \/ t = 4 \/ t = 5 \/ t = 6 \/ t = 7
    OBVIOUS
  <2> QED
    BY <1>1, <2>1, Zenon
<1>3. PICK b0 \in 0 .. 1, b1 \in 0 .. 1, b2 \in 0 .. 1, b3 \in 0 .. 1 :
        b0 = Bits(a, 0) /\ b1 = Bits(a, 1) /\ b2 = Bits(a, 2) /\ b3 = Bits(a, 3)
  BY <1>1
<1>4. PICK b4 \in 0 .. 1, b5 \in 0 .. 1, b6 \in 0 .. 1, b7 \in 0 .. 1 :
        b4 = Bits(a, 4) /\ b5 = Bits(a, 5) /\ b6 = Bits(a, 6) /\ b7 = Bits(a, 7)
  BY <1>1
<1>5. a = 128 * b0 + 64 * b1 + 32 * b2 + 16 * b3 + 8 * b4 + 4 * b5 + 2 * b6 + b7
  BY <1>1, <1>3, <1>4, Zenon
<1>6. /\ 32 * b0 + 16 * b1 + 8 * b2 + 4 * b3 + 2 * b4 + b5 = a \div 4 /\ 2 * b6 + b7 = a % 4
  BY <1>5
<1>7. /\ 8 * b0 + 4 * b1 + 2 * b2 + b3 = a \div 16 /\ 8 * b4 + 4 * b5 + 2 * b6 + b7 = a % 16
  BY <1>5
<1>8. /\ 2 * b0 + b1 = a \div 64 /\ 32 * b2 + 16 * b3 + 8 * b4 + 4 * b5 + 2 * b6 + b7 = a % 64
  BY <1>5
<1> QED
  BY <1>2, <1>3, <1>4, <1>6, <1>7, <1>8, Zenon

LEMMA BitsTyped ==
  ASSUME NEW a \in Octets
  PROVE \E A \in [0 .. 7 -> 0 .. 1] : \A t \in 0 .. 7 : A[t] = Bits(a, t)
<1>1. [t \in 0 .. 7 |-> Bits(a, t)] \in [0 .. 7 -> 0 .. 1]
  BY ByteOfBits
<1> QED
  BY <1>1

BitIn(s, h, q, t, k) == Bit(s, k) = Bits(At(s, 3 * h + (q + 1)), t)
LEMMA BitIs ==
  ASSUME NEW s, NEW h \in Nat, NEW q \in 0 .. 2, NEW t \in 0 .. 7, NEW k, k = 24 * h + 8 * q + t
  PROVE BitIn(s, h, q, t, k)
<1>1. k \div 8 + 1 = 3 * h + (q + 1) /\ k % 8 = t
  OBVIOUS
<1> QED
  BY <1>1 DEF Bit, Bits, BitIn

Six(s, n) == 32 * Bit(s, n) + 16 * Bit(s, n + 1) + 8 * Bit(s, n + 2)
             + 4 * Bit(s, n + 3) + 2 * Bit(s, n + 4) + Bit(s, n + 5)
SixAt(s, j, n) == n \in Nat /\ n = 6 * (j - 1) /\ \A k \in 0 .. 5 : Bit(s, n + k) \in 0 .. 1
LEMMA SixBits ==
  ASSUME NEW s, NEW j, NEW n, SixAt(s, j, n)
  PROVE DigitAt(s, 6, j) = Six(s, n)
<1> n \in Nat /\ n = 6 * (j - 1) /\ \A k \in 0 .. 5 : Bit(s, n + k) \in 0 .. 1
  BY DEF SixAt
<1>1. PICK B \in [0 .. 5 -> 0 .. 1] : \A k \in 0 .. 5 : B[k] = Bit(s, n + k)
  <2>1. [k \in 0 .. 5 |-> Bit(s, n + k)] \in [0 .. 5 -> 0 .. 1]
    OBVIOUS
  <2> QED
    BY <2>1
<1> DEFINE Body(f) == [k \in 0 .. 6 |-> IF k = 0 THEN 0 ELSE 2 * f[k - 1] + Bit(s, 6 * (j - 1) + k - 1)]
           Read(f) == [k \in 0 .. 6 |-> IF k = 0 THEN 0 ELSE 2 * f[k - 1] + B[k - 1]]
<1>2. \A f : Body(f) = Read(f)
  <2> SUFFICES ASSUME NEW f PROVE Body(f) = Read(f)
    OBVIOUS
  <2>1. ASSUME NEW k \in 0 .. 6, k # 0 PROVE Bit(s, 6 * (j - 1) + k - 1) = B[k - 1]
    <3>1. k - 1 \in 0 .. 5 /\ 6 * (j - 1) + k - 1 = n + (k - 1)
      BY <2>1
    <3> QED
      BY <1>1, <3>1
  <2> QED
    BY <2>1
<1> DEFINE v1 == B[0]
           v2 == 2 * v1 + B[1]
           v3 == 2 * v2 + B[2]
           v4 == 2 * v3 + B[3]
           v5 == 2 * v4 + B[4]
           v6 == 2 * v5 + B[5]
<1>3. \E f : f = Body(f)
  <2> DEFINE f == [k \in 0 .. 6 |-> IF k = 0 THEN 0 ELSE IF k = 1 THEN v1 ELSE IF k = 2 THEN v2
                                   ELSE IF k = 3 THEN v3 ELSE IF k = 4 THEN v4 ELSE IF k = 5 THEN v5 ELSE v6]
  <2>1. f = Read(f)
    <3>1. \A k \in 0 .. 6 : k = 0 \/ k = 1 \/ k = 2 \/ k = 3 \/ k = 4 \/ k = 5 \/ k = 6
      OBVIOUS
    <3>2. \A k \in 0 .. 6 : f[k] = IF k = 0 THEN 0 ELSE 2 * f[k - 1] + B[k - 1]
      BY <3>1
    <3>3. f = [k \in 0 .. 6 |-> f[k]]
      OBVIOUS
    <3> HIDE DEF f
    <3> QED
      BY <3>2, <3>3
  <2> HIDE DEF f, Body, Read
  <2> QED
    BY <1>2, <2>1
<1>4. PICK f : f = Body(f) /\ DigitAt(s, 6, j) = f[6]
  BY <1>3 DEF DigitAt
<1>5. f = Read(f)
  <2> HIDE DEF Body, Read
  <2> QED
    BY <1>2, <1>4
<1>6. \A k \in 1 .. 6 : f[k] = 2 * f[k - 1] + B[k - 1]
  BY <1>5
<1>7. f[0] = 0
  BY <1>5
<1>8. f[1] = v1 /\ f[2] = v2 /\ f[3] = v3
  BY <1>6, <1>7
<1>9. f[4] = v4 /\ f[5] = v5 /\ f[6] = v6
  BY <1>6, <1>8
<1>10. v6 = 32 * B[0] + 16 * B[1] + 8 * B[2] + 4 * B[3] + 2 * B[4] + B[5]
  OBVIOUS
<1>11. /\ B[0] = Bit(s, n) /\ B[1] = Bit(s, n + 1) /\ B[2] = Bit(s, n + 2)
       /\ B[3] = Bit(s, n + 3) /\ B[4] = Bit(s, n + 4) /\ B[5] = Bit(s, n + 5)
  BY <1>1
<1> QED
  BY <1>4, <1>9, <1>10, <1>11 DEF Six

SplitAt(x, y, z, u, v, w) ==
  /\ 32 * x + 16 * y + 8 * z + 4 * u + 2 * v + w = (2 * x + y) * 16 + (8 * z + 4 * u + 2 * v + w)
  /\ 32 * x + 16 * y + 8 * z + 4 * u + 2 * v + w = (8 * x + 4 * y + 2 * z + u) * 4 + (2 * v + w)
LEMMA Across ==
  ASSUME NEW x \in Int, NEW y \in Int, NEW z \in Int, NEW u \in Int, NEW v \in Int, NEW w \in Int
  PROVE SplitAt(x, y, z, u, v, w)
BY DEF SplitAt

(* Digit m of a group of three bytes.                                       *)
LEMMA DigitIs ==
  ASSUME NEW s \in Seq(Octets), NEW h \in Nat, NEW m \in 1 .. 4
  PROVE DigitAt(s, 6, 4 * h + m) = Quad(s, h + 1)[m]
<1>1. PICK a \in Octets, b \in Octets, c \in Octets :
        /\ a = At(s, 3 * h + 1) /\ b = At(s, 3 * h + 2) /\ c = At(s, 3 * h + 3)
        /\ Quad(s, h + 1) = << a \div 4, (a % 4) * 16 + b \div 16, (b % 16) * 4 + c \div 64, c % 64 >>
  <2>1. PICK g \in Nat \ {0} : g = h + 1 /\ g - 1 = h
    <3>1. h + 1 \in Nat \ {0} /\ h + 1 - 1 = h
      OBVIOUS
    <3> QED
      BY <3>1
  <2>2. \E a, b, c \in Octets :
          /\ a = At(s, 3 * (g - 1) + 1) /\ b = At(s, 3 * (g - 1) + 2) /\ c = At(s, 3 * (g - 1) + 3)
          /\ Quad(s, g) = << a \div 4, (a % 4) * 16 + b \div 16, (b % 16) * 4 + c \div 64, c % 64 >>
    BY QuadIs
  <2> QED
    BY <2>1, <2>2, ZenonT(60)
<1>2. PICK N \in Nat : N = 24 * h
  OBVIOUS
<1>3. /\ \A t \in 0 .. 7 : Bit(s, N + t) = Bits(a, t)
      /\ \A t \in 0 .. 7 : Bit(s, N + 8 + t) = Bits(b, t)
      /\ \A t \in 0 .. 7 : Bit(s, N + 16 + t) = Bits(c, t)
  <2>1. ASSUME NEW t \in 0 .. 7 PROVE Bit(s, N + t) = Bits(a, t)
    <3>1. PICK q \in 0 .. 2, k \in Nat : q = 0 /\ k = N + t /\ k = 24 * h + 8 * q + t /\ 3 * h + (q + 1) = 3 * h + 1
      BY <1>2
    <3>2. BitIn(s, h, q, t, k)
      BY <3>1, BitIs
    <3> QED
      BY <1>1, <3>1, <3>2, Zenon DEF BitIn
  <2>2. ASSUME NEW t \in 0 .. 7 PROVE Bit(s, N + 8 + t) = Bits(b, t)
    <3>1. PICK q \in 0 .. 2, k \in Nat : q = 1 /\ k = N + 8 + t /\ k = 24 * h + 8 * q + t /\ 3 * h + (q + 1) = 3 * h + 2
      BY <1>2
    <3>2. BitIn(s, h, q, t, k)
      BY <3>1, BitIs
    <3> QED
      BY <1>1, <3>1, <3>2, Zenon DEF BitIn
  <2>3. ASSUME NEW t \in 0 .. 7 PROVE Bit(s, N + 16 + t) = Bits(c, t)
    <3>1. PICK q \in 0 .. 2, k \in Nat : q = 2 /\ k = N + 16 + t /\ k = 24 * h + 8 * q + t /\ 3 * h + (q + 1) = 3 * h + 3
      BY <1>2
    <3>2. BitIn(s, h, q, t, k)
      BY <3>1, BitIs
    <3> QED
      BY <1>1, <3>1, <3>2, Zenon DEF BitIn
  <2> QED
    BY <2>1, <2>2, <2>3
<1>4. PICK A \in [0 .. 7 -> 0 .. 1] : \A t \in 0 .. 7 : A[t] = Bits(a, t)
  BY BitsTyped
<1>5. PICK B \in [0 .. 7 -> 0 .. 1] : \A t \in 0 .. 7 : B[t] = Bits(b, t)
  BY BitsTyped
<1>6. PICK C \in [0 .. 7 -> 0 .. 1] : \A t \in 0 .. 7 : C[t] = Bits(c, t)
  BY BitsTyped
<1>7. \A t \in 0 .. 7 : A[t] = Bits(a, t) /\ B[t] = Bits(b, t) /\ C[t] = Bits(c, t)
  BY <1>4, <1>5, <1>6, Zenon
<1>8. /\ \A t \in 0 .. 7 : Bit(s, N + t) = A[t]
      /\ \A t \in 0 .. 7 : Bit(s, N + 8 + t) = B[t]
      /\ \A t \in 0 .. 7 : Bit(s, N + 16 + t) = C[t]
  BY <1>3, <1>7, Zenon
<1>9. Six(s, N) = a \div 4
  <2>1. /\ Bit(s, N) = A[0] /\ Bit(s, N + 1) = A[1] /\ Bit(s, N + 2) = A[2]
        /\ Bit(s, N + 3) = A[3] /\ Bit(s, N + 4) = A[4] /\ Bit(s, N + 5) = A[5]
    BY <1>8
  <2>2. 32 * A[0] + 16 * A[1] + 8 * A[2] + 4 * A[3] + 2 * A[4] + A[5] = a \div 4
    BY <1>7, ByteOfBits
  <2> QED
    BY <2>1, <2>2 DEF Six
<1>10. Six(s, N + 6) = (a % 4) * 16 + b \div 16
  <2>1. /\ Bit(s, N + 6) = A[6] /\ Bit(s, N + 6 + 1) = A[7] /\ Bit(s, N + 6 + 2) = B[0]
        /\ Bit(s, N + 6 + 3) = B[1] /\ Bit(s, N + 6 + 4) = B[2] /\ Bit(s, N + 6 + 5) = B[3]
    BY <1>8
  <2>2. 2 * A[6] + A[7] = a % 4 /\ 8 * B[0] + 4 * B[1] + 2 * B[2] + B[3] = b \div 16
    BY <1>7, ByteOfBits
  <2>3. A[6] \in Int /\ A[7] \in Int /\ B[0] \in Int /\ B[1] \in Int /\ B[2] \in Int /\ B[3] \in Int
    OBVIOUS
  <2>4. 32 * A[6] + 16 * A[7] + 8 * B[0] + 4 * B[1] + 2 * B[2] + B[3] = (2 * A[6] + A[7]) * 16 + (8 * B[0] + 4 * B[1] + 2 * B[2] + B[3])
    <3>1. SplitAt(A[6], A[7], B[0], B[1], B[2], B[3])
      BY <2>3, Across, Zenon
    <3> QED
      BY <3>1, Zenon DEF SplitAt
  <2>5. PICK e, f : e = 2 * A[6] + A[7] /\ f = 8 * B[0] + 4 * B[1] + 2 * B[2] + B[3]
    OBVIOUS
  <2>6. 32 * A[6] + 16 * A[7] + 8 * B[0] + 4 * B[1] + 2 * B[2] + B[3] = e * 16 + f
    BY <2>4, <2>5, Zenon
  <2>7. e = a % 4 /\ f = b \div 16
    BY <2>2, <2>5, Zenon
  <2>8. Six(s, N + 6) = e * 16 + f
    BY <2>1, <2>6, Zenon DEF Six
  <2> QED
    BY <2>7, <2>8, Zenon
<1>11. Six(s, N + 12) = (b % 16) * 4 + c \div 64
  <2>1. /\ Bit(s, N + 12) = B[4] /\ Bit(s, N + 12 + 1) = B[5] /\ Bit(s, N + 12 + 2) = B[6]
        /\ Bit(s, N + 12 + 3) = B[7] /\ Bit(s, N + 12 + 4) = C[0] /\ Bit(s, N + 12 + 5) = C[1]
    BY <1>8
  <2>2. 8 * B[4] + 4 * B[5] + 2 * B[6] + B[7] = b % 16 /\ 2 * C[0] + C[1] = c \div 64
    BY <1>7, ByteOfBits
  <2>3. B[4] \in Int /\ B[5] \in Int /\ B[6] \in Int /\ B[7] \in Int /\ C[0] \in Int /\ C[1] \in Int
    OBVIOUS
  <2>4. 32 * B[4] + 16 * B[5] + 8 * B[6] + 4 * B[7] + 2 * C[0] + C[1] = (8 * B[4] + 4 * B[5] + 2 * B[6] + B[7]) * 4 + (2 * C[0] + C[1])
    <3>1. SplitAt(B[4], B[5], B[6], B[7], C[0], C[1])
      BY <2>3, Across, Zenon
    <3> QED
      BY <3>1, Zenon DEF SplitAt
  <2>5. PICK e, f : e = 8 * B[4] + 4 * B[5] + 2 * B[6] + B[7] /\ f = 2 * C[0] + C[1]
    OBVIOUS
  <2>6. 32 * B[4] + 16 * B[5] + 8 * B[6] + 4 * B[7] + 2 * C[0] + C[1] = e * 4 + f
    BY <2>4, <2>5, Zenon
  <2>7. e = b % 16 /\ f = c \div 64
    BY <2>2, <2>5, Zenon
  <2>8. Six(s, N + 12) = e * 4 + f
    BY <2>1, <2>6, Zenon DEF Six
  <2> QED
    BY <2>7, <2>8, Zenon
<1>12. Six(s, N + 18) = c % 64
  <2>1. /\ Bit(s, N + 18) = C[2] /\ Bit(s, N + 18 + 1) = C[3] /\ Bit(s, N + 18 + 2) = C[4]
        /\ Bit(s, N + 18 + 3) = C[5] /\ Bit(s, N + 18 + 4) = C[6] /\ Bit(s, N + 18 + 5) = C[7]
    BY <1>8
  <2>2. 32 * C[2] + 16 * C[3] + 8 * C[4] + 4 * C[5] + 2 * C[6] + C[7] = c % 64
    BY <1>7, ByteOfBits
  <2> QED
    BY <2>1, <2>2 DEF Six
<1>13. ASSUME NEW k \in 0 .. 18, NEW i \in 0 .. 5 PROVE Bit(s, N + k + i) \in 0 .. 1
  <2>1. CASE k + i <= 7
    <3>1. PICK t \in 0 .. 7 : t = k + i /\ N + t = N + k + i
      BY <2>1
    <3> QED
      BY <1>8, <3>1, ZenonT(60)
  <2>2. CASE k + i > 7 /\ k + i <= 15
    <3>1. PICK t \in 0 .. 7 : t = k + i - 8 /\ N + 8 + t = N + k + i
      BY <2>2
    <3> QED
      BY <1>8, <3>1, ZenonT(60)
  <2>3. CASE k + i > 15
    <3>1. PICK t \in 0 .. 7 : t = k + i - 16 /\ N + 16 + t = N + k + i
      BY <2>3
    <3> QED
      BY <1>8, <3>1, ZenonT(60)
  <2> QED
    BY <2>1, <2>2, <2>3
<1>14. ASSUME NEW k \in 0 .. 18, NEW j, 6 * (j - 1) = N + k PROVE DigitAt(s, 6, j) = Six(s, N + k)
  <2>1. SixAt(s, j, N + k)
    <3>1. N + k \in Nat
      OBVIOUS
    <3>2. \A i \in 0 .. 5 : Bit(s, N + k + i) \in 0 .. 1
      BY <1>13
    <3> QED
      BY <1>14, <3>1, <3>2, Zenon DEF SixAt
  <2> QED
    BY <2>1, SixBits, Zenon
<1>15. /\ DigitAt(s, 6, 4 * h + 1) = Six(s, N) /\ DigitAt(s, 6, 4 * h + 2) = Six(s, N + 6)
       /\ DigitAt(s, 6, 4 * h + 3) = Six(s, N + 12) /\ DigitAt(s, 6, 4 * h + 4) = Six(s, N + 18)
  <2>1. /\ 6 * (4 * h + 1 - 1) = N + 0 /\ 6 * (4 * h + 2 - 1) = N + 6
        /\ 6 * (4 * h + 3 - 1) = N + 12 /\ 6 * (4 * h + 4 - 1) = N + 18 /\ N + 0 = N
    BY <1>2
  <2>2. DigitAt(s, 6, 4 * h + 1) = Six(s, N + 0)
    <3>1. PICK j, k : j = 4 * h + 1 /\ k = 0 /\ k \in 0 .. 18 /\ 6 * (j - 1) = N + k
      BY <2>1
    <3>2. DigitAt(s, 6, j) = Six(s, N + k)
      BY <1>14, <3>1, Zenon
    <3> QED
      BY <3>1, <3>2, Zenon
  <2>3. DigitAt(s, 6, 4 * h + 2) = Six(s, N + 6)
    <3>1. PICK j, k : j = 4 * h + 2 /\ k = 6 /\ k \in 0 .. 18 /\ 6 * (j - 1) = N + k
      BY <2>1
    <3>2. DigitAt(s, 6, j) = Six(s, N + k)
      BY <1>14, <3>1, Zenon
    <3> QED
      BY <3>1, <3>2, Zenon
  <2>4. DigitAt(s, 6, 4 * h + 3) = Six(s, N + 12)
    <3>1. PICK j, k : j = 4 * h + 3 /\ k = 12 /\ k \in 0 .. 18 /\ 6 * (j - 1) = N + k
      BY <2>1
    <3>2. DigitAt(s, 6, j) = Six(s, N + k)
      BY <1>14, <3>1, Zenon
    <3> QED
      BY <3>1, <3>2, Zenon
  <2>5. DigitAt(s, 6, 4 * h + 4) = Six(s, N + 18)
    <3>1. PICK j, k : j = 4 * h + 4 /\ k = 18 /\ k \in 0 .. 18 /\ 6 * (j - 1) = N + k
      BY <2>1
    <3>2. DigitAt(s, 6, j) = Six(s, N + k)
      BY <1>14, <3>1, Zenon
    <3> QED
      BY <3>1, <3>2, Zenon
  <2> QED
    BY <2>1, <2>2, <2>3, <2>4, <2>5, Zenon
<1>16. PICK q : /\ q = Quad(s, h + 1) /\ q[1] = a \div 4 /\ q[2] = (a % 4) * 16 + b \div 16
                /\ q[3] = (b % 16) * 4 + c \div 64 /\ q[4] = c % 64
  BY <1>1
<1>17. /\ DigitAt(s, 6, 4 * h + 1) = q[1] /\ DigitAt(s, 6, 4 * h + 2) = q[2]
       /\ DigitAt(s, 6, 4 * h + 3) = q[3] /\ DigitAt(s, 6, 4 * h + 4) = q[4]
  BY <1>9, <1>10, <1>11, <1>12, <1>15, <1>16, Zenon
<1>18. m = 1 \/ m = 2 \/ m = 3 \/ m = 4
  OBVIOUS
<1> QED
  BY <1>16, <1>17, <1>18, Zenon

JoinIs(r, q) == r \o q = [i \in 1 .. Len(r) + Len(q) |-> IF i <= Len(r) THEN r[i] ELSE q[i - Len(r)]]
LEMMA JoinedSeqs ==
  ASSUME NEW S, NEW r \in Seq(S), NEW q \in Seq(S)
  PROVE JoinIs(r, q)
BY Joined, Zenon DEF JoinIs

LEMMA EndingIs ==
  ASSUME NEW q, NEW l \in {1, 2, 3}, NEW m \in 1 .. 4
  PROVE Ending(q, l)[m] = IF m <= l + 1 THEN q[m] ELSE Pad
<1>1. CASE l = 1
  <2>1. PICK e : e = Ending(q, l) /\ e = << q[1], q[2], Pad, Pad >>
    <3>1. l # 3 /\ l # 2
      BY <1>1
    <3> QED
      BY <3>1, Zenon DEF Ending
  <2>2. e[1] = q[1] /\ e[2] = q[2] /\ e[3] = Pad /\ e[4] = Pad
    BY <2>1
  <2>3. CASE m <= 1 + 1
    <3>1. m = 1 \/ m = 2
      BY <2>3
    <3>2. e[m] = q[m]
      BY <2>2, <3>1, Zenon
    <3> QED
      BY <1>1, <2>1, <2>3, <3>2, Zenon
  <2>4. CASE ~(m <= 1 + 1)
    <3>1. m = 3 \/ m = 4
      BY <2>4
    <3>2. e[m] = Pad
      BY <2>2, <3>1, Zenon
    <3> QED
      BY <1>1, <2>1, <2>4, <3>2, Zenon
  <2> QED
    BY <2>3, <2>4
<1>2. CASE l = 2
  <2>1. PICK e : e = Ending(q, l) /\ e = << q[1], q[2], q[3], Pad >>
    <3>1. l # 3
      BY <1>2
    <3> QED
      BY <1>2, <3>1, Zenon DEF Ending
  <2>2. e[1] = q[1] /\ e[2] = q[2] /\ e[3] = q[3] /\ e[4] = Pad
    BY <2>1
  <2>3. CASE m <= 2 + 1
    <3>1. m = 1 \/ m = 2 \/ m = 3
      BY <2>3
    <3>2. e[m] = q[m]
      BY <2>2, <3>1, Zenon
    <3> QED
      BY <1>2, <2>1, <2>3, <3>2, Zenon
  <2>4. CASE ~(m <= 2 + 1)
    <3>1. m = 4
      BY <2>4
    <3>2. e[m] = Pad
      BY <2>2, <3>1, Zenon
    <3> QED
      BY <1>2, <2>1, <2>4, <3>2, Zenon
  <2> QED
    BY <2>3, <2>4
<1>3. CASE l = 3
  BY <1>3 DEF Ending
<1> QED
  BY <1>1, <1>2, <1>3

(* The lengths of a text of H groups of three bytes and l more.             *)
LEMMA TextLengths ==
  ASSUME NEW H \in Nat, NEW l \in {1, 2, 3}, NEW N, N = 3 * H + l
  PROVE /\ (8 * N + 6 - 1) \div 6 = 4 * H + l + 1
        /\ (4 - ((4 * H + l + 1) % 4)) % 4 = 3 - l
<1>1. CASE l = 1
  <2>1. (8 * (3 * H + 1) + 6 - 1) \div 6 = 4 * H + 2 /\ (4 * H + 2) % 4 = 2
    OBVIOUS
  <2> QED
    BY <1>1, <2>1
<1>2. CASE l = 2
  <2>1. (8 * (3 * H + 2) + 6 - 1) \div 6 = 4 * H + 3 /\ (4 * H + 3) % 4 = 3
    OBVIOUS
  <2> QED
    BY <1>2, <2>1
<1>3. CASE l = 3
  <2>1. (8 * (3 * H + 3) + 6 - 1) \div 6 = 4 * H + 4 /\ (4 * H + 4) % 4 = 0
    OBVIOUS
  <2> QED
    BY <1>3, <2>1
<1> QED
  BY <1>1, <1>2, <1>3

LEMMA Base64Is ==
  ASSUME NEW s \in Seq(Octets), NEW H \in Nat, NEW l \in {1, 2, 3}, Len(s) = 3 * H + l
  PROVE Base64(s) = Row(Quads(s, H + 1, l), 4, H + 1)
<1>1. PICK D \in Nat : D = 4 * H + l + 1
  OBVIOUS
<1>2. PICK P \in Nat : P = 3 - l /\ D + P = 4 * H + 4
  BY <1>1
<1>3. PICK S : S = {DigitAt(s, 6, j) : j \in 1 .. D} \cup {Pad}
  OBVIOUS
<1>4. PICK d : d = Regrouped(s, 6) /\ d = [j \in 1 .. D |-> DigitAt(s, 6, j)]
  <2>1. (8 * Len(s) + 6 - 1) \div 6 = D
    BY <1>1, TextLengths
  <2> QED
    BY <2>1 DEF Regrouped
<1>5. d \in Seq(S) /\ Len(d) = D /\ \A j \in 1 .. D : d[j] = DigitAt(s, 6, j)
  BY <1>3, <1>4
<1>6. PICK e \in Seq(S) : e = [i \in 1 .. P |-> Pad] /\ Len(e) = P /\ \A i \in 1 .. P : e[i] = Pad
  <2>1. [i \in 1 .. P |-> Pad] \in Seq(S) /\ Len([i \in 1 .. P |-> Pad]) = P
    BY <1>3
  <2> QED
    BY <2>1
<1>7. Base64(s) = d \o e
  <2>1. (4 - ((4 * H + l + 1) % 4)) % 4 = 3 - l
    BY TextLengths
  <2>2. (4 - (Len(d) % 4)) % 4 = P
    BY <1>1, <1>2, <1>5, <2>1, Zenon
  <2>3. e = [i \in 1 .. (4 - (Len(d) % 4)) % 4 |-> Pad]
    BY <1>6, <2>2, Zenon
  <2>4. Base64(s) = Regrouped(s, 6) \o [i \in 1 .. (4 - (Len(Regrouped(s, 6)) % 4)) % 4 |-> Pad]
    BY Zenon DEF Base64
  <2>5. Regrouped(s, 6) \o [i \in 1 .. (4 - (Len(Regrouped(s, 6)) % 4)) % 4 |-> Pad] = d \o e
    BY <1>4, <2>3, Zenon
  <2> QED
    BY <2>4, <2>5, Zenon
<1>8. d \o e = [i \in 1 .. D + P |-> IF i <= D THEN d[i] ELSE e[i - D]]
  <2>1. d \o e = [i \in 1 .. Len(d) + Len(e) |-> IF i <= Len(d) THEN d[i] ELSE e[i - Len(d)]]
    <3>1. JoinIs(d, e)
      BY <1>5, <1>6, JoinedSeqs
    <3> QED
      BY <3>1, Zenon DEF JoinIs
  <2> QED
    BY <1>5, <1>6, <2>1, ZenonT(60)
<1>9. PICK G \in Nat \ {0} : G = H + 1 /\ G - 1 = H
  OBVIOUS
<1>10. PICK p : G = H + 1 /\ G - 1 = H /\ p = Quads(s, G, l)
  BY <1>9
<1> DEFINE F(i) == p[(i - 1) \div 4 + 1][((i - 1) % 4) + 1]
<1>11. PICK n \in Nat : n = 4 * H + 4
  OBVIOUS
<1>12. Row(p, 4, G) = [i \in 1 .. n |-> F(i)]
  <2>1. G \in 1 .. G /\ \A g \in 1 .. G : Len(p[g]) = 4
    BY <1>10, QuadsAreParts
  <2>2. 4 * (G - 1) + Len(p[G]) = n
    BY <1>10, <1>11, <2>1
  <2> QED
    BY <2>2, Zenon DEF Row
<1>13. ASSUME NEW i \in 1 .. n PROVE F(i) = IF i <= D THEN d[i] ELSE e[i - D]
  <2>1. PICK h \in Nat, m \in 1 .. 4 : h = (i - 1) \div 4 /\ m = ((i - 1) % 4) + 1 /\ i = 4 * h + m
    <3>1. PICK k \in Nat : k = i - 1
      OBVIOUS
    <3>2. PICK h \in Nat, r \in 0 .. 3 : h = k \div 4 /\ r = k % 4 /\ k = 4 * h + r
      OBVIOUS
    <3>3. r + 1 \in 1 .. 4 /\ i = 4 * h + (r + 1)
      BY <3>1, <3>2
    <3> QED
      BY <3>1, <3>2, <3>3
  <2>2. PICK g \in 1 .. G : g = h + 1 /\ (g < G => h < H) /\ (~(g < G) => h = H)
    BY <1>10, <1>11, <2>1
  <2>3. PICK q : q = Quad(s, g)
    OBVIOUS
  <2>4. DigitAt(s, 6, i) = q[m]
    BY <2>1, <2>2, <2>3, DigitIs, ZenonT(60)
  <2>5. F(i) = p[g][m]
    BY <2>1, <2>2, Zenon
  <2>6. CASE g < G
    <3>1. p[g] = q
      BY <1>10, <2>3, <2>6 DEF Quads
    <3>2. i <= D
      BY <1>1, <2>1, <2>2, <2>6
    <3>3. d[i] = DigitAt(s, 6, i)
      BY <1>5, <3>2
    <3> QED
      BY <2>4, <2>5, <3>1, <3>2, <3>3, Zenon
  <2>7. CASE ~(g < G)
    <3>1. p[g] = Ending(q, l)
      BY <1>10, <2>3, <2>7 DEF Quads
    <3>2. p[g][m] = IF m <= l + 1 THEN q[m] ELSE Pad
      BY <3>1, EndingIs
    <3>3. i <= D <=> m <= l + 1
      BY <1>1, <2>1, <2>2, <2>7
    <3>4. CASE i <= D
      <4>1. d[i] = DigitAt(s, 6, i)
        BY <1>5, <3>4
      <4> QED
        BY <2>4, <2>5, <3>2, <3>3, <3>4, <4>1, Zenon
    <3>5. CASE ~(i <= D)
      <4>1. i - D \in 1 .. P
        BY <1>2, <1>11, <3>5
      <4>2. e[i - D] = Pad
        BY <1>6, <4>1
      <4> QED
        BY <2>5, <3>2, <3>3, <3>5, <4>2, Zenon
    <3> QED
      BY <3>4, <3>5
  <2> QED
    BY <2>6, <2>7
<1> HIDE DEF F
<1>14. Row(p, 4, G) = d \o e
  <2>1. [i \in 1 .. n |-> F(i)] = [i \in 1 .. n |-> IF i <= D THEN d[i] ELSE e[i - D]]
    BY <1>13
  <2>2. D + P = n
    BY <1>2, <1>11
  <2> QED
    BY <1>8, <1>12, <2>1, <2>2, Zenon
<1> QED
  BY <1>7, <1>10, <1>14, Zenon

(* The bytes that are read, as far as the string goes and beyond.           *)
LEMMA ReadAll ==
  ASSUME NEW s \in Seq(Octets)
  PROVE [i \in 1 .. Len(s) |-> At(s, i)] = s
<1>1. \A i \in 1 .. Len(s) : At(s, i) = s[i]
  BY DEF At
<1>2. s = [i \in 1 .. Len(s) |-> s[i]]
  OBVIOUS
<1>3. [i \in 1 .. Len(s) |-> At(s, i)] = [i \in 1 .. Len(s) |-> s[i]]
  BY <1>1
<1> QED
  BY <1>2, <1>3, Zenon

LEMMA ReadOneMore ==
  ASSUME NEW s \in Seq(Octets)
  PROVE [i \in 1 .. Len(s) + 1 |-> At(s, i)] = Append(s, 0)
<1>1. PICK n \in Nat : n = Len(s)
  OBVIOUS
<1>2. 0 \in Octets
  BY DEF Octets
<1>3. PICK a : a = Append(s, 0)
  OBVIOUS
<1>4. a \in Seq(Octets) /\ Len(a) = n + 1 /\ a[n + 1] = 0 /\ \A i \in 1 .. n : a[i] = s[i]
  <2>1. /\ Append(s, 0) \in Seq(Octets) /\ Len(Append(s, 0)) = Len(s) + 1
        /\ \A i \in 1 .. Len(s) : Append(s, 0)[i] = s[i]
        /\ Append(s, 0)[Len(s) + 1] = 0
    BY <1>2, AppendProperties
  <2> QED
    BY <1>1, <1>3, <2>1
<1>5. a = [i \in 1 .. n + 1 |-> a[i]]
  BY <1>4
<1>6. \A i \in 1 .. n + 1 : At(s, i) = a[i]
  <2> SUFFICES ASSUME NEW i \in 1 .. n + 1 PROVE At(s, i) = a[i]
    OBVIOUS
  <2>1. CASE i <= n
    BY <1>1, <1>4, <2>1 DEF At
  <2>2. CASE ~(i <= n)
    <3>1. i = n + 1
      BY <2>2
    <3> QED
      BY <1>1, <1>4, <2>2, <3>1 DEF At
  <2> QED
    BY <2>1, <2>2
<1>7. [i \in 1 .. n + 1 |-> At(s, i)] = [i \in 1 .. n + 1 |-> a[i]]
  BY <1>6
<1> QED
  BY <1>1, <1>3, <1>5, <1>7, Zenon

LEMMA ReadOneLess ==
  ASSUME NEW s \in Seq(Octets), s # << >>
  PROVE [i \in 1 .. Len(s) - 1 |-> At(s, i)] = SubSeq(s, 1, Len(s) - 1)
<1>1. PICK e \in Nat : e = Len(s) - 1 /\ e <= Len(s)
  <2>1. Len(s) \in Nat
    OBVIOUS
  <2>2. Len(s) # 0
    OBVIOUS
  <2>3. PICK N \in Nat : N = Len(s)
    BY <2>1
  <2>4. N # 0
    BY <2>2, <2>3
  <2>5. N - 1 \in Nat /\ N - 1 <= N
    BY <2>4
  <2> QED
    BY <2>3, <2>5
<1>2. PICK z \in Nat : z = 0 /\ z + 1 = 1
  OBVIOUS
<1>3. PICK o : o = SubSeq(s, z + 1, e)
  OBVIOUS
<1>4. CutIs(Octets, s, z, e, o)
  <2>1. CutOf(Octets, s, z, e, o)
    BY <1>1, <1>2, <1>3 DEF CutOf
  <2> QED
    BY <2>1, Cut
<1>5. o \in Seq(Octets) /\ Len(o) = e /\ \A i \in 1 .. e : o[i] = s[i]
  BY <1>2, <1>4 DEF CutIs
<1>6. o = [i \in 1 .. e |-> o[i]]
  BY <1>5
<1>7. \A i \in 1 .. e : At(s, i) = o[i]
  BY <1>1, <1>5 DEF At
<1>8. [i \in 1 .. e |-> At(s, i)] = [i \in 1 .. e |-> o[i]]
  BY <1>7
<1>9. o = SubSeq(s, 1, e)
  BY <1>2, <1>3
<1> QED
  BY <1>1, <1>6, <1>8, <1>9, Zenon

LEMMA OfNothing ==
  ASSUME NEW s, s = << >>
  PROVE base64encode(s) = << >> /\ base64decode(s) = << >> /\ Base64(s) = << >>
<1>1. Len(s) = 0
  OBVIOUS
<1>2. (0 + 3 - 1) \div 3 = 0 /\ (0 + 4 - 1) \div 4 = 0 /\ (8 * 0 + 6 - 1) \div 6 = 0 /\ 0 % 4 = 0
      /\ (4 - 0) % 4 = 0 /\ 1 .. 0 = {}
  OBVIOUS
<1>3. \A f : DOMAIN f = {} /\ f = [i \in {} |-> f[i]] => f = << >>
  OBVIOUS
<1>4. FlattenSeq(<< >>) = << >>
  BY DEF FlattenSeq
<1>5. DOMAIN Groups(s, 3) = {} /\ DOMAIN Groups(s, 4) = {}
  BY <1>1, <1>2 DEF Groups
<1>6. base64encode(s) = << >>
  <2>1. [g \in DOMAIN Groups(s, 3) |-> EncodeGroup(s, g)] = << >>
    BY <1>5
  <2> QED
    BY <1>4, <2>1 DEF base64encode
<1>7. base64decode(s) = << >>
  <2>1. [g \in DOMAIN Groups(s, 4) |-> DecodeFour(Groups(s, 4)[g])] = << >>
    BY <1>5
  <2> QED
    BY <1>1, <1>2, <1>4, <2>1 DEF base64decode
<1>8. Base64(s) = << >>
  <2>1. Regrouped(s, 6) = << >>
    BY <1>1, <1>2 DEF Regrouped
  <2>2. [i \in 1 .. (4 - (Len(<< >>) % 4)) % 4 |-> Pad] = << >>
    BY <1>2
  <2>3. << >> \o << >> = << >>
    OBVIOUS
  <2> QED
    BY <2>1, <2>2, <2>3 DEF Base64
<1> QED
  BY <1>6, <1>7, <1>8

(* The full groups of three, and the bytes of the last.                     *)
Split(N, H, l) ==
  N = 3 * H + l /\ (N % 3 = 2 <=> l = 2) /\ (N % 3 = 1 <=> l = 1) /\ (N + 3 - 1) \div 3 = H + 1
LEMMA SplitOf ==
  ASSUME NEW N \in Nat \ {0}
  PROVE \E H \in Nat, l \in {1, 2, 3} : Split(N, H, l)
<1>1. PICK H \in Nat, l \in {1, 2, 3} : N = 3 * H + l
  <2>1. PICK H \in Nat, r \in 0 .. 2 : N - 1 = 3 * H + r
    <3>1. (N - 1) \div 3 \in Nat /\ (N - 1) % 3 \in 0 .. 2 /\ N - 1 = 3 * ((N - 1) \div 3) + ((N - 1) % 3)
      OBVIOUS
    <3> QED
      BY <3>1
  <2>2. r + 1 \in {1, 2, 3} /\ N = 3 * H + (r + 1)
    BY <2>1
  <2> QED
    BY <2>2
<1>2. CASE l = 1
  BY <1>1, <1>2 DEF Split
<1>3. CASE l = 2
  BY <1>1, <1>3 DEF Split
<1>4. CASE l = 3
  BY <1>1, <1>4 DEF Split
<1> QED
  BY <1>2, <1>3, <1>4

(* What base64encode makes of s, read back.                                 *)
LEMMA Base64Groups ==
  ASSUME NEW s \in Seq(Octets), s # << >>, NEW N \in Nat \ {0}, N = Len(s)
  PROVE \E H \in Nat, l \in {1, 2, 3} :
          /\ N = 3 * H + l /\ (N % 3 = 2 <=> l = 2) /\ (N % 3 = 1 <=> l = 1)
          /\ base64encode(s) = Row(Quads(s, H + 1, 2), 4, H + 1)
          /\ Base64(s) = Row(Quads(s, H + 1, l), 4, H + 1)
<1>1. PICK H \in Nat, l \in {1, 2, 3} : Split(N, H, l)
  BY SplitOf
<1>2. PICK G : G = (N + 3 - 1) \div 3 /\ G = H + 1
  BY <1>1 DEF Split
<1>3. N = 3 * H + l /\ (N % 3 = 2 <=> l = 2) /\ (N % 3 = 1 <=> l = 1)
  BY <1>1 DEF Split
<1>4. base64encode(s) = Row(Quads(s, H + 1, 2), 4, H + 1)
  <2>1. G = (Len(s) + 3 - 1) \div 3
    BY <1>2
  <2>2. base64encode(s) = Row(Quads(s, G, 2), 4, G)
    BY <2>1, EncodeIs, Zenon
  <2> QED
    BY <1>2, <2>2, Zenon
<1>5. Base64(s) = Row(Quads(s, H + 1, l), 4, H + 1)
  <2>1. Len(s) = 3 * H + l
    BY <1>3
  <2> QED
    BY <2>1, Base64Is, Zenon
<1> QED
  BY <1>3, <1>4, <1>5, Zenon

LEMMA Base64OfAnySeq ==
  ASSUME NEW s \in Seq(Octets)
  PROVE Base64OfAllButTheLast(s)
<1>1. CASE s = << >>
  <2>1. base64encode(s) = << >> /\ base64decode(s) = << >> /\ Base64(s) = << >>
    BY <1>1, OfNothing
  <2>2. Len(s) = 0 /\ 0 % 3 = 0 /\ SubSeq(s, 1, 0 - 1) = << >>
    BY <1>1
  <2>3. Len(s) % 3 = 0
    BY <2>2
  <2>4. base64decode(base64encode(s)) = SubSeq(s, 1, Len(s) - 1)
    BY <1>1, <2>1, <2>2, Zenon
  <2>5. base64decode(Base64(s)) = s
    BY <1>1, <2>1, Zenon
  <2> QED
    BY <2>3, <2>4, <2>5 DEF Base64OfAllButTheLast
<1>2. CASE s # << >>
  <2>1. PICK N \in Nat \ {0} : N = Len(s)
    <3>1. Len(s) \in Nat
      OBVIOUS
    <3>2. Len(s) # 0
      BY <1>2
    <3> QED
      BY <3>1, <3>2
  <2>2. PICK H \in Nat, l \in {1, 2, 3} :
          /\ N = 3 * H + l /\ (N % 3 = 2 <=> l = 2) /\ (N % 3 = 1 <=> l = 1)
          /\ base64encode(s) = Row(Quads(s, H + 1, 2), 4, H + 1)
          /\ Base64(s) = Row(Quads(s, H + 1, l), 4, H + 1)
    BY <1>2, <2>1, Base64Groups, Zenon
  <2>3. H + 1 \in Nat \ {0} /\ (H + 1) - 1 = H
    OBVIOUS
  <2>4. \A k \in {1, 2, 3} : base64decode(Row(Quads(s, H + 1, k), 4, H + 1)) = [i \in 1 .. 3 * H + k |-> At(s, i)]
    <3>1. \A k \in {1, 2, 3} : base64decode(Row(Quads(s, H + 1, k), 4, H + 1))
                               = [i \in 1 .. 3 * ((H + 1) - 1) + k |-> At(s, i)]
      BY <2>3, ReadBack, Zenon
    <3> QED
      BY <2>3, <3>1, Zenon
  <2>5. base64decode(Base64(s)) = s
    <3>1. base64decode(Base64(s)) = [i \in 1 .. 3 * H + l |-> At(s, i)]
      BY <2>2, <2>4, Zenon
    <3>2. [i \in 1 .. Len(s) |-> At(s, i)] = s
      BY ReadAll
    <3> QED
      BY <2>1, <2>2, <3>1, <3>2, Zenon
  <2>6. base64decode(base64encode(s)) = [i \in 1 .. 3 * H + 2 |-> At(s, i)]
    <3>1. 2 \in {1, 2, 3}
      OBVIOUS
    <3> QED
      BY <2>2, <2>4, <3>1, Zenon
  <2>7. N % 3 = Len(s) % 3
    BY <2>1, Zenon
  <2>8. CASE l = 1
    <3>1. 3 * H + 2 = N + 1 /\ Len(s) % 3 = 1
      BY <2>2, <2>7, <2>8
    <3>2. [i \in 1 .. Len(s) + 1 |-> At(s, i)] = Append(s, 0)
      BY ReadOneMore
    <3>3. base64decode(base64encode(s)) = Append(s, 0)
      BY <2>1, <2>6, <3>1, <3>2, Zenon
    <3>4. ~(1 = 2)
      OBVIOUS
    <3> QED
      BY <2>5, <3>1, <3>3, <3>4 DEF Base64OfAllButTheLast
  <2>9. CASE l = 2
    <3>1. Len(s) % 3 = 2
      BY <2>2, <2>7, <2>9
    <3>2. base64encode(s) = Base64(s)
      BY <2>2, <2>9, Zenon
    <3> QED
      BY <2>5, <3>1, <3>2 DEF Base64OfAllButTheLast
  <2>10. CASE l = 3
    <3>1. 3 * H + 2 = N - 1 /\ Len(s) % 3 # 1 /\ Len(s) % 3 # 2
      BY <2>2, <2>7, <2>10
    <3>2. [i \in 1 .. Len(s) - 1 |-> At(s, i)] = SubSeq(s, 1, Len(s) - 1)
      BY <1>2, ReadOneLess
    <3>3. base64decode(base64encode(s)) = SubSeq(s, 1, Len(s) - 1)
      BY <2>1, <2>6, <3>1, <3>2, Zenon
    <3> QED
      BY <2>5, <3>1, <3>3 DEF Base64OfAllButTheLast
  <2> QED
    BY <2>8, <2>9, <2>10
<1> QED
  BY <1>1, <1>2

-----------------------------------------------------------------------------
(* The system.                                                              *)
Sealed == [mode : Mode, secret : Secret \cup {Short}, input : Message, bytes : Seq(Octets)]
Alike(s, t) == s.mode = t.mode /\ s.secret = t.secret /\ s.bytes = t.bytes

LengthsFit == \A s \in sealed : Len(s.bytes) = CipherLen(s.mode, Len(s.input))
OneInput == \A s, t \in sealed : Alike(s, t) => s.input = t.input
Asked == [mode : Mode, secret : Secret \cup {Short}]
Answered ==
  \/ asked = Nothing
  \/ /\ asked \in Asked
     /\ \E e \in Effective(asked.secret) :
          << status, plain >> \in Opened(asked.mode, e, string_from_custom_base36(text))
                                  \cup {<< f, << >> >> : f \in Failures[asked.mode]}

(* Different inputs are sealed to different bytes, of the length their      *)
(* cipher makes, and the last decrypt has answered for the text that is     *)
(* still there and for ciphertexts that are still all there are.            *)
Inv ==
  /\ sealed \in SUBSET Sealed /\ text \in Seq(Alphabet)
  /\ LengthsFit /\ OneInput /\ Answered

LEMMA CipherLengths ==
  ASSUME NEW n \in Nat
  PROVE /\ CipherLen("gcm", n) \in Nat /\ CipherLen("gcm", n) >= Block
        /\ CipherLen("cbc", n) \in Nat /\ CipherLen("cbc", n) % Block = 0 /\ CipherLen("cbc", n) > 0
<1>1. Block \in Nat /\ Block > 0
  BY BoundsAssumption
<1>2. CipherLen("gcm", n) = n + Block
  BY DEF CipherLen
<1>3. PICK q \in Nat : q = n \div Block + 1 /\ q > 0
  BY <1>1
<1>4. CipherLen("cbc", n) = q * Block
  BY <1>3 DEF CipherLen
<1>5. q * Block \in Nat /\ q * Block > 0
  BY <1>1, <1>3
<1>6. (q * Block) % Block = 0
  BY <1>1, <1>5
<1> QED
  BY <1>1, <1>2, <1>4, <1>5, <1>6

LEMMA LengthTyped ==
  ASSUME NEW mode \in Mode, NEW m \in Message
  PROVE CipherLen(mode, Len(m)) \in Nat
<1>1. Len(m) \in Nat
  BY MessageAssumption
<1> QED
  BY <1>1, CipherLengths DEF Mode

LEMMA InitInv == Init => Inv
BY DEF Init, Inv, LengthsFit, OneInput, Answered

LEMMA ChangeInv ==
  ASSUME Inv, Change
  PROVE Inv'
<1>1. sealed' = sealed /\ asked' = Nothing
  BY DEF Change
<1>2. text' \in Seq(Alphabet)
  <2>1. PICK t \in Seq(Alphabet) : t = text
    BY DEF Inv
  <2>2. ASSUME NEW i \in DOMAIN t, NEW c \in Letter PROVE [t EXCEPT ![i] = c] \in Seq(Alphabet)
    BY LetterAssumption DEF Alphabet
  <2>3. ASSUME NEW i \in DOMAIN t
        PROVE RemoveAt(t, i) \in Seq(Alphabet) /\ SubSeq(t, 1, i - 1) \in Seq(Alphabet)
    <3>1. PICK n \in Nat : n = Len(t) /\ i \in 1 .. n
      OBVIOUS
    <3>2. i - 1 \in 0 .. n /\ i + 1 \in 1 .. n + 1
      BY <3>1
    <3>3. SubSeq(t, 1, i - 1) \in Seq(Alphabet) /\ SubSeq(t, i + 1, n) \in Seq(Alphabet)
      BY <3>1, <3>2
    <3> QED
      BY <3>1, <3>3 DEF RemoveAt
  <2>4. ASSUME NEW i \in 1 .. Len(t) + 1, NEW c \in Letter PROVE InsertAt(t, i, c) \in Seq(Alphabet)
    <3>1. PICK n \in Nat : n = Len(t) /\ i \in 1 .. n + 1
      OBVIOUS
    <3>2. i - 1 \in 0 .. n
      BY <3>1
    <3>3. SubSeq(t, 1, i - 1) \in Seq(Alphabet) /\ SubSeq(t, i, n) \in Seq(Alphabet)
      BY <3>1, <3>2
    <3>4. << c >> \in Seq(Alphabet)
      BY LetterAssumption DEF Alphabet
    <3> QED
      BY <3>1, <3>3, <3>4 DEF InsertAt
  <2> QED
    <3>1. CASE \E i \in DOMAIN t, c \in Letter : text' = [t EXCEPT ![i] = c]
      BY <2>2, <3>1
    <3>2. CASE \E i \in DOMAIN t : text' = RemoveAt(t, i) \/ text' = SubSeq(t, 1, i - 1)
      BY <2>3, <3>2
    <3>3. CASE \E i \in 1 .. Len(t) + 1, c \in Letter : text' = InsertAt(t, i, c)
      BY <2>4, <3>3
    <3> QED
      BY <2>1, <3>1, <3>2, <3>3 DEF Change
<1> QED
  BY <1>1, <1>2 DEF Inv, LengthsFit, OneInput, Answered

LEMMA EncryptInv ==
  ASSUME Inv, NEW mode \in Mode, NEW m \in Message, NEW secret \in Secret \cup {Short},
         Encrypt(mode, m, secret)
  PROVE Inv'
<1>1. asked' = Nothing
  BY DEF Encrypt
<1>2. CASE UNCHANGED << sealed, text >>
  BY <1>1, <1>2 DEF Inv, LengthsFit, OneInput, Answered
<1>3. CASE \E e \in Effective(secret) : \E bytes \in Fresh(mode, m, e) :
             /\ sealed' = sealed \cup {[mode |-> mode, secret |-> e, input |-> m, bytes |-> bytes]}
             /\ text' = string_to_custom_base36(bytes)
  <2>1. PICK e \in Effective(secret) : \E bytes \in Fresh(mode, m, e) :
             /\ sealed' = sealed \cup {[mode |-> mode, secret |-> e, input |-> m, bytes |-> bytes]}
             /\ text' = string_to_custom_base36(bytes)
    BY <1>3
  <2>2. PICK bytes \in Fresh(mode, m, e) :
             /\ sealed' = sealed \cup {[mode |-> mode, secret |-> e, input |-> m, bytes |-> bytes]}
             /\ text' = string_to_custom_base36(bytes)
    BY <2>1
  <2>3. PICK new : new = [mode |-> mode, secret |-> e, input |-> m, bytes |-> bytes]
    OBVIOUS
  <2>4. /\ bytes \in Seq(Octets) /\ Len(bytes) = CipherLen(mode, Len(m))
        /\ \A t \in sealed : Alike(new, t) => t.input = m
    <3> DEFINE alike == {s \in sealed : s.mode = mode /\ s.secret = e}
               known == {s \in alike : s.input = m}
    <3>1. CASE known # {}
      <4>1. Fresh(mode, m, e) = {s.bytes : s \in known}
        BY <3>1, Zenon DEF Fresh
      <4>2. PICK s \in known : bytes = s.bytes
        BY <4>1
      <4> QED
        BY <2>3, <4>2 DEF Inv, Sealed, LengthsFit, OneInput, Alike
    <3>2. CASE known = {}
      <4>1. bytes \in [1 .. CipherLen(mode, Len(m)) -> Octet] \ {s.bytes : s \in alike}
        BY <2>2, <3>2 DEF Fresh
      <4>2. PICK n \in Nat : n = CipherLen(mode, Len(m))
        BY LengthTyped
      <4>3. bytes \in Seq(Octets) /\ Len(bytes) = n
        <5>1. bytes \in [1 .. n -> Octet]
          BY <4>1, <4>2
        <5>2. bytes \in [1 .. n -> Octets]
          BY <5>1, OctetAssumption DEF Octets
        <5> QED
          BY <5>2
      <4>4. \A t \in sealed : ~Alike(new, t)
        BY <2>3, <4>1 DEF Alike
      <4> QED
        BY <4>2, <4>3, <4>4
    <3> QED
      BY <3>1, <3>2
  <2>5. new \in Sealed
    <3>1. e \in Secret \cup {Short}
      BY DEF Effective
    <3> QED
      BY <2>3, <2>4, <3>1 DEF Sealed
  <2>6. new.mode = mode /\ new.input = m /\ new.bytes = bytes /\ new.secret = e
    BY <2>3
  <2>7. sealed' = sealed \cup {new}
    BY <2>2, <2>3
  <2>8. sealed' \in SUBSET Sealed
    BY <2>5, <2>7 DEF Inv
  <2>9. LengthsFit'
    BY <2>4, <2>6, <2>7 DEF Inv, LengthsFit
  <2>10. OneInput'
    <3>1. \A t \in sealed : Alike(t, new) => t.input = m
      BY <2>4 DEF Alike
    <3> QED
      BY <2>4, <2>6, <2>7, <3>1 DEF Inv, OneInput
  <2>11. text' \in Seq(Alphabet)
    <3>1. string_to_custom_base36(bytes) \in Seq(0 .. 31)
      BY <2>4, Base36LosesNothing DEF Octets
    <3> QED
      BY <2>2, <3>1 DEF Alphabet, Other
  <2> QED
    BY <1>1, <2>8, <2>9, <2>10, <2>11 DEF Inv, Answered
<1> QED
  BY <1>2, <1>3 DEF Encrypt

LEMMA DecryptInv ==
  ASSUME Inv, NEW mode \in Mode, NEW secret \in Secret \cup {Short}, Decrypt(mode, secret)
  PROVE Inv'
<1>1. sealed' = sealed /\ text' = text
  BY DEF Decrypt
<1>2. asked' = [mode |-> mode, secret |-> secret] /\ asked' \in Asked
  BY DEF Decrypt, Asked
<1>3. PICK e \in Effective(secret) :
        << status', plain' >> \in Opened(mode, e, string_from_custom_base36(text))
                                  \cup {<< f, << >> >> : f \in Failures[mode]}
  <2>1. PICK e \in Effective(secret) :
          \E r \in Opened(mode, e, string_from_custom_base36(text))
                   \cup {<< f, << >> >> : f \in Failures[mode]} : status' = r[1] /\ plain' = r[2]
    BY DEF Decrypt
  <2>2. PICK r \in Opened(mode, e, string_from_custom_base36(text))
                   \cup {<< f, << >> >> : f \in Failures[mode]} : status' = r[1] /\ plain' = r[2]
    BY <2>1
  <2>3. r = << r[1], r[2] >>
    BY DEF Opened
  <2> QED
    BY <2>2, <2>3
<1>4. Opened(mode, e, string_from_custom_base36(text))' = Opened(mode, e, string_from_custom_base36(text))
  BY <1>1 DEF Opened
<1>5. Answered'
  BY <1>1, <1>2, <1>3, <1>4 DEF Answered, Effective
<1> QED
  BY <1>1, <1>5 DEF Inv, LengthsFit, OneInput

LEMMA NextInv == Inv /\ [Next]_cvars => Inv'
<1> SUFFICES ASSUME Inv, [Next]_cvars PROVE Inv'
  OBVIOUS
<1>1. CASE Change
  BY <1>1, ChangeInv
<1>2. ASSUME NEW mode \in Mode, NEW secret \in Secret \cup {Short}, Decrypt(mode, secret) PROVE Inv'
  BY <1>2, DecryptInv
<1>3. ASSUME NEW mode \in Mode, NEW secret \in Secret \cup {Short}, NEW m \in Message,
             Encrypt(mode, m, secret)
      PROVE Inv'
  BY <1>3, EncryptInv
<1>4. CASE UNCHANGED cvars
  <2>1. /\ sealed' = sealed /\ text' = text /\ asked' = asked /\ status' = status /\ plain' = plain
    BY <1>4 DEF cvars
  <2>2. Answered' = Answered
    BY <2>1 DEF Answered, Effective, Opened
  <2> QED
    BY <2>1, <2>2 DEF Inv, LengthsFit, OneInput
<1> QED
  BY <1>1, <1>2, <1>3, <1>4 DEF Next

Fits(mode, secret, bytes, fit) ==
  /\ mode \in Mode
  /\ fit = {s \in sealed : s.mode = mode /\ s.secret = secret /\ s.bytes = bytes} /\ fit # {}
  /\ ~(mode = "gcm" /\ Len(bytes) < Block)
  /\ ~(mode = "cbc" /\ (Len(bytes) % Block # 0 \/ bytes = << >>))

LEMMA OpensWhatFits ==
  ASSUME NEW mode, NEW secret, NEW bytes, NEW fit, Fits(mode, secret, bytes, fit)
  PROVE Opened(mode, secret, bytes) = {<< 1, s.input >> : s \in fit}
<1>1. ~(IF mode = "gcm" THEN Len(bytes) < Block ELSE Len(bytes) % Block # 0 \/ bytes = << >>)
  BY DEF Mode, Fits
<1> QED
  BY <1>1, Zenon DEF Opened, Fits

LEMMA InvRestores == Inv => Restores
<1> SUFFICES ASSUME Inv, NEW s \in sealed, asked.mode = s.mode, text = string_to_custom_base36(s.bytes),
                    asked.secret = s.secret, asked.secret # Short
             PROVE status \in Failures[s.mode] \/ (status = 1 /\ plain = s.input)
  BY DEF Restores
<1>1. s \in Sealed /\ s.mode \in Mode /\ s.input \in Message /\ s.bytes \in Seq(Octets)
  BY DEF Inv, Sealed
<1>2. asked # Nothing
  BY <1>1 DEF Nothing, Mode
<1>3. string_from_custom_base36(text) = s.bytes
  BY <1>1, Base36LosesNothing DEF Octets
<1>4. Effective(asked.secret) = {s.secret}
  BY DEF Effective
<1>5. << status, plain >> \in Opened(s.mode, s.secret, s.bytes) \cup {<< f, << >> >> : f \in Failures[s.mode]}
  BY <1>2, <1>3, <1>4 DEF Inv, Answered
<1>6. Opened(s.mode, s.secret, s.bytes) = {<< 1, s.input >>}
  <2>1. PICK fit : fit = {t \in sealed : t.mode = s.mode /\ t.secret = s.secret /\ t.bytes = s.bytes}
    OBVIOUS
  <2>2. fit # {} /\ {<< 1, t.input >> : t \in fit} = {<< 1, s.input >>}
    BY <2>1 DEF Inv, OneInput, Alike
  <2>3. PICK n \in Nat : n = Len(s.input)
    BY <1>1, MessageAssumption
  <2>4. Len(s.bytes) = CipherLen(s.mode, n)
    BY <2>3 DEF Inv, LengthsFit
  <2>5. ~(s.mode = "gcm" /\ Len(s.bytes) < Block)
    <3> SUFFICES ASSUME s.mode = "gcm" PROVE ~(Len(s.bytes) < Block)
      OBVIOUS
    <3>1. Len(s.bytes) = CipherLen("gcm", n)
      BY <2>4
    <3> QED
      BY <3>1, CipherLengths, BoundsAssumption
  <2>6. ~(s.mode = "cbc" /\ (Len(s.bytes) % Block # 0 \/ s.bytes = << >>))
    <3> SUFFICES ASSUME s.mode = "cbc" PROVE Len(s.bytes) % Block = 0 /\ s.bytes # << >>
      OBVIOUS
    <3>1. Len(s.bytes) = CipherLen("cbc", n)
      BY <2>4
    <3>2. Len(s.bytes) % Block = 0 /\ Len(s.bytes) # 0
      BY <3>1, CipherLengths
    <3> QED
      BY <3>2
  <2>7. Opened(s.mode, s.secret, s.bytes) = {<< 1, t.input >> : t \in fit}
    <3>1. Fits(s.mode, s.secret, s.bytes, fit)
      BY <1>1, <2>1, <2>2, <2>5, <2>6, Zenon DEF Fits
    <3> QED
      BY <3>1, OpensWhatFits, Zenon
  <2> QED
    BY <2>2, <2>7
<1> QED
  BY <1>5, <1>6

LEMMA InvGcmNeverGarbles == Inv => GcmNeverGarbles
<1> SUFFICES ASSUME Inv, asked.mode = "gcm", status = 1
             PROVE \E s \in sealed :
                     /\ s.mode = "gcm" /\ plain = s.input /\ asked.secret \in {s.secret, Short}
                     /\ GoodLen(text) - Len(Regrouped(s.bytes, 5)) \in {0, 1}
  BY DEF GcmNeverGarbles
<1>1. asked # Nothing
  BY DEF Nothing
<1>2. PICK b : b = string_from_custom_base36(text)
  OBVIOUS
<1>3. PICK e \in Effective(asked.secret) :
        << status, plain >> \in Opened("gcm", e, b) \cup {<< f, << >> >> : f \in Failures["gcm"]}
  BY <1>1, <1>2 DEF Inv, Answered
<1>4. << status, plain >> \in Opened("gcm", e, b)
  BY <1>3 DEF Failures
<1>5. PICK s \in sealed : s.mode = "gcm" /\ s.secret = e /\ s.bytes = b /\ plain = s.input
  BY <1>4 DEF Opened
<1>6. asked.secret \in {s.secret, Short}
  BY <1>5 DEF Effective
<1>7. b \in Seq(Octets) /\ GoodLen(text) - (8 * Len(b) + 4) \div 5 \in {0, 1}
  BY <1>2, GoodOf DEF Inv
<1>8. Len(Regrouped(b, 5)) = (8 * Len(b) + 4) \div 5
  <2>1. PICK n \in Nat : n = Len(b)
    BY <1>7
  <2>2. (8 * n + 5 - 1) \div 5 = (8 * n + 4) \div 5 /\ (8 * n + 4) \div 5 \in Nat
    OBVIOUS
  <2>3. PICK k \in Nat : k = (8 * n + 5 - 1) \div 5 /\ k = (8 * n + 4) \div 5
    BY <2>2
  <2>4. PICK f : f = Regrouped(b, 5)
    OBVIOUS
  <2>5. f = [j \in 1 .. k |-> f[j]]
    BY <2>1, <2>3, <2>4 DEF Regrouped
  <2>6. Len(f) = k
    BY <2>5
  <2> QED
    BY <2>1, <2>3, <2>4, <2>6
<1> QED
  BY <1>5, <1>6, <1>7, <1>8

LEMMA InvBase64 == Inv => Base64AllButTheLast
<1> SUFFICES ASSUME Inv, NEW s \in sealed
             PROVE Base64OfAllButTheLast(s.input) /\ Base64OfAllButTheLast(s.bytes)
  BY DEF Base64AllButTheLast
<1>1. s.input \in Seq(Octets) /\ s.bytes \in Seq(Octets)
  <2>1. s \in Sealed
    BY DEF Inv
  <2> QED
    BY <2>1, MessageAssumption DEF Sealed, Octets
<1> QED
  BY <1>1, Base64OfAnySeq, Zenon

-----------------------------------------------------------------------------
(* What encrypt made is decrypted to its input under the same mode and      *)
(* secret, for inputs and blocks of any length, any bytes the cipher makes  *)
(* and any number of encryptions and changes of the text.                   *)
THEOREM RestoresHolds == Spec => []Restores
<1> QED
  BY InitInv, NextInv, InvRestores, PTL DEF Spec

(* What gcm returns was encrypted under the secret it was given, and the    *)
(* text has the length of its ciphertext's, or one digit more.              *)
THEOREM GcmNeverGarblesHolds == Spec => []GcmNeverGarbles
<1> QED
  BY InitInv, NextInv, InvGcmNeverGarbles, PTL DEF Spec

(* base64decode gives back the bytes of the RFC 4648 text, and what          *)
(* base64encode makes differs from that text in the last group only, and the *)
(* bytes read from it in the last byte, for messages and ciphertexts of any  *)
(* length and any bytes.                                                     *)
THEOREM Base64Holds == Spec => []Base64AllButTheLast
<1> QED
  BY InitInv, NextInv, InvBase64, PTL DEF Spec
=================================================================================
