----------------------------- MODULE StringCipher -----------------------------
(***************************************************************************)
(* cryptography_functions::stream_cipher: the aes_cbc_ and aes_gcm_         *)
(* functions on strings, whose ciphertexts travel as base36 text that may   *)
(* be cut, extended or mistyped before it comes back.                       *)
(*                                                                         *)
(* AES is ideal: a ciphertext is any bytes of the right length, the same    *)
(* for the same call, and what no call has made has no tag that fits.       *)
(***************************************************************************)
EXTENDS Codecs

CONSTANTS
  Message,     \* inputs: byte strings
  Octet,       \* bytes a ciphertext may have
  Letter,      \* characters that text is changed into
  Secret,      \* an iv and a key, both as long as the cipher reads
  Block,       \* AES_BLOCK_SIZE, 16 in the code
  MaxSealed,   \* bound: different encryptions
  MaxChanges   \* bound: changes of a text between two encryptions

ASSUME OctetAssumption == Octet \subseteq 0 .. 255
ASSUME MessageAssumption == \A m \in Message : m \in Seq(0 .. 255)
ASSUME LetterAssumption == Letter \subseteq 0 .. Other
ASSUME BoundsAssumption == Block \in Nat \ {0} /\ MaxSealed \in Nat /\ MaxChanges \in Nat

Mode == {"cbc", "gcm"}
Short == "short"     \* an iv or a key shorter than what the cipher reads of it
Junk == << Other >>  \* for bytes that were never encrypted
ASSUME SecretAssumption == Short \notin Secret
ASSUME JunkAssumption == Junk \notin Message

VARIABLES
  sealed,    \* what has been encrypted: mode, secret, input and bytes
  text,      \* the text in the caller's hands
  plain,     \* the output of the last call, a string that was empty before it
  status,    \* of the last call
  asked,     \* history: mode and secret of the last step if it was a decrypt
  changes
cvars == << sealed, text, plain, status, asked, changes >>

Nothing == [mode |-> "none"]
Init ==
  /\ sealed = {} /\ text = << >> /\ plain = << >> /\ status = 0
  /\ asked = Nothing /\ changes = 0

(* c_str() of a short string is read beyond its end: whatever stands there. *)
Effective(s) == IF s = Short THEN Secret \cup {Short} ELSE {s}

CipherLen(mode, n) == IF mode = "cbc" THEN (n \div Block + 1) * Block ELSE n + Block
(* What OpenSSL refuses for want of memory, by the place where it does.     *)
Failures == [cbc |-> {-1, -2, -3}, gcm |-> {-2, -3, -4, -5}]
EncryptFailures == [cbc |-> {-1, -2, -3, -4}, gcm |-> {-1, -2, -3, -4, -5}]

(* The bytes a new encryption may have, different for different inputs.     *)
Fresh(mode, m, e) ==
  LET alike == {s \in sealed : s.mode = mode /\ s.secret = e}
      known == {s \in alike : s.input = m}
  IN IF known # {} THEN {s.bytes : s \in known}
     ELSE IF Cardinality(sealed) < MaxSealed
          THEN [1 .. CipherLen(mode, Len(m)) -> Octet] \ {s.bytes : s \in alike}
          ELSE {}
Encrypt(mode, m, secret) ==
  /\ asked' = Nothing /\ plain' = << >>
  /\ \/ /\ \E e \in Effective(secret) : \E bytes \in Fresh(mode, m, e) :
             /\ sealed' = sealed \cup {[mode |-> mode, secret |-> e, input |-> m, bytes |-> bytes]}
             /\ text' = string_to_custom_base36(bytes)
        /\ status' = 1 /\ changes' = 0
     \/ status' \in EncryptFailures[mode] /\ UNCHANGED << sealed, text, changes >>

(* One character of the text is lost, another, or one more; or its end is.  *)
Change ==
  /\ changes < MaxChanges /\ changes' = changes + 1
  /\ \/ \E i \in DOMAIN text, c \in Letter : text' = [text EXCEPT ![i] = c]
     \/ \E i \in DOMAIN text : text' = RemoveAt(text, i) \/ text' = SubSeq(text, 1, i - 1)
     \/ \E i \in 1 .. Len(text) + 1, c \in Letter : text' = InsertAt(text, i, c)
  /\ asked' = Nothing /\ plain' = << >> /\ status' = 0 /\ UNCHANGED sealed

(* What decrypting bytes can end in, as status and output.  Bytes that are  *)
(* no ciphertext fail at the padding, or pass by chance under cbc.          *)
Opened(mode, secret, bytes) ==
  LET fit == {s \in sealed : s.mode = mode /\ s.secret = secret /\ s.bytes = bytes}
      refused == IF mode = "gcm" THEN Len(bytes) < Block ELSE Len(bytes) % Block # 0 \/ bytes = << >>
  IN IF refused THEN {<< IF mode = "gcm" THEN -1 ELSE -4, << >> >>}
     ELSE IF fit # {} THEN {<< 1, s.input >> : s \in fit}
     ELSE IF mode = "gcm" THEN {<< -6, << >> >>} ELSE {<< -4, << >> >>, << 1, Junk >>}
Decrypt(mode, secret) ==
  /\ asked' = [mode |-> mode, secret |-> secret]
  /\ \E e \in Effective(secret) :
       \E r \in Opened(mode, e, string_from_custom_base36(text))
                \cup {<< f, << >> >> : f \in Failures[mode]} :
         status' = r[1] /\ plain' = r[2]
  /\ UNCHANGED << sealed, text, changes >>

Next ==
  \/ Change
  \/ \E mode \in Mode, secret \in Secret \cup {Short} :
       Decrypt(mode, secret) \/ \E m \in Message : Encrypt(mode, m, secret)
Spec == Init /\ [][Next]_cvars

-----------------------------------------------------------------------------
(* What encrypt made of an input is decrypted to it by the same mode, iv    *)
(* and key, if these are as long as the cipher reads: base36 loses nothing  *)
(* on the way, whatever its register forgets (36-88, 196-459).              *)
Restores ==
  \A s \in sealed :
    asked.mode = s.mode /\ text = string_to_custom_base36(s.bytes)
    /\ asked.secret = s.secret /\ asked.secret # Short
      => status \in Failures[s.mode] \/ (status = 1 /\ plain = s.input)

(* gcm returns only what was encrypted, under the secret it is given.  The  *)
(* text may differ from what encrypt returned, but before its first         *)
(* character that is no digit it has as many, or one more (59-88, 447-451). *)
GoodLen(t) == Max({n \in 0 .. Len(t) : \A i \in 1 .. n : t[i] < 36})
GcmNeverGarbles ==
  asked.mode = "gcm" /\ status = 1 =>
    \E s \in sealed :
      /\ s.mode = "gcm" /\ plain = s.input /\ asked.secret \in {s.secret, Short}
      /\ GoodLen(text) - Len(Regrouped(s.bytes, 5)) \in {0, 1}

(* base64 of the messages and of the ciphertexts (utility.cc:116-180).      *)
Base64AllButTheLast ==
  \A s \in sealed : Base64OfAllButTheLast(s.input) /\ Base64OfAllButTheLast(s.bytes)
=============================================================================
