----------------------------- MODULE EncString -----------------------------
(***************************************************************************)
(* The encrypted strings of a vault (internal/vault/crypto.go): PKCS#7     *)
(* padding on sequences of bytes, and what decryptEncString accepts.  The  *)
(* cipher and the MAC are library code: a ciphertext is the padded text it *)
(* was made from together with the key it was made under, and the MAC is   *)
(* right exactly under that key.  An IV carries nothing and is left out.   *)
(***************************************************************************)
EXTENDS Integers, Sequences

CONSTANTS
    Block,  \* aes.BlockSize
    Err     \* what a decryption that fails yields instead of a text

ASSUME EncStringAssumption ==
    /\ Block \in Nat \ {0}
    /\ Err \notin Seq(Nat)

Text == Seq(Nat)
Empty == <<>>

\* The text of an EncString is "" ("empty"), of the form 2.iv|ct|mac ("type2"),
\* of another encryption type ("other"), or not of that form ("garbled").
Formats == {"empty", "type2", "other", "garbled"}
EncStr == [format : Formats, key : STRING, ct : Text]
EmptyEnc(key) == [format |-> "empty", key |-> key, ct |-> Empty]

Repeat(pad) == [i \in 1..pad |-> pad]

\* Mutant of pkcs7Pad: no block of padding after a text that fills its blocks.
PadUnlessAligned(b) == b \o Repeat((Block - (Len(b) % Block)) % Block)

pkcs7Pad(b) == b \o Repeat(Block - (Len(b) % Block))

pkcs7Unpad(b) ==
    IF b = Empty THEN Err
    ELSE LET pad == b[Len(b)]
             rest == Len(b) - pad
         IN  IF pad = 0 \/ pad > Block \/ pad > Len(b) THEN Err
             ELSE IF SubSeq(b, rest + 1, Len(b)) # Repeat(pad) THEN Err
             ELSE SubSeq(b, 1, rest)

encryptStr(text, key) ==
    IF text = Empty THEN EmptyEnc(key)
    ELSE [format |-> "type2", key |-> key, ct |-> pkcs7Pad(text)]

decryptEncString(s, key) ==
    CASE s.format = "empty" -> Empty
      [] s.format \in {"other", "garbled"} -> Err
      [] s.format = "type2" ->
            IF s.key # key \/ Len(s.ct) % Block # 0 THEN Err ELSE pkcs7Unpad(s.ct)
=============================================================================
