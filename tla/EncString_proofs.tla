-------------------------- MODULE EncString_proofs --------------------------
(***************************************************************************)
(* Padding and encryption are undone exactly, for every block size.        *)
(***************************************************************************)
EXTENDS EncString, SequenceTheorems, TLAPS

\* The padding of a text is 1 to Block bytes long (crypto.go:150-152).
LEMMA PadLength ==
    ASSUME NEW b \in Text
    PROVE  Block - (Len(b) % Block) \in 1..Block
<1>1. Len(b) \in Nat
  BY DEF Text
<1>2. Len(b) % Block \in 0..(Block - 1)
  BY <1>1, EncStringAssumption
<1> QED
  BY <1>2, EncStringAssumption

\* Adding what is missing to a multiple of B gives a multiple of B.
LEMMA PadToMultiple ==
    ASSUME NEW n \in Nat, NEW B \in Nat \ {0}
    PROVE  (n + (B - (n % B))) % B = 0
  BY Z3

\* A padded text fills whole blocks: no text makes decryptEncString refuse its
\* own ciphertext for its length (crypto.go:106).
LEMMA PadFillsBlocks ==
    ASSUME NEW b \in Text
    PROVE  /\ pkcs7Pad(b) \in Text
           /\ Len(pkcs7Pad(b)) % Block = 0
<1> DEFINE pad == Block - (Len(b) % Block)
<1>1. pad \in 1..Block /\ Len(b) \in Nat
  BY PadLength DEF Text
<1>2. Repeat(pad) \in Text /\ Len(Repeat(pad)) = pad
  BY <1>1, EncStringAssumption DEF Text, Repeat
<1>3. pkcs7Pad(b) \in Text /\ Len(pkcs7Pad(b)) = Len(b) + pad
  BY <1>2 DEF Text, pkcs7Pad
<1>4. (Len(b) + pad) % Block = 0
  BY <1>1, PadToMultiple, EncStringAssumption
<1> QED
  BY <1>3, <1>4

\* pkcs7Unpad undoes pkcs7Pad for every text, those that end in bytes that
\* look like padding and those that fill their blocks included (crypto.go:150-167).
THEOREM UnpadPad ==
    ASSUME NEW b \in Text
    PROVE  pkcs7Unpad(pkcs7Pad(b)) = b
<1> DEFINE pad == Block - (Len(b) % Block)
           p == pkcs7Pad(b)
<1>1. pad \in 1..Block /\ Len(b) \in Nat
  BY PadLength DEF Text
<1>2. Repeat(pad) \in Text /\ Len(Repeat(pad)) = pad
  BY <1>1, EncStringAssumption DEF Text, Repeat
<1>3. p = b \o Repeat(pad)
  BY DEF pkcs7Pad
<1> HIDE DEF pad, p
<1>4. /\ p \in Text
      /\ Len(p) = Len(b) + pad
  BY <1>2, <1>3 DEF Text
<1>5. p[Len(p)] = pad
  BY <1>1, <1>2, <1>3, <1>4 DEF Text, Repeat
<1>6. SubSeq(p, Len(b) + 1, Len(p)) = Repeat(pad)
  BY <1>1, <1>2, <1>3, <1>4 DEF Text, Repeat
<1>7. SubSeq(p, 1, Len(b)) = b
  BY <1>1, <1>2, <1>3, <1>4 DEF Text
<1>8. Len(p) - p[Len(p)] = Len(b)
  BY <1>1, <1>4, <1>5
<1>9. p # Empty
  BY <1>1, <1>4 DEF Empty
<1>10. pkcs7Unpad(p) = b
  BY <1>1, <1>4, <1>5, <1>6, <1>7, <1>8, <1>9, EncStringAssumption DEF pkcs7Unpad
<1> QED
  BY <1>10 DEF p

\* Taking fewer than a block off a multiple of B leaves that much to pad.
LEMMA MissingToMultiple ==
    ASSUME NEW B \in Nat \ {0}, NEW n \in Nat, NEW pad \in 1..B,
           n % B = 0, pad <= n
    PROVE  B - ((n - pad) % B) = pad
<1>1. PICK q \in Nat : n = q * B
  <2>1. n = B * (n \div B) + (n % B) /\ n \div B \in Nat
    BY Z3
  <2> QED
    BY <2>1
<1>2. q # 0
  BY <1>1
<1>3. n - pad = (q - 1) * B + (B - pad) /\ q - 1 \in Nat /\ B - pad \in 0..(B - 1)
  BY <1>1, <1>2
<1>4. \A k \in Nat, r \in 0..(B - 1) : (k * B + r) % B = r
  BY Z3
<1>5. (n - pad) % B = B - pad
  BY <1>3, <1>4
<1> QED
  BY <1>5

\* pkcs7Unpad accepts nothing but padded texts: of whole blocks, what it does not
\* refuse is the padding of what it returns (crypto.go:155-167).
THEOREM UnpadOnlyPadded ==
    ASSUME NEW p \in Text, Len(p) % Block = 0, pkcs7Unpad(p) # Err
    PROVE  /\ pkcs7Unpad(p) \in Text
           /\ pkcs7Pad(pkcs7Unpad(p)) = p
<1> DEFINE pad == p[Len(p)]
           rest == Len(p) - pad
           b == SubSeq(p, 1, rest)
<1>1. /\ p # Empty /\ pad # 0 /\ ~(pad > Block) /\ ~(pad > Len(p))
      /\ SubSeq(p, rest + 1, Len(p)) = Repeat(pad)
      /\ pkcs7Unpad(p) = b
  <2> HIDE DEF pad, rest, b
  <2>1. pkcs7Unpad(p) =
            IF p = Empty THEN Err
            ELSE IF pad = 0 \/ pad > Block \/ pad > Len(p) THEN Err
            ELSE IF SubSeq(p, rest + 1, Len(p)) # Repeat(pad) THEN Err ELSE b
    BY Zenon DEF pkcs7Unpad, pad, rest, b
  <2> QED
    BY <2>1
<1>2. Len(p) \in Nat /\ Len(p) > 0 /\ p[Len(p)] \in Nat
  BY <1>1 DEF Text, Empty
<1>3. pad \in 1..Block /\ rest \in 0..Len(p)
  BY <1>1, <1>2, EncStringAssumption
<1>4. b \in Text /\ Len(b) = rest
  BY <1>2, <1>3 DEF Text
<1>5. Block - (rest % Block) = pad
  <2>1. pad \in 1..Block /\ pad <= Len(p) /\ Len(p) \in Nat
    BY <1>1, <1>2, <1>3
  <2> HIDE DEF pad
  <2> QED
    BY <2>1, MissingToMultiple, EncStringAssumption
<1>6. pkcs7Pad(b) = b \o SubSeq(p, rest + 1, Len(p))
  BY <1>1, <1>4, <1>5 DEF pkcs7Pad
<1>7. b \o SubSeq(p, rest + 1, Len(p)) = p
  <2>1. /\ p \in Seq(Nat)
        /\ SubSeq(p, 1, Len(p)) = p
    BY <1>2, SubSeqFull DEF Text
  <2>2. /\ 1 \in 1..Len(p) + 1
        /\ rest \in (1 - 1)..Len(p)
        /\ Len(p) \in rest..Len(p)
    BY <1>2, <1>3
  <2> HIDE DEF rest
  <2>3. SubSeq(p, 1, rest) \o SubSeq(p, rest + 1, Len(p)) = p
    BY <2>1, <2>2, ConcatAdjacentSubSeq
  <2> QED
    BY <2>3
<1> QED
  BY <1>1, <1>4, <1>6, <1>7

\* What encryptStr writes, decryptEncString reads back, under the same key
\* (crypto.go:56-148); under another it is refused unless there is nothing to hide.
THEOREM DecryptEncrypt ==
    ASSUME NEW text \in Text, NEW key
    PROVE  /\ decryptEncString(encryptStr(text, key), key) = text
           /\ \A other : other # key /\ text # Empty =>
                 decryptEncString(encryptStr(text, key), other) = Err
<1>1. CASE text = Empty
  BY <1>1 DEF decryptEncString, encryptStr, EmptyEnc
<1>2. CASE text # Empty
  <2>1. encryptStr(text, key) = [format |-> "type2", key |-> key, ct |-> pkcs7Pad(text)]
    BY <1>2 DEF encryptStr
  <2>2. Len(pkcs7Pad(text)) % Block = 0
    BY PadFillsBlocks
  <2> QED
    BY <2>1, <2>2, UnpadPad DEF decryptEncString
<1> QED
  BY <1>1, <1>2
=============================================================================
