-------------------------- MODULE VaultItems_proofs --------------------------
(***************************************************************************)
(* The safety properties of VaultItems for all ids, items, requests and    *)
(* edits, and that its steps are steps of VaultConnection.                 *)
(***************************************************************************)
EXTENDS VaultItems, EncString_proofs, VaultConnection_proofs, TLAPS

\* Types.
Types ==
    /\ items \in [Ids -> Item]
    /\ op \in Asks \cup {NoOp}
    /\ raw \in Login \cup {NoRaw}
    /\ late = NoLate \/ late \in [id : Ids \cup {Absent}, body : Login]
    /\ told \in [Ids -> [Fields -> Text \cup {Unknown}]]
    /\ window \in {"open", "shut"}
    /\ effects \in Nat

\* Which locals a call has where.
LocalsInv ==
    /\ op = NoOp <=> pc = "idle"
    /\ raw # NoRaw => op.tool = "update" /\ pc = "asking" /\ window = "open"

\* A call that goes on has written nothing yet.
EffectsInv == effects \in 0..1 /\ (pc # "idle" => effects = 0)

\* What an open update has read is what users were told of its item since.
RawInv ==
    raw # NoRaw =>
        \A f \in Fields : told[op.id][f] # Unknown =>
            decryptStr(raw.enc[f]) = told[op.id][f]

ItemsInv ==
    /\ ConnectionInv
    /\ Types /\ LocalsInv /\ EffectsInv /\ RawInv
    /\ VaultHoldsWhatWasTold

\* What encryptStr makes of a text is an encrypted string of ours.
LEMMA EncryptType ==
    ASSUME NEW text \in Text
    PROVE  /\ encryptStr(text, MyKey) \in EncStr
           /\ decryptStr(encryptStr(text, MyKey)) = text
<1>1. encryptStr(text, MyKey) \in EncStr
  <2>1. CASE text = Empty
    BY <2>1, ItemsAssumption DEF encryptStr, EmptyEnc, EncStr, Formats, Empty, Text
  <2>2. CASE text # Empty
    BY <2>2, PadFillsBlocks, ItemsAssumption DEF encryptStr, EncStr, Formats
  <2> QED
    BY <2>1, <2>2
<1> QED
  BY <1>1, DecryptEncrypt DEF decryptStr

\* What pkcs7Unpad does not refuse is a text.
LEMMA UnpadType ==
    ASSUME NEW b \in Text
    PROVE  pkcs7Unpad(b) \in Text \cup {Err}
<1> DEFINE pad == b[Len(b)]
           rest == Len(b) - pad
<1>1. CASE b = Empty
  BY <1>1 DEF pkcs7Unpad
<1>2. CASE b # Empty
  <2>1. Len(b) \in Nat /\ Len(b) > 0 /\ pad \in Nat
    BY <1>2 DEF Text, Empty
  <2>2. CASE pad > Len(b)
    BY <1>2, <2>2 DEF pkcs7Unpad
  <2>3. CASE ~(pad > Len(b))
    <3>1. SubSeq(b, 1, rest) \in Text
      BY <2>1, <2>3 DEF Text
    <3> QED
      BY <1>2, <3>1, Zenon DEF pkcs7Unpad
  <2> QED
    BY <2>2, <2>3
<1> QED
  BY <1>1, <1>2

\* A decryption yields a text or an error, and what is shown of it is a text.
LEMMA ShownType ==
    ASSUME NEW s \in EncStr
    PROVE  decryptStr(s) \in Text \cup {Err} /\ Shown(s) \in Text
<1>1. s.format \in Formats /\ s.ct \in Text
  BY DEF EncStr
<1>2. Empty \in Text
  BY DEF Empty, Text
<1>3. decryptStr(s) \in Text \cup {Err}
  BY <1>1, <1>2, UnpadType DEF decryptStr, decryptEncString, Formats
<1> QED
  BY <1>2, <1>3 DEF Shown

\* Every step of VaultItems is a step of VaultConnection, or none of it.
LEMMA StepOfConnection == [ItemsNext]_vault => [ConnectionNext]_connection
<1> SUFFICES ASSUME [ItemsNext]_vault
             PROVE  ConnectionNext \/ UNCHANGED connection
  OBVIOUS
<1>1. CASE CallTool
  BY <1>1 DEF CallTool, ConnectionNext
<1>2. CASE InBetween
  BY <1>2 DEF InBetween, ConnectionNext
<1>3. CASE Search \/ Secret \/ Write
  BY <1>3 DEF Search, Secret, Write, ConnectionNext
<1>4. CASE WriteUnanswered \/ WriteDelayed
  BY <1>4 DEF WriteUnanswered, WriteDelayed, ConnectionNext
<1>5. CASE Get \/ LateWrite \/ EditElsewhere \/ DeleteElsewhere
  BY <1>5 DEF Get, LateWrite, EditElsewhere, DeleteElsewhere
<1>6. CASE Around
  BY <1>6 DEF Around, ConnectionNext
<1>7. CASE End
  BY <1>7 DEF End, ConnectionNext
<1>8. CASE UNCHANGED vault
  BY <1>8 DEF vault, connection
<1> QED
  BY <1>1, <1>2, <1>3, <1>4, <1>5, <1>6, <1>7, <1>8 DEF ItemsNext

\* The part of the invariant that speaks of items and calls.
CallInv == Types /\ LocalsInv /\ EffectsInv /\ RawInv /\ VaultHoldsWhatWasTold

\* A new call has its arguments and nothing else.
LEMMA CallToolKeeps == ItemsInv /\ CallTool => CallInv'
<1> SUFFICES ASSUME ItemsInv, CallTool PROVE CallInv'
  OBVIOUS
<1> USE DEF ItemsInv, CallInv, ConnectionInv, ConnectionTypeOK
<1>1. PICK o \in Asks : Call /\ op' = o /\ effects' = 0 /\ UNCHANGED <<items, raw, late, told, window>>
  BY DEF CallTool
<1>2. pc = "idle" /\ pc' = "called" /\ op = NoOp /\ raw = NoRaw
  BY <1>1 DEF Call, LocalsInv, NoOp
<1>3. o # NoOp
  BY ItemsAssumption DEF NoOp, Op, Tools
<1> QED
  BY <1>1, <1>2, <1>3 DEF Types, LocalsInv, EffectsInv, RawInv, VaultHoldsWhatWasTold

\* What a step of withVault does to the locals keeps their invariants, whatever is written.
LEMMA LocalsKeep ==
    ASSUME ItemsInv, Locals, pc # "idle", pc' \in {"idle", "login", "token", "asking"}
    PROVE  /\ op' \in Asks \cup {NoOp} /\ raw' \in Login \cup {NoRaw} /\ window' \in {"open", "shut"}
           /\ LocalsInv' /\ RawInv'
<1>1. raw' = NoRaw
  BY DEF Locals, Reread
<1> QED
  BY <1>1 DEF ItemsInv, Types, Locals, LocalsInv, RawInv

\* The steps of withVault that end or go on without touching an item.
LEMMA InBetweenKeeps ==
    ItemsInv /\ (InBetween \/ Search \/ Secret) => CallInv'
<1> SUFFICES ASSUME ItemsInv, InBetween \/ Search \/ Secret PROVE CallInv'
  OBVIOUS
<1>1. /\ Locals /\ UNCHANGED <<items, late, told, effects>>
  BY DEF InBetween, Search, Secret
<1>2. pc # "idle" /\ pc' \in {"idle", "login", "token", "asking"}
  BY DEF InBetween, Search, Secret, GetClient, Prelogin, LoginOk, LoginFails, RefusedOnce,
         RefusedAgain, Failed, Rejected, Served, Reply, VaultClient
<1>3. /\ op' \in Asks \cup {NoOp} /\ raw' \in Login \cup {NoRaw} /\ window' \in {"open", "shut"}
      /\ LocalsInv' /\ RawInv'
  BY <1>1, <1>2, LocalsKeep
<1> QED
  BY <1>1, <1>2, <1>3 DEF ItemsInv, CallInv, Types, EffectsInv, VaultHoldsWhatWasTold

\* The item a GET returns is as users were told.
LEMMA GetKeeps == ItemsInv /\ Get => CallInv'
<1> SUFFICES ASSUME ItemsInv, Get PROVE CallInv'
  OBVIOUS
<1> USE DEF ItemsInv, Get
<1>1. op \in Asks /\ op.id \in Ids /\ items[op.id] \in Login
  BY ItemsAssumption DEF Types, NoOp, Op, Item, IsLogin
<1>2. Types'
  BY <1>1 DEF Types
<1>3. LocalsInv'
  BY <1>1 DEF LocalsInv, connection
<1>4. EffectsInv' /\ VaultHoldsWhatWasTold'
  BY DEF EffectsInv, VaultHoldsWhatWasTold, connection
<1>5. RawInv'
  BY <1>1 DEF RawInv, VaultHoldsWhatWasTold
<1> QED
  BY <1>2, <1>3, <1>4, <1>5 DEF CallInv

\* What a write sends is a login, and reads as asked and, where nothing was asked,
\* as users were told.
LEMMA BodyReads ==
    ASSUME ItemsInv, Writes, NEW id \in Ids, op.tool = "update" => id = op.id
    PROVE  /\ op \in Asks
           /\ Body \in Login
           /\ \A f \in Fields : op.args[f] # Keep =>
                 op.args[f] \in Text /\ decryptStr(Body.enc[f]) = op.args[f]
           /\ \A f \in Fields : op.args[f] = Keep /\ told[id][f] # Unknown =>
                 decryptStr(Body.enc[f]) = told[id][f]
<1> USE DEF ItemsInv
<1>1. op \in Asks /\ op \in Op
  BY ItemsAssumption DEF Types, Writes, NoOp
<1>2. op.id \in Ids /\ op.args \in [Fields -> Text \cup {Keep}]
  BY <1>1 DEF Op
<1>3. CASE op.tool = "add"
  <2>1. \A f \in Fields : op.args[f] \in Text
    BY <1>1, <1>2, <1>3, ItemsAssumption
  <2>2. Body = [enc |-> [f \in Fields |-> encryptStr(op.args[f], MyKey)], rest |-> "none"]
    BY <1>3 DEF Body, Created
  <2>3. \A f \in Fields : encryptStr(op.args[f], MyKey) \in EncStr
                          /\ decryptStr(encryptStr(op.args[f], MyKey)) = op.args[f]
    BY <2>1, EncryptType
  <2>4. Keep \notin Text
    BY ItemsAssumption
  <2> QED
    BY <1>1, <1>2, <2>1, <2>2, <2>3, <2>4 DEF Login
<1>4. CASE op.tool # "add"
  <2> DEFINE e == [f \in Fields |->
                IF op.args[f] # Keep THEN encryptStr(op.args[f], MyKey)
                ELSE IF f \in {"name", "username"} THEN encryptStr(Shown(raw.enc[f]), MyKey)
                ELSE IF f = "uris" THEN raw.enc[f]
                ELSE raw.enc[f]]
  <2>1. op.tool = "update" /\ raw # NoRaw /\ raw \in Login /\ id = op.id
    BY <1>4 DEF Writes, Types
  <2>2. Body = [enc |-> e, rest |-> "none"]
    BY <1>4 DEF Body, Updated, KeptUris
  <2>3. ASSUME NEW f \in Fields
        PROVE  raw.enc[f] \in EncStr /\ Shown(raw.enc[f]) \in Text
               /\ decryptStr(raw.enc[f]) \in Text \cup {Err}
    BY <2>1, ShownType DEF Login
  <2>4. ASSUME NEW f \in Fields
        PROVE  e[f] \in EncStr
    BY <1>2, <2>3, EncryptType
  <2>5. ASSUME NEW f \in Fields, op.args[f] # Keep
        PROVE  op.args[f] \in Text /\ decryptStr(e[f]) = op.args[f]
    BY <1>2, <2>5, EncryptType
  <2>6. ASSUME NEW f \in Fields, op.args[f] = Keep, told[id][f] # Unknown
        PROVE  decryptStr(e[f]) = told[id][f]
    <3>1. decryptStr(raw.enc[f]) = told[id][f] /\ told[id][f] \in Text
      BY <1>2, <2>1, <2>6 DEF RawInv, Types
    <3>2. Shown(raw.enc[f]) = told[id][f]
      BY <3>1, EncStringAssumption DEF Shown, Text
    <3>3. decryptStr(encryptStr(told[id][f], MyKey)) = told[id][f]
      BY <3>1, EncryptType
    <3> QED
      BY <2>6, <3>1, <3>2, <3>3
  <2> HIDE DEF e
  <2>7. Body \in Login
    <3>1. e \in [Fields -> EncStr]
      BY <2>4 DEF e
    <3> QED
      BY <2>2, <3>1 DEF Login
  <2> QED
    BY <1>1, <1>2, <2>2, <2>5, <2>6, <2>7
<1> QED
  BY <1>3, <1>4

\* Writes, answered or not, keep what users know true.
LEMMA WriteKeeps ==
    ItemsInv /\ (Write \/ WriteUnanswered \/ WriteDelayed) => CallInv'
<1> SUFFICES ASSUME ItemsInv, Write \/ WriteUnanswered \/ WriteDelayed PROVE CallInv'
  OBVIOUS
<1>0. \A id \in Goal : id \in Ids /\ (op.tool = "update" => id = op.id)
  <2>1. Writes => op \in Asks
    BY DEF ItemsInv, Types, Writes, NoOp
  <2> QED
    BY <2>1, ItemsAssumption DEF Write, WriteUnanswered, WriteDelayed, Writes, Goal, Op
<1>1. pc = "asking" /\ pc' = "idle" /\ Locals /\ Writes /\ effects' = effects + 1
  BY DEF Write, WriteUnanswered, WriteDelayed, Served, Failed, Reply
<1>2. /\ op' \in Asks \cup {NoOp} /\ raw' \in Login \cup {NoRaw} /\ window' \in {"open", "shut"}
      /\ LocalsInv' /\ RawInv'
  BY <1>1, LocalsKeep
<1>3. EffectsInv'
  BY <1>1 DEF ItemsInv, EffectsInv
<1>4. CASE Write
  <2>1. PICK id \in Goal :
          /\ items' = [items EXCEPT ![id] = Body]
          /\ told' = [told EXCEPT ![id] = Accepted(told[id], op.args)]
    BY <1>4 DEF Write
  <2>2. /\ id \in Ids /\ Body \in Login
        /\ \A f \in Fields : op.args[f] # Keep =>
              op.args[f] \in Text /\ decryptStr(Body.enc[f]) = op.args[f]
        /\ \A f \in Fields : op.args[f] = Keep /\ told[id][f] # Unknown =>
              decryptStr(Body.enc[f]) = told[id][f]
    BY <1>0, <1>1, <2>1, BodyReads
  <2>3. late' = late
    BY <1>4 DEF Write
  <2> HIDE DEF Locals
  <2>4. Types'
    BY <1>2, <1>3, <2>1, <2>2, <2>3 DEF ItemsInv, Types, EffectsInv, Accepted, Item
  <2>5. VaultHoldsWhatWasTold'
    BY <2>1, <2>2, ItemsAssumption DEF ItemsInv, Types, VaultHoldsWhatWasTold, Accepted, IsLogin
  <2> QED
    BY <1>2, <1>3, <2>4, <2>5 DEF CallInv
<1>5. CASE WriteUnanswered
  <2>1. PICK id \in Goal :
          /\ items' = [items EXCEPT ![id] = Body]
          /\ told' = [told EXCEPT ![id] = Doubted(told[id], op.args)]
    BY <1>5 DEF WriteUnanswered
  <2>2. /\ id \in Ids /\ Body \in Login
        /\ \A f \in Fields : op.args[f] = Keep /\ told[id][f] # Unknown =>
              decryptStr(Body.enc[f]) = told[id][f]
    BY <1>0, <1>1, <2>1, BodyReads
  <2>3. late' = late
    BY <1>5 DEF WriteUnanswered
  <2>4. Types'
    BY <1>2, <1>3, <2>1, <2>2, <2>3 DEF ItemsInv, Types, EffectsInv, Doubted, Item
  <2>5. VaultHoldsWhatWasTold'
    BY <2>1, <2>2, ItemsAssumption DEF ItemsInv, Types, VaultHoldsWhatWasTold, Doubted, IsLogin
  <2> QED
    BY <1>2, <1>3, <2>4, <2>5 DEF CallInv
<1>6. CASE WriteDelayed
  <2>1. op \in Op
    BY <1>1, ItemsAssumption DEF ItemsInv, Types, Writes, NoOp
  <2>2. op.id \in Ids /\ Body \in Login
    BY <1>1, <2>1, BodyReads DEF Op
  <2>3. late' \in [id : Ids \cup {Absent}, body : Login] /\ UNCHANGED <<items, told>>
    BY <1>6, <2>2 DEF WriteDelayed
  <2> HIDE DEF Locals
  <2>4. Types'
    BY <1>2, <1>3, <2>3 DEF ItemsInv, Types, EffectsInv
  <2>5. VaultHoldsWhatWasTold'
    BY <2>3 DEF ItemsInv, VaultHoldsWhatWasTold
  <2> QED
    BY <1>2, <1>3, <2>4, <2>5 DEF CallInv
<1> QED
  BY <1>4, <1>5, <1>6

\* A write that lands late leaves users without knowledge of the item.
LEMMA LateWriteKeeps == ItemsInv /\ LateWrite => CallInv'
<1> SUFFICES ASSUME ItemsInv, LateWrite PROVE CallInv'
  OBVIOUS
<1>1. /\ late # NoLate /\ late' = NoLate
      /\ UNCHANGED connection /\ UNCHANGED <<op, raw, window, effects>>
  BY DEF LateWrite
<1>2. LocalsInv' /\ EffectsInv'
  BY <1>1 DEF ItemsInv, LocalsInv, EffectsInv, connection
<1>3. CASE UNCHANGED <<items, told>>
  BY <1>1, <1>2, <1>3 DEF ItemsInv, CallInv, Types, RawInv, VaultHoldsWhatWasTold
<1>4. CASE \E id \in Ids : /\ items' = [items EXCEPT ![id] = late.body]
                           /\ told' = [told EXCEPT ![id] = NothingKnown]
  <2>1. PICK id \in Ids : /\ items' = [items EXCEPT ![id] = late.body]
                          /\ told' = [told EXCEPT ![id] = NothingKnown]
    BY <1>4
  <2>2. late.body \in Login
    BY <1>1 DEF ItemsInv, Types
  <2>3. Types'
    BY <1>1, <2>1, <2>2 DEF ItemsInv, Types, NothingKnown, Item
  <2>4. VaultHoldsWhatWasTold'
    BY <2>1 DEF ItemsInv, Types, VaultHoldsWhatWasTold, NothingKnown
  <2>5. RawInv'
    BY <1>1, <2>1 DEF ItemsInv, Types, RawInv, NothingKnown
  <2> QED
    BY <1>2, <2>3, <2>4, <2>5 DEF CallInv
<1> QED
  BY <1>3, <1>4 DEF LateWrite

\* A field edited elsewhere is known to its user, unless an update is open.
LEMMA EditKeeps == ItemsInv /\ EditElsewhere => CallInv'
<1> SUFFICES ASSUME ItemsInv, EditElsewhere PROVE CallInv'
  OBVIOUS
<1>1. UNCHANGED connection /\ UNCHANGED <<op, raw, late, window, effects>>
  BY DEF EditElsewhere
<1>2. LocalsInv' /\ EffectsInv'
  BY <1>1 DEF ItemsInv, LocalsInv, EffectsInv, connection
<1>0. Edits \subseteq Fields \X Text
  BY ItemsAssumption
<1>3. PICK id \in Ids, g \in Fields, text \in Text :
        /\ IsLogin(items[id])
        /\ items' = [items EXCEPT ![id] =
              [enc |-> [items[id].enc EXCEPT ![g] = encryptStr(text, MyKey)],
               rest |-> items[id].rest]]
        /\ told' = [told EXCEPT ![id] = [told[id] EXCEPT ![g] =
              IF window = "open" /\ op.id = id THEN Unknown ELSE text]]
  <2>1. PICK id \in Ids, e \in Edits :
          /\ IsLogin(items[id])
          /\ items' = [items EXCEPT ![id] =
                [enc |-> [items[id].enc EXCEPT ![e[1]] = encryptStr(e[2], MyKey)],
                 rest |-> items[id].rest]]
          /\ told' = [told EXCEPT ![id] = [told[id] EXCEPT ![e[1]] =
                IF window = "open" /\ op.id = id THEN Unknown ELSE e[2]]]
    BY DEF EditElsewhere
  <2>2. e[1] \in Fields /\ e[2] \in Text
    BY <1>0
  <2> QED
    BY <2>1, <2>2
<1>4. /\ encryptStr(text, MyKey) \in EncStr
      /\ decryptStr(encryptStr(text, MyKey)) = text
      /\ items[id] \in Login
  BY <1>3, EncryptType DEF ItemsInv, Types, Item, IsLogin
<1> DEFINE new == [enc |-> [items[id].enc EXCEPT ![g] = encryptStr(text, MyKey)],
                   rest |-> items[id].rest]
           known == [told[id] EXCEPT ![g] =
                        IF window = "open" /\ op.id = id THEN Unknown ELSE text]
<1>5. /\ new \in Login
      /\ new.enc[g] = encryptStr(text, MyKey)
      /\ \A f \in Fields : f # g => new.enc[f] = items[id].enc[f]
  BY <1>4 DEF Login
<1>6. /\ known \in [Fields -> Text \cup {Unknown}]
      /\ known[g] \in {Unknown, text}
      /\ window = "open" /\ op.id = id => known[g] = Unknown
      /\ \A f \in Fields : f # g => known[f] = told[id][f]
  BY DEF ItemsInv, Types
<1>7. items' = [items EXCEPT ![id] = new] /\ told' = [told EXCEPT ![id] = known]
  BY <1>3
<1> HIDE DEF new, known
<1>8. Types'
  BY <1>1, <1>5, <1>6, <1>7 DEF ItemsInv, Types, Item
<1>9. VaultHoldsWhatWasTold'
  <2> SUFFICES ASSUME NEW i \in Ids, NEW f \in Fields, told'[i][f] # Unknown
               PROVE  IsLogin(items'[i]) /\ decryptStr(items'[i].enc[f]) = told'[i][f]
    BY DEF VaultHoldsWhatWasTold
  <2>1. CASE i # id
    BY <1>7, <2>1 DEF ItemsInv, Types, VaultHoldsWhatWasTold
  <2>2. CASE i = id
    <3>1. items'[i] = new /\ told'[i] = known
      BY <1>7, <2>2 DEF ItemsInv, Types
    <3>2. IsLogin(new)
      BY <1>5, ItemsAssumption DEF IsLogin
    <3>3. CASE f = g
      BY <1>4, <1>5, <1>6, <3>1, <3>2, <3>3
    <3>4. CASE f # g
      BY <1>5, <1>6, <2>2, <3>1, <3>2, <3>4 DEF ItemsInv, VaultHoldsWhatWasTold
    <3> QED
      BY <3>3, <3>4
  <2> QED
    BY <2>1, <2>2
<1>10. RawInv'
  <2> SUFFICES ASSUME raw # NoRaw, NEW f \in Fields, told'[op.id][f] # Unknown
               PROVE  decryptStr(raw.enc[f]) = told'[op.id][f]
    BY <1>1 DEF RawInv
  <2>1. window = "open" /\ op.tool = "update"
    BY DEF ItemsInv, LocalsInv
  <2>2. op.id \in Ids
    BY <2>1, ItemsAssumption DEF ItemsInv, Types, NoOp, Op
  <2>3. CASE op.id # id
    BY <1>7, <2>2, <2>3 DEF ItemsInv, Types, RawInv
  <2>4. CASE op.id = id
    BY <1>6, <1>7, <2>1, <2>2, <2>4 DEF ItemsInv, Types, RawInv
  <2> QED
    BY <2>3, <2>4
<1> QED
  BY <1>2, <1>8, <1>9, <1>10 DEF CallInv

\* Nobody knows anything of an item that was deleted.
LEMMA DeleteKeeps == ItemsInv /\ DeleteElsewhere => CallInv'
<1> SUFFICES ASSUME ItemsInv, DeleteElsewhere PROVE CallInv'
  OBVIOUS
<1>1. UNCHANGED connection /\ UNCHANGED <<op, raw, late, window, effects>>
  BY DEF DeleteElsewhere
<1>2. PICK id \in Ids : /\ items' = [items EXCEPT ![id] = Other]
                        /\ told' = [told EXCEPT ![id] = NothingKnown]
  BY DEF DeleteElsewhere
<1>3. LocalsInv' /\ EffectsInv'
  BY <1>1 DEF ItemsInv, LocalsInv, EffectsInv, connection
<1>4. Types'
  BY <1>1, <1>2 DEF ItemsInv, Types, NothingKnown, Item
<1>5. VaultHoldsWhatWasTold'
  BY <1>2 DEF ItemsInv, Types, VaultHoldsWhatWasTold, NothingKnown
<1>6. RawInv'
  BY <1>1, <1>2 DEF ItemsInv, Types, RawInv, NothingKnown
<1> QED
  BY <1>3, <1>4, <1>5, <1>6 DEF CallInv

\* Neither the clock, the server's sessions nor the end of the process change what
\* the vault holds.
LEMMA AroundKeeps == ItemsInv /\ (Around \/ End) => CallInv'
<1> SUFFICES ASSUME ItemsInv, Around \/ End PROVE CallInv'
  OBVIOUS
<1>1. CASE Around
  <2>1. pc' = pc /\ UNCHANGED <<items, op, raw, late, told, window, effects>>
    BY <1>1 DEF Around, Expire, Turn, Tick
  <2> QED
    BY <2>1 DEF ItemsInv, CallInv, Types, LocalsInv, EffectsInv, RawInv, VaultHoldsWhatWasTold
<1>2. CASE End
  <2>1. /\ pc' = "idle" /\ op' = NoOp /\ raw' = NoRaw /\ window' = "shut"
        /\ UNCHANGED <<items, late, told, effects>>
    BY <1>2 DEF End, Restart
  <2> QED
    BY <2>1 DEF ItemsInv, CallInv, Types, LocalsInv, EffectsInv, RawInv, VaultHoldsWhatWasTold
<1> QED
  BY <1>1, <1>2

\* At first users know what they can read.
LEMMA InitItems == ItemsInit => ItemsInv
<1> SUFFICES ASSUME ItemsInit PROVE ItemsInv
  OBVIOUS
<1>1. ConnectionInv /\ pc = "idle"
  BY InitInv DEF ItemsInit, ConnectionInit
<1>2. items \in [Ids -> Item]
  BY ItemsAssumption DEF ItemsInit
<1>3. ASSUME NEW id \in Ids, NEW f \in Fields
      PROVE  /\ told[id][f] \in Text \cup {Unknown}
             /\ told[id][f] # Unknown =>
                   IsLogin(items[id]) /\ decryptStr(items[id].enc[f]) = told[id][f]
  <2>1. told[id][f] = IF IsLogin(items[id]) /\ decryptStr(items[id].enc[f]) # Err
                      THEN decryptStr(items[id].enc[f]) ELSE Unknown
    BY DEF ItemsInit, Reading
  <2>2. IsLogin(items[id]) => decryptStr(items[id].enc[f]) \in Text \cup {Err}
    BY <1>2, ShownType DEF Item, IsLogin, Login
  <2> QED
    BY <2>1, <2>2
<1>4. told \in [Ids -> [Fields -> Text \cup {Unknown}]]
  BY <1>3 DEF ItemsInit, Reading
<1>5. VaultHoldsWhatWasTold
  BY <1>3 DEF VaultHoldsWhatWasTold
<1> QED
  BY <1>1, <1>2, <1>4, <1>5 DEF ItemsInit, ItemsInv, Types, LocalsInv, EffectsInv, RawInv

\* Every step keeps the invariant.
LEMMA NextItems == ItemsInv /\ [ItemsNext]_vault => ItemsInv'
<1> SUFFICES ASSUME ItemsInv, [ItemsNext]_vault PROVE ItemsInv'
  OBVIOUS
<1>1. ConnectionInv'
  BY StepOfConnection, NextInv DEF ItemsInv
<1>2. CallInv'
  <2>1. CASE UNCHANGED vault
    BY <2>1 DEF vault, ItemsInv, CallInv, Types, LocalsInv, EffectsInv, RawInv, VaultHoldsWhatWasTold
  <2> QED
    BY <2>1, CallToolKeeps, InBetweenKeeps, GetKeeps, WriteKeeps, LateWriteKeeps, EditKeeps,
       DeleteKeeps, AroundKeeps DEF ItemsNext
<1> QED
  BY <1>1, <1>2 DEF ItemsInv, CallInv

\* The invariant holds in every reachable state.
LEMMA Invariant == ItemsSpec => []ItemsInv
  BY InitItems, NextItems, PTL DEF ItemsSpec

\* Every reachable state is well typed (vault/item.go, server.go:97-101).
THEOREM ItemsTypes == ItemsSpec => []ItemsTypeOK
<1>1. ItemsInv => ItemsTypeOK
  BY DEF ItemsInv, ConnectionInv, Types, LocalsInv, ItemsTypeOK
<1> QED
  BY <1>1, Invariant, PTL

\* The operations use the connection as VaultConnection has it, so all that is proved
\* of it holds while items are read and written (server.go:142-160).
THEOREM ItemsUseTheConnection == ItemsSpec => ConnectionSpec
<1>1. ItemsInit => ConnectionInit
  BY DEF ItemsInit
<1> QED
  BY <1>1, StepOfConnection, PTL DEF ItemsSpec, ConnectionSpec

\* So logins are spaced, memory is fresh, refusals are of a token of one's own and
\* every call runs down, whatever the tools read and write (server.go:124-160).
THEOREM ItemsKeepTheConnection ==
    ItemsSpec => /\ BackoffHonoured /\ MemoryIsOfLastLogin
                 /\ RefusedOnlyAfterOwnLogin /\ CallsRunDown
  BY ItemsUseTheConnection, BackoffKept, MemoryKept, RefusalsAreFresh, CallsAreBounded, PTL

\* No call writes twice, whatever is refused, lost or late (server.go:142-160).
THEOREM WritesHappenOnce == ItemsSpec => []OncePerCall
<1>1. ItemsInv => OncePerCall
  BY DEF ItemsInv, EffectsInv, OncePerCall
<1> QED
  BY <1>1, Invariant, PTL

\* The vault holds what users were last told: acknowledged writes are there, and an
\* update keeps what it does not name (item.go:188-272).
THEOREM ToldIsHeld == ItemsSpec => []VaultHoldsWhatWasTold
<1>1. ItemsInv => VaultHoldsWhatWasTold
  BY DEF ItemsInv
<1> QED
  BY <1>1, Invariant, PTL

\* What an update leaves of the item it read.  Of the fields it does not name,
\* password and URIs stay as they are encrypted; name and username are decrypted and
\* encrypted anew, so one that can be read reads as before and one that cannot is
\* written back empty.  The rest survives only where there is none (item.go:209-261).
THEOREM WhatAnUpdateLeaves ==
    ASSUME NEW l \in Login, NEW args \in [Fields -> Text \cup {Keep}]
    PROVE  /\ \A f \in {"password", "uris"} :
                 args[f] = Keep => Updated(l, args).enc[f] = l.enc[f]
           /\ \A f \in {"name", "username"} :
                 args[f] = Keep =>
                     decryptStr(Updated(l, args).enc[f]) =
                         IF decryptStr(l.enc[f]) = Err THEN Empty ELSE decryptStr(l.enc[f])
           /\ Updated(l, args).rest = l.rest <=> l.rest = "none"
<1>1. ASSUME NEW f \in {"password", "uris"}, args[f] = Keep
      PROVE  Updated(l, args).enc[f] = l.enc[f]
  BY <1>1 DEF Updated, KeptUris, Fields
<1>2. ASSUME NEW f \in {"name", "username"}, args[f] = Keep
      PROVE  decryptStr(Updated(l, args).enc[f]) =
                 IF decryptStr(l.enc[f]) = Err THEN Empty ELSE decryptStr(l.enc[f])
  <2>1. l.enc[f] \in EncStr
    BY DEF Login, Fields
  <2>2. Updated(l, args).enc[f] = encryptStr(Shown(l.enc[f]), MyKey)
    BY <1>2 DEF Updated, Fields
  <2>3. decryptStr(encryptStr(Shown(l.enc[f]), MyKey)) = Shown(l.enc[f])
    BY <2>1, ShownType, EncryptType
  <2> QED
    BY <2>2, <2>3 DEF Shown
<1>3. Updated(l, args).rest = "none"
  BY DEF Updated
<1> QED
  BY <1>1, <1>2, <1>3

\* Search and Secret return what users were last told (item.go:39-106).
THEOREM ToldIsRead == ItemsSpec => ReadsAreWhatWasTold
<1> DEFINE AsTold ==
      /\ result'.kind = "metadata" =>
            \A id \in Ids : told[id]["name"] # Unknown =>
                \E m \in result'.items : m.id = id /\ m.name = told[id]["name"]
      /\ result'.kind = "secret" =>
            told[result'.id]["password"] \in {Unknown, result'.text}
<1>1. ItemsInv /\ [ItemsNext]_vault => [AsTold]_vault
  <2> SUFFICES ASSUME ItemsInv, ItemsNext PROVE AsTold
    OBVIOUS
  <2>1. CASE Search
    <3>1. result' = [kind |-> "metadata", items |-> Found]
      BY <2>1 DEF Search
    <3>2. ASSUME NEW id \in Ids, told[id]["name"] # Unknown
          PROVE  \E m \in Found : m.id = id /\ m.name = told[id]["name"]
      <4>1. /\ IsLogin(items[id])
            /\ decryptStr(items[id].enc["name"]) = told[id]["name"]
            /\ told[id]["name"] \in Text
        BY <3>2 DEF ItemsInv, VaultHoldsWhatWasTold, Types, Fields
      <4>2. told[id]["name"] # Err
        BY <4>1, EncStringAssumption DEF Text
      <4>3. ~Skipped(items[id]) /\ Shown(items[id].enc["name"]) = told[id]["name"]
        BY <4>1, <4>2 DEF Skipped, Shown
      <4> DEFINE m == [id |-> id, name |-> Shown(items[id].enc["name"]),
                       username |-> Shown(items[id].enc["username"]),
                       uris |-> Shown(items[id].enc["uris"])]
      <4>4. m \in Found
        BY <4>1, <4>3 DEF Found
      <4> QED
        BY <4>3, <4>4
    <3> QED
      BY <3>1, <3>2
  <2>2. CASE Secret
    <3>1. result' = [kind |-> "secret", id |-> op.id,
                     text |-> decryptStr(items[op.id].enc["password"])]
      BY <2>2 DEF Secret
    <3>2. op.id \in Ids
      <4>1. op # NoOp
        BY <2>2 DEF Secret, NoOp
      <4> QED
        BY <4>1, ItemsAssumption DEF ItemsInv, Types, Op
    <3>3. told[op.id]["password"] \in {Unknown, decryptStr(items[op.id].enc["password"])}
      BY <3>2 DEF ItemsInv, VaultHoldsWhatWasTold, Fields
    <3> QED
      BY <3>1, <3>3
  <2>3. CASE ~(Search \/ Secret)
    <3>1. result' = [kind |-> "nothing"]
      BY <2>3 DEF ItemsNext, CallTool, InBetween, Get, Write, WriteUnanswered, WriteDelayed,
                  LateWrite, EditElsewhere, DeleteElsewhere, Around, End, Nothing
    <3> QED
      BY <3>1
  <2> QED
    BY <2>1, <2>2, <2>3
<1> QED
  BY <1>1, Invariant, PTL DEF ItemsSpec, ReadsAreWhatWasTold
=============================================================================
