----------------------------- MODULE VaultItems -----------------------------
(***************************************************************************)
(* The items on the vault server and the operations of internal/vault/     *)
(* item.go on them, each through withVault (VaultConnection): a request is *)
(* one step of the server and of the answer, and every request but the     *)
(* last leaves the call waiting.  Meanwhile other clients of the vault     *)
(* edit and delete items, and a write whose answer was lost may land late. *)
(*                                                                         *)
(* The four encrypted fields of a login are kept; "rest" stands for what   *)
(* rawCipher does not read: notes, favorite, reprompt, custom fields, the  *)
(* TOTP seed and the match rule of each URI.  The URIs are one field.      *)
(***************************************************************************)
EXTENDS VaultConnection, EncString

CONSTANTS
    Ids,            \* ids of items
    MyKey,          \* the account's symmetric key
    Keep, Unknown,  \* an argument that was omitted, a text nobody was told
    Absent, Other,  \* an id not given yet; one of a note, a card, a deleted item
    NoRaw, NoLate,  \* no answer of a GET in hand, no write that is late
    FirstItems,     \* what the vault may hold at first
    Asks,           \* what clients ask for
    Edits           \* what users change in other clients of the vault

Fields == {"name", "username", "password", "uris"}
Login == [enc : [Fields -> EncStr], rest : {"some", "none"}]
Item == Login \cup {Absent, Other}
IsLogin(i) == i \notin {Absent, Other}
Tools == {"search", "secret", "add", "update"}
Op == [tool : Tools, id : Ids, args : [Fields -> Text \cup {Keep}]]

ASSUME ItemsAssumption ==
    /\ MyKey \in STRING
    /\ {Keep, Unknown} \cap Text = {} /\ Unknown # Err
    /\ Absent # Other /\ {Absent, Other, NoRaw} \cap Login = {}
    /\ FirstItems \subseteq [Ids -> Item]
    /\ Asks \subseteq Op
    /\ \A o \in Asks : o.tool = "add" => \A f \in Fields : o.args[f] # Keep
    \* An update's empty name, username or password is an omitted one (item.go:209-231).
    /\ \A o \in Asks : o.tool = "update" =>
          \A f \in {"name", "username", "password"} : o.args[f] # Empty
    /\ Edits \subseteq Fields \X Text

VARIABLES
    items,    \* what the server holds
    op,       \* the call whose handler is in withVault, or NoOp
    raw,      \* what the GET of Update returned, until its PUT is answered
    late,     \* a write given up by its caller and not performed yet, or NoLate
    result,   \* what this step returned to the handler
    told,     \* history: what users were last told that an item holds
    window,   \* history: whether an attempt of Update is between GET and PUT
    effects   \* history: writes of the last call that took effect, or still may

vault == <<world, client, memory, errAge, pc, attempt, answer, lastLogin, quiet,
           origin, items, op, raw, late, result, told, window, effects>>

Nothing == [kind |-> "nothing"]
NoArguments == [f \in Fields |-> Keep]
NoOp == [tool |-> "none", id |-> Absent, args |-> NoArguments]

decryptStr(s) == decryptEncString(s, MyKey)
Shown(s) == IF decryptStr(s) = Err THEN Empty ELSE decryptStr(s)

\* Mutants: of Reread, the attempt after a 401 goes on with what the first one
\* read; of KeptUris, URIs that are not named are not written; of Skipped,
\* Search skips items with any field it cannot read.
RereadNot(r) == r
KeptUrisForgotten(s) == EmptyEnc(MyKey)
SkippedAny(l) == \E f \in Fields : decryptStr(l.enc[f]) = Err

Reread(r) == NoRaw
KeptUris(s) == s
Skipped(l) == decryptStr(l.enc["name"]) = Err

\* The metadata Search returns for the empty query, which matches every item.
Found == {[id |-> id, name |-> Shown(items[id].enc["name"]),
           username |-> Shown(items[id].enc["username"]),
           uris |-> Shown(items[id].enc["uris"])] :
              id \in {i \in Ids : IsLogin(items[i]) /\ ~Skipped(items[i])}}

\* The body of the POST of Add ...
Created(args) ==
    [enc |-> [f \in Fields |-> encryptStr(args[f], MyKey)], rest |-> "none"]

\* ... and of the PUT of Update.
Updated(l, args) ==
    [enc |-> [f \in Fields |->
        IF args[f] # Keep THEN encryptStr(args[f], MyKey)
        ELSE IF f \in {"name", "username"} THEN encryptStr(Shown(l.enc[f]), MyKey)
        ELSE IF f = "uris" THEN KeptUris(l.enc[f])
        ELSE l.enc[f]],
     rest |-> "none"]

\* What a user knows of an item: by reading it, and after an update was accepted
\* or ended without an answer.
Reading(i) ==
    [f \in Fields |-> IF IsLogin(i) /\ decryptStr(i.enc[f]) # Err
                      THEN decryptStr(i.enc[f]) ELSE Unknown]
Accepted(known, args) == [f \in Fields |-> IF args[f] # Keep THEN args[f] ELSE known[f]]
Doubted(known, args) == [f \in Fields |-> IF args[f] # Keep THEN Unknown ELSE known[f]]
NothingKnown == [f \in Fields |-> Unknown]

ItemsInit ==
    /\ ConnectionInit
    /\ items \in FirstItems
    /\ op = NoOp /\ raw = NoRaw /\ late = NoLate /\ result = Nothing
    /\ told = [id \in Ids |-> Reading(items[id])]
    /\ window = "shut" /\ effects = 0

\* What a step of withVault does to the locals of the operation: they are gone
\* when the call ends, and an attempt starts anew.
Locals ==
    /\ op' = IF pc' = "idle" THEN NoOp ELSE op
    /\ raw' = IF pc' = "idle" THEN NoRaw ELSE Reread(raw)
    /\ window' = "shut"

\* vault_search, vault_copy or vault_seal, vault_add, vault_update.
CallTool ==
    \E o \in Asks :
        /\ Call
        /\ op' = o /\ effects' = 0
        /\ result' = Nothing
        /\ UNCHANGED <<items, raw, late, told, window>>

\* The steps of withVault that leave the items alone: getting the client, a login,
\* a 401, a request lost on its way, and one the server does not accept.
InBetween ==
    /\ \/ GetClient \/ Prelogin \/ LoginOk \/ LoginFails
       \/ RefusedOnce \/ RefusedAgain \/ Failed \/ Rejected
    /\ Locals
    /\ result' = Nothing
    /\ UNCHANGED <<items, late, told, effects>>

Search ==
    /\ op.tool = "search"
    /\ Served /\ Locals
    /\ result' = [kind |-> "metadata", items |-> Found]
    /\ UNCHANGED <<items, late, told, effects>>

Secret ==
    /\ op.tool = "secret"
    /\ IsLogin(items[op.id])
    /\ decryptStr(items[op.id].enc["password"]) # Err
    /\ Served /\ Locals
    /\ result' = [kind |-> "secret", id |-> op.id,
                  text |-> decryptStr(items[op.id].enc["password"])]
    /\ UNCHANGED <<items, late, told, effects>>

\* The GET of Update is answered.
Get ==
    /\ op.tool = "update" /\ raw = NoRaw
    /\ pc = "asking" /\ client = "honoured"
    /\ IsLogin(items[op.id])
    /\ raw' = items[op.id] /\ window' = "open"
    /\ result' = Nothing
    /\ UNCHANGED connection /\ UNCHANGED <<items, op, late, told, effects>>

Writes == op.tool = "add" \/ (op.tool = "update" /\ raw # NoRaw)
Body == IF op.tool = "add" THEN Created(op.args) ELSE Updated(raw, op.args)

\* Where a write goes: to a new id, or to the item if there still is one.
Goal == IF op.tool = "add" THEN {id \in Ids : items[id] = Absent}
        ELSE {id \in {op.id} : IsLogin(items[id])}

\* The server performs the POST of Add or the PUT of Update, and says so ...
Write ==
    /\ Writes
    /\ Served
    /\ \E id \in Goal :
          /\ items' = [items EXCEPT ![id] = Body]
          /\ told' = [told EXCEPT ![id] = Accepted(told[id], op.args)]
    /\ effects' = effects + 1
    /\ Locals
    /\ result' = Nothing /\ UNCHANGED late

\* ... or the answer does not arrive ...
WriteUnanswered ==
    /\ Writes /\ client = "honoured"
    /\ Failed
    /\ \E id \in Goal :
          /\ items' = [items EXCEPT ![id] = Body]
          /\ told' = [told EXCEPT ![id] = Doubted(told[id], op.args)]
    /\ effects' = effects + 1
    /\ Locals
    /\ result' = Nothing /\ UNCHANGED late

\* ... or the request itself is on its way for longer than its caller waits.
WriteDelayed ==
    /\ Writes /\ client = "honoured" /\ late = NoLate
    /\ Failed
    /\ late' = [id |-> IF op.tool = "add" THEN Absent ELSE op.id, body |-> Body]
    /\ effects' = effects + 1
    /\ Locals
    /\ result' = Nothing /\ UNCHANGED <<items, told>>

LateWrite ==
    /\ late # NoLate /\ late' = NoLate
    /\ \E id \in Ids :
          /\ IF late.id = Absent THEN items[id] = Absent ELSE id = late.id
          /\ IF late.id # Absent /\ ~IsLogin(items[id])
             THEN UNCHANGED <<items, told>>
             ELSE /\ items' = [items EXCEPT ![id] = late.body]
                  /\ told' = [told EXCEPT ![id] = NothingKnown]
    /\ result' = Nothing
    /\ UNCHANGED connection /\ UNCHANGED <<op, raw, window, effects>>

\* A user edits a field elsewhere; what an open update has read is then old, and
\* nobody can tell which of the two will stay.
EditElsewhere ==
    /\ \E id \in Ids, e \in Edits :
          /\ IsLogin(items[id])
          /\ items' = [items EXCEPT ![id] =
                [enc |-> [items[id].enc EXCEPT ![e[1]] = encryptStr(e[2], MyKey)],
                 rest |-> items[id].rest]]
          /\ told' = [told EXCEPT ![id] = [told[id] EXCEPT ![e[1]] =
                IF window = "open" /\ op.id = id THEN Unknown ELSE e[2]]]
    /\ result' = Nothing
    /\ UNCHANGED connection /\ UNCHANGED <<op, raw, late, window, effects>>

DeleteElsewhere ==
    /\ \E id \in Ids :
          /\ IsLogin(items[id])
          /\ items' = [items EXCEPT ![id] = Other]
          /\ told' = [told EXCEPT ![id] = NothingKnown]
    /\ result' = Nothing
    /\ UNCHANGED connection /\ UNCHANGED <<op, raw, late, window, effects>>

Around ==
    /\ Expire \/ Turn \/ Tick
    /\ result' = Nothing
    /\ UNCHANGED <<items, op, raw, late, told, window, effects>>

End ==
    /\ Restart
    /\ op' = NoOp /\ raw' = NoRaw /\ window' = "shut" /\ result' = Nothing
    /\ UNCHANGED <<items, late, told, effects>>

ItemsNext ==
    \/ CallTool \/ InBetween \/ Search \/ Secret
    \/ Get \/ Write \/ WriteUnanswered \/ WriteDelayed
    \/ LateWrite \/ EditElsewhere \/ DeleteElsewhere
    \/ Around \/ End

ItemsSpec == ItemsInit /\ [][ItemsNext]_vault

(***************************************************************************)
(* Properties.                                                             *)
(***************************************************************************)

\* Types, and which locals a call has where.
ItemsTypeOK ==
    /\ ConnectionTypeOK
    /\ items \in [Ids -> Item]
    /\ op \in Asks \cup {NoOp} /\ (op = NoOp <=> pc = "idle")
    /\ raw \in Login \cup {NoRaw}
    /\ raw # NoRaw => op.tool = "update" /\ pc = "asking"
    /\ late = NoLate \/ late \in [id : Ids \cup {Absent}, body : Login]
    /\ told \in [Ids -> [Fields -> Text \cup {Unknown}]]
    /\ window \in {"open", "shut"}
    /\ effects \in Nat

\* A call writes at most once, whatever is refused, lost or late: the retry after
\* a 401 never adds an item twice (server.go:142-160).
OncePerCall == effects <= 1

\* An item holds what users were last told of it: an acknowledged add or update is
\* in the vault, and what an update does not name stays, whatever was retried and
\* whichever texts fill their blocks (item.go:188-272).
VaultHoldsWhatWasTold ==
    \A id \in Ids, f \in Fields :
        told[id][f] # Unknown =>
            /\ IsLogin(items[id])
            /\ decryptStr(items[id].enc[f]) = told[id][f]

\* A search shows every item whose name users were told, under that name, and a
\* copied password is the one they were last told (item.go:39-106).
ReadsAreWhatWasTold ==
    [][/\ result'.kind = "metadata" =>
            \A id \in Ids : told[id]["name"] # Unknown =>
                \E m \in result'.items : m.id = id /\ m.name = told[id]["name"]
       /\ result'.kind = "secret" =>
            told[result'.id]["password"] \in {Unknown, result'.text}]_vault

\* An update leaves what it does not name as it is (item.go:196, server.go:350).
UpdateKeepsTheRest ==
    [][\A id \in Ids : IsLogin(items[id]) /\ IsLogin(items'[id]) =>
          items'[id].rest = items[id].rest]_vault
=============================================================================
