--------------------------- MODULE SealedDelivery ---------------------------
(***************************************************************************)
(* The two tools that hand a vault secret to a consumer MCP without the    *)
(* caller seeing it (internal/mcp/sealed.go): request_authorization checks *)
(* the registry, asks the user when the consumer's mode requires it and    *)
(* issues a token; vault_seal verifies the consumer's bundle, consumes the *)
(* token, fetches the item and seals it to the bundle's session key.       *)
(*                                                                         *)
(* One process, whose request loop runs one handler at a time.  A handler  *)
(* is cut where it blocks: at the user's prompt and at the vault fetch.    *)
(* There the clock moves, the user edits the registry file and the process *)
(* may die.  The caller chooses every argument: any token ever issued or   *)
(* never issued, any bundle.                                               *)
(***************************************************************************)
EXTENDS Registry, Authz

CONSTANTS
    Files,                             \* contents registry.yaml takes
    AskedTTLs, AskedBoxTTLs,           \* ttl_seconds and box_ttl_seconds asked
    DefaultAuthzTTL, MaxAuthzTTL,
    DefaultBoxTTL, MaxBoxTTL,
    MaxNow                             \* bound on the clock

ASSUME DeliveryAssumption ==
    /\ Files \subseteq RawFile \cup {Unreadable}
    /\ AskedTTLs \subseteq Int /\ AskedBoxTTLs \subseteq Int
    /\ DefaultAuthzTTL \in Nat \ {0} /\ MaxAuthzTTL \in Nat \ {0}
    /\ DefaultBoxTTL \in Nat \ {0} /\ MaxBoxTTL \in Nat \ {0}
    /\ MaxNow \in Nat

VARIABLES
    now,        \* the clock
    file,       \* registry.yaml, edited by the user
    reg,        \* defaultReg, the registry as this process cached it
    store,      \* defaultAuthzStore
    call,       \* the handler that is blocked, or Idle
    reply,      \* what this step answered, "none" if it answered nothing
    boxes,      \* every sealed box handed out, with the request it answers
    grants,     \* history: every token issued, with the registry it was judged by
    presented,  \* history: the issued tokens Consume was called with
    lastIssue   \* history: when the last token was issued

vars == <<now, file, reg, store, call, reply, boxes, grants, presented, lastIssue>>
history == <<grants, presented, lastIssue>>

Idle == [op |-> "idle"]
PromptCall == [op : {"prompt"}, item : Items, consumer : Consumers,
               purpose : Purposes, ttl : 1..MaxAuthzTTL]
FetchCall == [op : {"fetch"}, token : Tokens, item : Items, consumer : Consumers,
              purpose : Purposes, key : Keys, boxTTL : 1..MaxBoxTTL]
Box == [token : Tokens, item : Items, consumer : Consumers, purpose : Purposes,
        key : Keys, expiresAt : Nat]
GrantRecord == [token : Tokens, item : Items, consumer : Consumers,
                purpose : Purposes, mode : Modes, approvedBy : {"user", "nobody"},
                key : Keys, issuedAt : Nat, expiresAt : Nat]
Replies == {"none", "bad_arguments", "registry_unavailable", "biometric_failed",
            "issue_failed", "token", "bundle_refused", "key_mismatch",
            "token_not_found", "token_expired", "token_mismatch",
            "vault_error", "seal_failed", "box"} \cup Denials

Bundle == [consumer : Consumers, key : Keys, verifies : BOOLEAN]

Granted == {g.token : g \in grants}

Init ==
    /\ now = 0
    /\ file \in Files
    /\ reg = NoRegistry
    /\ store = {}
    /\ call = Idle
    /\ reply = "none"
    /\ boxes = {}
    /\ grants = {}
    /\ presented = {}
    /\ lastIssue = 0

(***************************************************************************)
(* Shared by both handlers.                                                *)
(***************************************************************************)

\* Mutants of LoadRegistry: the file is read again on every call, or was to be
\* read when the process started.
LoadRegistryEveryCall(cached, f) == Load(f)
LoadRegistryAtStart(cached, f) == cached

\* loadRegistry: the cached registry, else what the file gives; only a
\* success is cached, an error is tried again by the next call.
LoadRegistry(cached, f) == IF cached # NoRegistry THEN cached ELSE Load(f)

\* The two early returns before any state is touched: arguments that do not
\* parse, and a required one that is empty.
BadArguments ==
    /\ call = Idle
    /\ reply' = "bad_arguments"
    /\ UNCHANGED history /\ UNCHANGED <<now, file, reg, store, call, boxes>>

Refuse(answer) ==
    /\ reply' = answer
    /\ call' = Idle
    /\ UNCHANGED <<store, boxes>>

(***************************************************************************)
(* request_authorization.                                                  *)
(***************************************************************************)

\* Store.Issue under a fresh token, and the answer that carries it.  rand.Read
\* may fail, before anything is swept.
IssueToken(r, i, c, p, ttl, approver) ==
    \/ /\ \E tok \in Tokens \ Granted :
            /\ store' = Issue(store, tok, i, c, p, ttl, now)
            /\ grants' = grants \cup
                 {[token |-> tok, item |-> i, consumer |-> c, purpose |-> p,
                   mode |-> r[c].approvalMode, approvedBy |-> approver,
                   key |-> r[c].identityPubKey,
                   issuedAt |-> now, expiresAt |-> now + ttl]}
       /\ lastIssue' = now
       /\ reply' = "token"
       /\ call' = Idle
       /\ UNCHANGED <<boxes, presented>>
    \/ Refuse("issue_failed") /\ UNCHANGED history

NeedsUnlock(mode) == mode = "required"

\* handleRequestAuthorization up to its answer, or up to the user's prompt.
RequestAuthorization(i, c, p, asked) ==
    LET ttl == clamp(asked, DefaultAuthzTTL, MaxAuthzTTL)
        r == LoadRegistry(reg, file)
        decision == CheckACL(r, c, i, p)
    IN
    /\ call = Idle
    /\ reg' = r
    /\ UNCHANGED <<now, file>>
    /\ \/ /\ r = NoRegistry
          /\ Refuse("registry_unavailable") /\ UNCHANGED history
       \/ /\ r # NoRegistry /\ decision \in Denials
          /\ Refuse(decision) /\ UNCHANGED history
       \/ /\ r # NoRegistry /\ decision \in Modes /\ NeedsUnlock(decision)
          /\ call' = [op |-> "prompt", item |-> i, consumer |-> c,
                      purpose |-> p, ttl |-> ttl]
          /\ reply' = "none"
          /\ UNCHANGED history /\ UNCHANGED <<store, boxes>>
       \/ /\ r # NoRegistry /\ decision \in Modes /\ ~NeedsUnlock(decision)
          /\ IssueToken(r, i, c, p, ttl, "nobody")

\* biometric.Unlock returns: the user approved ...
Approve ==
    /\ call.op = "prompt"
    /\ IssueToken(reg, call.item, call.consumer, call.purpose, call.ttl, "user")
    /\ UNCHANGED <<now, file, reg>>

\* ... or declined, or the prompt failed.
Decline ==
    /\ call.op = "prompt"
    /\ Refuse("biometric_failed")
    /\ UNCHANGED history /\ UNCHANGED <<now, file, reg>>

(***************************************************************************)
(* vault_seal.                                                             *)
(***************************************************************************)

\* Mutant of BundleVerdict: the identity key is not compared.
BundleVerdictByName(r, b) ==
    IF r = NoRegistry THEN "registry_unavailable"
    ELSE IF ~Registered(r, b.consumer) THEN "consumer_not_found" ELSE "ok"

\* The registry's part of the bundle check: the answer, or "ok".
BundleVerdict(r, b) ==
    IF r = NoRegistry THEN "registry_unavailable"
    ELSE IF ~Registered(r, b.consumer) THEN "consumer_not_found"
    ELSE IF r[b.consumer].identityPubKey # b.key THEN "key_mismatch"
    ELSE "ok"

\* handleVaultSeal up to its answer, or up to the vault fetch.
VaultSeal(tok, i, b, p, askedBox) ==
    LET r == LoadRegistry(reg, file)
        known == BundleVerdict(r, b)
        verdict == Verdict(store, tok, i, b.consumer, p, now)
    IN
    /\ call = Idle
    /\ UNCHANGED <<now, file, boxes, grants, lastIssue>>
    /\ \/ /\ ~b.verifies
          /\ Refuse("bundle_refused") /\ UNCHANGED <<reg, presented>>
       \/ /\ b.verifies /\ known # "ok"
          /\ reg' = r
          /\ Refuse(known) /\ UNCHANGED presented
       \/ /\ b.verifies /\ known = "ok"
          /\ reg' = r
          /\ store' = Consumed(store, tok, verdict)
          /\ presented' = presented \cup ({tok} \cap Granted)
          /\ IF verdict = "ok"
             THEN /\ call' = [op |-> "fetch", token |-> tok, item |-> i,
                              consumer |-> b.consumer, purpose |-> p, key |-> b.key,
                              boxTTL |-> clamp(askedBox, DefaultBoxTTL, MaxBoxTTL)]
                  /\ reply' = "none"
             ELSE call' = Idle /\ reply' = verdict

\* The item is fetched and sealed; the box's lifetime starts here.
Fetched ==
    /\ call.op = "fetch"
    /\ boxes' = boxes \cup
         {[token |-> call.token, item |-> call.item, consumer |-> call.consumer,
           purpose |-> call.purpose, key |-> call.key,
           expiresAt |-> now + call.boxTTL]}
    /\ reply' = "box"
    /\ call' = Idle
    /\ UNCHANGED history /\ UNCHANGED <<now, file, reg, store>>

\* withVault, randomHex or the sealing fails: the token is gone all the same.
FetchFailed ==
    /\ call.op = "fetch"
    /\ Refuse("vault_error") \/ Refuse("seal_failed")
    /\ UNCHANGED history /\ UNCHANGED <<now, file, reg>>

(***************************************************************************)
(* Around the process.                                                     *)
(***************************************************************************)
Tick ==
    /\ now < MaxNow
    /\ now' = now + 1
    /\ reply' = "none"
    /\ UNCHANGED history /\ UNCHANGED <<file, reg, store, call, boxes>>

EditRegistry ==
    /\ file' \in Files \ {file}
    /\ reply' = "none"
    /\ UNCHANGED history /\ UNCHANGED <<now, reg, store, call, boxes>>

\* The process ends, in a handler or between two, and a new one starts.
Restart ==
    /\ reg' = NoRegistry
    /\ store' = {}
    /\ call' = Idle
    /\ reply' = "none"
    /\ UNCHANGED history /\ UNCHANGED <<now, file, boxes>>

Next ==
    \/ BadArguments
    \/ \E i \in Items, c \in Consumers, p \in Purposes, t \in AskedTTLs :
         RequestAuthorization(i, c, p, t)
    \/ Approve
    \/ Decline
    \/ \E tok \in Tokens, i \in Items, b \in Bundle, p \in Purposes, t \in AskedBoxTTLs :
         VaultSeal(tok, i, b, p, t)
    \/ Fetched
    \/ FetchFailed
    \/ Tick
    \/ EditRegistry
    \/ Restart

Spec == Init /\ [][Next]_vars

(***************************************************************************)
(* Properties.                                                             *)
(***************************************************************************)

\* Types, and that what a blocked handler holds of a lifetime is neither unset nor
\* above its maximum (internal/mcp/sealed.go:30-35, 206-213, internal/authz/authz.go:17-29).
TypeOK ==
    /\ now \in Nat /\ lastIssue \in Nat
    /\ file \in Files
    /\ reg \in LoadedRegistry \cup {NoRegistry}
    /\ store \subseteq Entry(Items, Consumers, Purposes)
    /\ call \in {Idle} \cup PromptCall \cup FetchCall
    /\ reply \in Replies
    /\ boxes \subseteq Box
    /\ grants \subseteq GrantRecord
    /\ presented \subseteq Tokens

\* A token that can still be used was allowed by the very registry this process
\* holds now, and where that registry requires approval the user gave it: no
\* edit of the file, reload or restart leaves a token that outlives its grounds.
LiveTokensAuthorized ==
    \A e \in store :
        /\ reg # NoRegistry
        /\ CheckACL(reg, e.consumerID, e.itemID, e.purpose) \in Modes
        /\ reg[e.consumerID].approvalMode = "required" =>
             \E g \in grants : g.token = e.token /\ g.approvedBy = "user"

\* A box answers a grant for the same item, consumer and purpose, approved by
\* the user if the mode required it, and is addressed by a bundle under the
\* identity key that the registry listed when the grant was made.
BoxesBacked ==
    \A b \in boxes : \E g \in grants :
        /\ g.token = b.token /\ g.item = b.item
        /\ g.consumer = b.consumer /\ g.purpose = b.purpose
        /\ g.key = b.key
        /\ g.mode = "required" => g.approvedBy = "user"

\* One authorization, one box: a token never pays for two boxes, whatever is
\* retried, restarted or fails in between (sealed.go:167).
OneBoxPerToken ==
    \A b1, b2 \in boxes : b1.token = b2.token => b1 = b2

\* A token that was shown to Consume once is dead, also when it was shown with
\* the wrong item, consumer or purpose, or too late (authz.go:64-71).
PresentedTokensDead == TokensOf(store) \cap presented = {}

\* Tokens nobody consumes do not pile up: whatever the store holds outlived the
\* last Issue (authz.go:47-53).
NoExpiredBacklog == \A e \in store : e.expiresAt >= lastIssue

\* A vault fetch is only started under a grant that has not run out, and never
\* longer than the maximum after it, whatever lifetime was asked
\* (sealed.go:90, authz.go:77-79).
InTime(g) == now <= g.expiresAt /\ now <= g.issuedAt + MaxAuthzTTL
RedeemedInTime ==
    [][call = Idle /\ call'.op = "fetch" =>
         \E g \in grants : g.token = call'.token /\ InTime(g)]_vars

\* "registry_unavailable" is only ever said of the file as it is now: an earlier
\* error is not cached, and repairing the file needs no restart (sealed.go:37-40).
RegistryErrorsNotCached ==
    [][reply' = "registry_unavailable" => Load(file) = NoRegistry]_vars

\* The mapping to the abstract ledger: the store is what is open, a blocked
\* vault_seal is what is redeemed, the boxes are what was delivered.
LedgerGrant == [token : Tokens, item : Items, consumer : Consumers, purpose : Purposes]
LedgerEntry(t, i, c, p) == [token |-> t, item |-> i, consumer |-> c, purpose |-> p]
OpenGrants == {LedgerEntry(e.token, e.itemID, e.consumerID, e.purpose) : e \in store}
RedeemedGrants ==
    IF call.op = "fetch"
    THEN {LedgerEntry(call.token, call.item, call.consumer, call.purpose)}
    ELSE {}
DeliveredGrants == {LedgerEntry(b.token, b.item, b.consumer, b.purpose) : b \in boxes}

Ledger == INSTANCE ApprovalLedger WITH
    Grants <- LedgerGrant, open <- OpenGrants, redeemed <- RedeemedGrants,
    delivered <- DeliveredGrants, used <- Granted

\* Sealed delivery implements the ledger: nothing is delivered that was not
\* granted, redeemed and delivered once, in that order.
ImplementsLedger == Ledger!LedgerSpec
=============================================================================
