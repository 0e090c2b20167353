----------------------- MODULE SealedDelivery_proofs -----------------------
(***************************************************************************)
(* The properties of SealedDelivery for any registry files, any number of  *)
(* tokens, items and consumers, and any TTLs.                              *)
(***************************************************************************)
EXTENDS SealedDelivery, TLAPS

(***************************************************************************)
(* What the operators of Registry and Authz return.                        *)
(***************************************************************************)

\* A file gives a well-formed registry or none (registry.go:53-82).
LEMMA LoadType ==
  ASSUME NEW f \in Files
  PROVE  Load(f) \in LoadedRegistry \cup {NoRegistry}
<1>1. CASE f = Unreadable
  BY <1>1 DEF Load
<1>2. CASE f # Unreadable
  <2>1. f \in RawFile
    BY <1>2, DeliveryAssumption
  <2>2. CASE \E c \in Consumers : Registered(f, c) /\ f[c].identityPubKey = BadHex
    BY <2>2 DEF Load
  <2>3. CASE ~\E c \in Consumers : Registered(f, c) /\ f[c].identityPubKey = BadHex
    <3>1. ASSUME NEW c \in Consumers
          PROVE  Resolve(f[c]) \in ConsumerConfig \cup {Absent}
      <4>1. f[c] \in RawConsumer \cup {Absent}
        BY <2>1 DEF RawFile
      <4>2. CASE f[c] = Absent
        BY <4>2 DEF Resolve
      <4>3. CASE f[c] # Absent
        <5>1. f[c] \in RawConsumer /\ f[c].identityPubKey \in Keys
          BY <4>1, <4>3, <2>3 DEF Registered, RawConsumer
        <5>2. DefaultMode(f[c].approvalMode) \in Modes
          BY <5>1 DEF DefaultMode, RawConsumer, RawModes, Modes
        <5> QED
          BY <5>1, <5>2, <4>3 DEF Resolve, RawConsumer, ConsumerConfig
      <4> QED
        BY <4>2, <4>3
    <3> QED
      BY <3>1, <2>3, <1>2 DEF Load, LoadedRegistry
  <2> QED
    BY <2>2, <2>3
<1> QED
  BY <1>1, <1>2

\* What a handler works with is the cached registry, or a well-formed new one.
LEMMA LoadRegistryType ==
  ASSUME TypeOK
  PROVE  /\ LoadRegistry(reg, file) \in LoadedRegistry \cup {NoRegistry}
         /\ reg # NoRegistry => LoadRegistry(reg, file) = reg
  BY LoadType DEF TypeOK, LoadRegistry

\* An answer of CheckACL that is a mode is the mode of a consumer it found.
LEMMA CheckACLMode ==
  ASSUME NEW r \in LoadedRegistry, NEW c \in Consumers, NEW i, NEW p,
         CheckACL(r, c, i, p) \in Modes
  PROVE  /\ r[c] \in ConsumerConfig
         /\ CheckACL(r, c, i, p) = r[c].approvalMode
<1>1. CheckACL(r, c, i, p) \notin Denials
  BY DEF Modes, Denials
<1> QED
  BY <1>1 DEF CheckACL, Denials, Registered, LoadedRegistry

\* A clamped TTL is neither zero nor above the maximum (sealed.go:206-213).
LEMMA ClampType ==
  ASSUME NEW v \in Int, NEW default \in Nat \ {0}, NEW max \in Nat \ {0}
  PROVE  clamp(v, default, max) \in 1..max
  BY DEF clamp

\* Consume says "ok" only to a token that is held, bound as asked and in time
\* (authz.go:74-83).
LEMMA VerdictOK ==
  ASSUME NEW tok, NEW i, NEW c, NEW p, Verdict(store, tok, i, c, p, now) = "ok"
  PROVE  \E e \in store : e.token = tok /\ ~Expired(e, now) /\ Bound(e, i, c, p)
  BY DEF Verdict

(***************************************************************************)
(* Types.                                                                  *)
(***************************************************************************)
LEMMA InitType == Init => TypeOK
  BY DEF Init, TypeOK, Replies

LEMMA IssueType ==
  ASSUME TypeOK, NEW r \in LoadedRegistry, NEW i \in Items, NEW c \in Consumers,
         NEW p \in Purposes, NEW ttl \in Nat, NEW approver \in {"user", "nobody"},
         r[c] \in ConsumerConfig,
         IssueToken(r, i, c, p, ttl, approver), now' = now
  PROVE  /\ store' \subseteq Entry(Items, Consumers, Purposes)
         /\ grants' \subseteq GrantRecord
         /\ call' = Idle /\ reply' \in Replies /\ lastIssue' \in Nat
         /\ UNCHANGED <<boxes, presented>>
<1>1. CASE Refuse("issue_failed") /\ UNCHANGED history
  BY <1>1 DEF Refuse, history, Replies, TypeOK
<1>2. CASE ~(Refuse("issue_failed") /\ UNCHANGED history)
  <2>1. PICK tok \in Tokens \ Granted :
          /\ store' = Issue(store, tok, i, c, p, ttl, now)
          /\ grants' = grants \cup
               {[token |-> tok, item |-> i, consumer |-> c, purpose |-> p,
                 mode |-> r[c].approvalMode, approvedBy |-> approver,
                 key |-> r[c].identityPubKey,
                 issuedAt |-> now, expiresAt |-> now + ttl]}
    BY <1>2 DEF IssueToken
  <2>2. lastIssue' = now /\ reply' = "token" /\ call' = Idle /\ UNCHANGED <<boxes, presented>>
    BY <1>2 DEF IssueToken
  <2>3. store' \subseteq Entry(Items, Consumers, Purposes)
    BY <2>1 DEF Issue, Swept, Entry, TypeOK
  <2>4. grants' \subseteq GrantRecord
    BY <2>1 DEF GrantRecord, ConsumerConfig, TypeOK
  <2> QED
    BY <2>2, <2>3, <2>4 DEF Replies, TypeOK
<1> QED
  BY <1>1, <1>2

\* While the user is asked, the cached registry is the one that requires it.
PromptOK ==
    call.op = "prompt" =>
        /\ reg # NoRegistry
        /\ CheckACL(reg, call.consumer, call.item, call.purpose) = "required"

\* Both handlers, the prompt, the fetch and the environment keep the types.
LEMMA NextType == TypeOK /\ PromptOK /\ [Next]_vars => TypeOK'
<1> SUFFICES ASSUME TypeOK, PromptOK, [Next]_vars
             PROVE  TypeOK'
  OBVIOUS
<1>1. CASE BadArguments
  BY <1>1 DEF BadArguments, TypeOK, Replies, history
<1>2. ASSUME NEW i \in Items, NEW c \in Consumers, NEW p \in Purposes,
             NEW t \in AskedTTLs, RequestAuthorization(i, c, p, t)
      PROVE  TypeOK'
  <2> DEFINE ttl == clamp(t, DefaultAuthzTTL, MaxAuthzTTL)
             r == LoadRegistry(reg, file)
             decision == CheckACL(r, c, i, p)
  <2>1. ttl \in 1..MaxAuthzTTL /\ ttl \in Nat
    BY ClampType, DeliveryAssumption
  <2>2. reg' \in LoadedRegistry \cup {NoRegistry} /\ reg' = r /\ UNCHANGED <<now, file>>
    BY <1>2, LoadRegistryType DEF RequestAuthorization
  <2>3. CASE Refuse("registry_unavailable") /\ UNCHANGED history
    BY <2>2, <2>3 DEF Refuse, history, TypeOK, Replies
  <2>4. CASE decision \in Denials /\ Refuse(decision) /\ UNCHANGED history
    BY <2>2, <2>4 DEF Refuse, history, TypeOK, Replies
  <2>5. CASE /\ call' = [op |-> "prompt", item |-> i, consumer |-> c,
                         purpose |-> p, ttl |-> ttl]
             /\ reply' = "none"
             /\ UNCHANGED <<store, boxes>> /\ UNCHANGED history
    <3>1. call' \in PromptCall
      BY <2>1, <2>5 DEF PromptCall
    <3> QED
      BY <2>2, <2>5, <3>1 DEF history, TypeOK, Replies
  <2>6. CASE /\ r # NoRegistry /\ decision \in Modes
             /\ IssueToken(r, i, c, p, ttl, "nobody")
    <3>1. r \in LoadedRegistry
      BY <2>2, <2>6
    <3>2. r[c] \in ConsumerConfig
      BY <2>6, <3>1, CheckACLMode
    <3>3. /\ store' \subseteq Entry(Items, Consumers, Purposes)
          /\ grants' \subseteq GrantRecord
          /\ call' = Idle /\ reply' \in Replies /\ lastIssue' \in Nat
          /\ UNCHANGED <<boxes, presented>>
      BY <2>1, <2>2, <2>6, <3>1, <3>2, IssueType
    <3> QED
      BY <2>2, <3>3 DEF TypeOK
  <2> QED
    BY <1>2, <2>3, <2>4, <2>5, <2>6 DEF RequestAuthorization
<1>3. CASE Approve
  <2>1. /\ call \in PromptCall /\ reg \in LoadedRegistry
        /\ CheckACL(reg, call.consumer, call.item, call.purpose) \in Modes
    BY <1>3 DEF Approve, TypeOK, PromptOK, Idle, PromptCall, FetchCall, Modes
  <2>2. reg[call.consumer] \in ConsumerConfig
    BY <2>1, CheckACLMode DEF PromptCall
  <2>3. /\ call.item \in Items /\ call.consumer \in Consumers
        /\ call.purpose \in Purposes /\ call.ttl \in Nat
    BY <2>1, DeliveryAssumption DEF PromptCall
  <2>4. /\ store' \subseteq Entry(Items, Consumers, Purposes)
        /\ grants' \subseteq GrantRecord
        /\ call' = Idle /\ reply' \in Replies /\ lastIssue' \in Nat
        /\ UNCHANGED <<boxes, presented>>
    BY <1>3, <2>1, <2>2, <2>3, IssueType DEF Approve
  <2> QED
    BY <1>3, <2>4 DEF Approve, TypeOK
<1>4. CASE Decline
  BY <1>4 DEF Decline, Refuse, history, TypeOK, Replies
<1>5. ASSUME NEW tok \in Tokens, NEW i \in Items, NEW b \in Bundle, NEW p \in Purposes,
             NEW t \in AskedBoxTTLs, VaultSeal(tok, i, b, p, t)
      PROVE  TypeOK'
  <2> DEFINE boxTTL == clamp(t, DefaultBoxTTL, MaxBoxTTL)
             verdict == Verdict(store, tok, i, b.consumer, p, now)
             known == BundleVerdict(LoadRegistry(reg, file), b)
  <2>1. boxTTL \in 1..MaxBoxTTL
    BY ClampType, DeliveryAssumption
  <2>2. reg' \in LoadedRegistry \cup {NoRegistry}
    BY <1>5, LoadRegistryType DEF VaultSeal, TypeOK
  <2>3. presented' \subseteq Tokens
    BY <1>5 DEF VaultSeal, TypeOK
  <2>4. store' \subseteq store
    BY <1>5 DEF VaultSeal, Refuse, Consumed
  <2>5. known \in Replies \cup {"ok"} /\ verdict \in Replies \cup {"ok"}
    BY DEF BundleVerdict, Verdict, Replies, Denials
  <2>6. reply' \in Replies
    BY <1>5, <2>5 DEF VaultSeal, Refuse, Replies
  <2>7. call' \in {Idle} \cup FetchCall
    BY <1>5, <2>1 DEF VaultSeal, Refuse, Bundle, FetchCall
  <2>8. UNCHANGED <<now, file, boxes, grants, lastIssue>>
    BY <1>5 DEF VaultSeal
  <2> QED
    BY <2>2, <2>3, <2>4, <2>6, <2>7, <2>8 DEF TypeOK
<1>6. CASE Fetched
  <2>1. call \in FetchCall
    BY <1>6 DEF Fetched, TypeOK, Idle, PromptCall
  <2>2. boxes' \subseteq Box
    BY <1>6, <2>1 DEF Fetched, FetchCall, Box, TypeOK
  <2> QED
    BY <1>6, <2>2 DEF Fetched, history, TypeOK, Replies
<1>7. CASE FetchFailed
  BY <1>7 DEF FetchFailed, Refuse, history, TypeOK, Replies
<1>8. CASE Tick
  BY <1>8 DEF Tick, history, TypeOK, Replies
<1>9. CASE EditRegistry
  BY <1>9 DEF EditRegistry, history, TypeOK, Replies
<1>10. CASE Restart
  BY <1>10 DEF Restart, history, TypeOK, Replies
<1>11. CASE UNCHANGED vars
  BY <1>11 DEF vars, TypeOK
<1> QED
  BY <1>1, <1>2, <1>3, <1>4, <1>5, <1>6, <1>7, <1>8, <1>9, <1>10, <1>11 DEF Next

LEMMA NextPrompt == TypeOK /\ PromptOK /\ [Next]_vars => PromptOK'
<1> SUFFICES ASSUME TypeOK, PromptOK, [Next]_vars
             PROVE  PromptOK'
  OBVIOUS
<1>1. CASE call' = Idle
  BY <1>1 DEF Idle, PromptOK
<1>2. CASE UNCHANGED <<call, reg>>
  BY <1>2 DEF PromptOK
<1>3. ASSUME NEW i \in Items, NEW c \in Consumers, NEW p \in Purposes,
             NEW t \in AskedTTLs, RequestAuthorization(i, c, p, t)
      PROVE  PromptOK'
  <2>1. \/ call' = Idle
        \/ /\ reg' # NoRegistry
           /\ CheckACL(reg', c, i, p) = "required"
           /\ call'.consumer = c /\ call'.item = i /\ call'.purpose = p
    BY <1>3 DEF RequestAuthorization, Refuse, IssueToken, NeedsUnlock
  <2> QED
    BY <1>1, <2>1 DEF PromptOK
<1>4. ASSUME NEW tok \in Tokens, NEW i \in Items, NEW b \in Bundle, NEW p \in Purposes,
             NEW t \in AskedBoxTTLs, VaultSeal(tok, i, b, p, t)
      PROVE  PromptOK'
  BY <1>1, <1>4 DEF VaultSeal, Refuse, PromptOK
<1> QED
  BY <1>1, <1>2, <1>3, <1>4
     DEF Next, BadArguments, Approve, IssueToken, Decline, Fetched, FetchFailed, Refuse,
         Tick, EditRegistry, Restart, vars

TypeInv == TypeOK /\ PromptOK

THEOREM TypeInvariance == Spec => []TypeInv
<1>1. Init => TypeInv
  BY InitType DEF Init, Idle, PromptOK, TypeInv
<1>2. TypeInv /\ [Next]_vars => TypeInv'
  BY NextType, NextPrompt DEF TypeInv
<1> QED
  BY <1>1, <1>2, PTL DEF Spec

\* Types (sealed.go:30-35, authz.go:17-29).
THEOREM TypeCorrectness == Spec => []TypeOK
  BY TypeInvariance, PTL DEF TypeInv

(***************************************************************************)
(* The invariant.                                                          *)
(***************************************************************************)

\* Grant g speaks for token t, item i, consumer c, purpose p, identity key k, and
\* has the user's approval if its mode asks for it.
Speaks(g, t, i, c, p, k) ==
    /\ g.token = t /\ g.item = i /\ g.consumer = c /\ g.purpose = p
    /\ g.key = k
    /\ g.mode = "required" => g.approvedBy = "user"

\* What is in the store was allowed by the cached registry, under the mode and
\* the key it lists now, and expires with its grant, in time.
StoreOK ==
    \A e \in store :
        /\ reg # NoRegistry
        /\ CheckACL(reg, e.consumerID, e.itemID, e.purpose) \in Modes
        /\ \E g \in grants :
             /\ Speaks(g, e.token, e.itemID, e.consumerID, e.purpose,
                       reg[e.consumerID].identityPubKey)
             /\ g.mode = reg[e.consumerID].approvalMode
             /\ g.expiresAt = e.expiresAt
             /\ g.expiresAt <= g.issuedAt + MaxAuthzTTL

UniqueEntries == \A e, f \in store : e.token = f.token => e = f

BoxTokens == {b.token : b \in boxes}

\* A token is in one place: the store, a blocked vault_seal or a box.
FetchOK ==
    call.op = "fetch" =>
        /\ call.token \notin TokensOf(store) \cup BoxTokens
        /\ \E g \in grants :
             Speaks(g, call.token, call.item, call.consumer, call.purpose, call.key)

BoxesOK ==
    /\ \A b \in boxes : \E g \in grants :
         Speaks(g, b.token, b.item, b.consumer, b.purpose, b.key)
    /\ BoxTokens \cap TokensOf(store) = {}
    /\ OneBoxPerToken

PresentedOK == presented \subseteq Granted /\ PresentedTokensDead

TimesOK == lastIssue <= now /\ NoExpiredBacklog

DeliveryInv == StoreOK /\ UniqueEntries /\ FetchOK /\ BoxesOK /\ PresentedOK /\ TimesOK

(***************************************************************************)
(* The four kinds of step there are, seen from the tokens.                 *)
(***************************************************************************)
IssueStep(tok, i, c, p, ttl, by) ==
    /\ reg' \in LoadedRegistry
    /\ reg # NoRegistry => reg' = reg
    /\ CheckACL(reg', c, i, p) \in Modes
    /\ CheckACL(reg', c, i, p) = "required" => by = "user"
    /\ store' = Issue(store, tok, i, c, p, ttl, now)
    /\ grants' = grants \cup
         {[token |-> tok, item |-> i, consumer |-> c, purpose |-> p,
           mode |-> reg'[c].approvalMode, approvedBy |-> by,
           key |-> reg'[c].identityPubKey,
           issuedAt |-> now, expiresAt |-> now + ttl]}
    /\ lastIssue' = now /\ now' = now
    /\ call.op # "fetch" /\ call' = Idle
    /\ UNCHANGED <<boxes, presented>>

RedeemStep(e) ==
    /\ reg # NoRegistry => reg' = reg
    /\ ~Expired(e, now)
    /\ call = Idle
    /\ call'.op = "fetch"
    /\ call'.token = e.token /\ call'.item = e.itemID
    /\ call'.consumer = e.consumerID /\ call'.purpose = e.purpose
    /\ call'.key = reg'[e.consumerID].identityPubKey
    /\ store' = {f \in store : f.token # e.token}
    /\ presented' = presented \cup ({e.token} \cap Granted)
    /\ UNCHANGED <<now, boxes, grants, lastIssue>>

DeliverStep ==
    /\ call.op = "fetch"
    /\ call' = Idle
    /\ boxes' = boxes \cup
         {[token |-> call.token, item |-> call.item, consumer |-> call.consumer,
           purpose |-> call.purpose, key |-> call.key,
           expiresAt |-> now + call.boxTTL]}
    /\ UNCHANGED <<now, reg, store, grants, presented, lastIssue>>

QuietStep ==
    /\ store' \subseteq store
    /\ store' # {} /\ reg # NoRegistry => reg' = reg
    /\ call' = call \/ call'.op # "fetch"
    /\ presented' \subseteq presented \cup Granted
    /\ presented' \cap TokensOf(store') \subseteq presented
    /\ now <= now'
    /\ UNCHANGED <<boxes, grants, lastIssue>>

AnyStep ==
    \/ \E tok \in Tokens \ Granted, i \in Items, c \in Consumers, p \in Purposes,
          ttl \in 1..MaxAuthzTTL, by \in {"user", "nobody"} : IssueStep(tok, i, c, p, ttl, by)
    \/ \E e \in store : RedeemStep(e)
    \/ DeliverStep
    \/ QuietStep

\* IssueToken under the registry of this step is an issue or changes no token.
LEMMA IssueIsStep ==
  ASSUME TypeOK, NEW i \in Items, NEW c \in Consumers, NEW p \in Purposes,
         NEW ttl \in 1..MaxAuthzTTL, NEW by \in {"user", "nobody"}, call.op # "fetch",
         reg' \in LoadedRegistry, reg # NoRegistry => reg' = reg,
         CheckACL(reg', c, i, p) \in Modes,
         CheckACL(reg', c, i, p) = "required" => by = "user",
         IssueToken(reg', i, c, p, ttl, by), now' = now
  PROVE  AnyStep
<1>1. CASE Refuse("issue_failed") /\ UNCHANGED history
  BY <1>1 DEF Refuse, history, Idle, QuietStep, AnyStep, TypeOK
<1>2. CASE ~(Refuse("issue_failed") /\ UNCHANGED history)
  <2>1. \E tok \in Tokens \ Granted : IssueStep(tok, i, c, p, ttl, by)
    BY <1>2 DEF IssueToken, IssueStep
  <2> QED
    BY <2>1 DEF AnyStep
<1> QED
  BY <1>1, <1>2

LEMMA StepKinds == TypeInv /\ [Next]_vars => AnyStep
<1> SUFFICES ASSUME TypeOK, PromptOK, [Next]_vars
             PROVE  AnyStep
  BY DEF TypeInv
<1>1. ASSUME NEW i \in Items, NEW c \in Consumers, NEW p \in Purposes,
             NEW t \in AskedTTLs, RequestAuthorization(i, c, p, t)
      PROVE  AnyStep
  <2> DEFINE ttl == clamp(t, DefaultAuthzTTL, MaxAuthzTTL)
             r == LoadRegistry(reg, file)
             decision == CheckACL(r, c, i, p)
  <2>1. /\ reg' = r /\ now' = now
        /\ r \in LoadedRegistry \cup {NoRegistry} /\ (reg # NoRegistry => r = reg)
    BY <1>1, LoadRegistryType DEF RequestAuthorization
  <2>2. CASE /\ r # NoRegistry /\ decision \in Modes /\ ~NeedsUnlock(decision)
             /\ IssueToken(r, i, c, p, ttl, "nobody")
    <3>1. ttl \in 1..MaxAuthzTTL
      BY ClampType, DeliveryAssumption
    <3>2. /\ reg' \in LoadedRegistry /\ CheckACL(reg', c, i, p) \in Modes
          /\ CheckACL(reg', c, i, p) # "required"
          /\ IssueToken(reg', i, c, p, ttl, "nobody")
          /\ call.op # "fetch"
      BY <1>1, <2>1, <2>2 DEF NeedsUnlock, RequestAuthorization, Idle
    <3> QED
      BY <2>1, <3>1, <3>2, IssueIsStep
  <2>3. CASE /\ UNCHANGED <<store, boxes>> /\ UNCHANGED history
             /\ call' = Idle \/ call'.op = "prompt"
    BY <2>1, <2>3 DEF QuietStep, AnyStep, history, Idle, TypeOK
  <2> QED
    BY <1>1, <2>2, <2>3 DEF RequestAuthorization, Refuse
<1>2. CASE Approve
  <2>1. /\ call \in PromptCall /\ reg \in LoadedRegistry
        /\ CheckACL(reg, call.consumer, call.item, call.purpose) \in Modes
    BY <1>2 DEF Approve, TypeOK, PromptOK, Idle, PromptCall, FetchCall, Modes
  <2>2. /\ call.item \in Items /\ call.consumer \in Consumers
        /\ call.purpose \in Purposes /\ call.ttl \in 1..MaxAuthzTTL
    BY <2>1 DEF PromptCall
  <2>3. /\ reg' = reg /\ now' = now /\ call.op # "fetch"
        /\ IssueToken(reg', call.item, call.consumer, call.purpose, call.ttl, "user")
    BY <1>2 DEF Approve
  <2> QED
    BY <2>1, <2>2, <2>3, IssueIsStep
<1>3. ASSUME NEW tok \in Tokens, NEW i \in Items, NEW b \in Bundle, NEW p \in Purposes,
             NEW t \in AskedBoxTTLs, VaultSeal(tok, i, b, p, t)
      PROVE  AnyStep
  <2> DEFINE r == LoadRegistry(reg, file)
             verdict == Verdict(store, tok, i, b.consumer, p, now)
  <2>1. /\ reg' = r \/ reg' = reg
        /\ reg # NoRegistry => r = reg
    BY <1>3, LoadRegistryType DEF VaultSeal
  <2>2. /\ UNCHANGED <<now, boxes, grants, lastIssue>> /\ call = Idle
    BY <1>3 DEF VaultSeal
  <2>3. CASE UNCHANGED <<store, presented>> /\ call' = Idle
    BY <2>1, <2>2, <2>3 DEF QuietStep, AnyStep, Idle, TypeOK
  <2>4. CASE /\ BundleVerdict(r, b) = "ok" /\ reg' = r
             /\ store' = Consumed(store, tok, verdict)
             /\ presented' = presented \cup ({tok} \cap Granted)
             /\ verdict = "ok"
             /\ call' = [op |-> "fetch", token |-> tok, item |-> i,
                         consumer |-> b.consumer, purpose |-> p, key |-> b.key,
                         boxTTL |-> clamp(t, DefaultBoxTTL, MaxBoxTTL)]
    <3>1. PICK e \in store : /\ e.token = tok /\ ~Expired(e, now)
                             /\ Bound(e, i, b.consumer, p)
      BY <2>4, VerdictOK
    <3>2. reg'[b.consumer].identityPubKey = b.key
      BY <2>4 DEF BundleVerdict
    <3>3. RedeemStep(e)
      BY <2>1, <2>2, <2>4, <3>1, <3>2 DEF RedeemStep, Bound, Consumed
    <3> QED
      BY <3>3 DEF AnyStep
  <2>5. CASE /\ store' = Consumed(store, tok, verdict)
             /\ presented' = presented \cup ({tok} \cap Granted)
             /\ call' = Idle
    <3>1. store' \subseteq store /\ tok \notin TokensOf(store')
      BY <2>5 DEF Consumed, TokensOf
    <3> QED
      BY <2>1, <2>2, <2>5, <3>1 DEF QuietStep, AnyStep, Idle, TypeOK
  <2> QED
    BY <1>3, <2>3, <2>4, <2>5 DEF VaultSeal, Refuse
<1>4. CASE Fetched
  BY <1>4 DEF Fetched, DeliverStep, AnyStep, history
<1>5. CASE BadArguments \/ Decline \/ FetchFailed
  BY <1>5 DEF BadArguments, Decline, FetchFailed, Refuse, history, Idle, QuietStep, AnyStep, TypeOK
<1>6. CASE Tick \/ EditRegistry \/ UNCHANGED vars
  BY <1>6 DEF Tick, EditRegistry, vars, history, QuietStep, AnyStep, TypeOK
<1>7. CASE Restart
  BY <1>7 DEF Restart, history, Idle, QuietStep, AnyStep, TokensOf, TypeOK
<1> QED
  BY <1>1, <1>2, <1>3, <1>4, <1>5, <1>6, <1>7 DEF Next

(***************************************************************************)
(* Each kind of step keeps the invariant.                                  *)
(***************************************************************************)

\* An issue adds one entry, backed by the grant it adds, under a fresh token;
\* the sweep only takes entries away.
LEMMA IssueInv ==
  ASSUME TypeOK, DeliveryInv,
         NEW tok \in Tokens \ Granted, NEW i \in Items, NEW c \in Consumers,
         NEW p \in Purposes, NEW ttl \in 1..MaxAuthzTTL, NEW by \in {"user", "nobody"},
         IssueStep(tok, i, c, p, ttl, by)
  PROVE  DeliveryInv'
<1> DEFINE new == [token |-> tok, itemID |-> i, consumerID |-> c,
                   purpose |-> p, expiresAt |-> now + ttl]
           grant == [token |-> tok, item |-> i, consumer |-> c, purpose |-> p,
                     mode |-> reg'[c].approvalMode, approvedBy |-> by,
                     key |-> reg'[c].identityPubKey,
                     issuedAt |-> now, expiresAt |-> now + ttl]
<1>1. /\ \A e \in store' : e = new \/ (e \in store /\ ~Expired(e, now))
      /\ grants' = grants \cup {grant}
      /\ tok \notin Granted
  BY DEF IssueStep, Issue, Swept
<1>2. \A e \in store : e.token \in Granted
  BY DEF DeliveryInv, StoreOK, Speaks, Granted
<1>3. \A b \in boxes : b.token \in Granted
  BY DEF DeliveryInv, BoxesOK, Speaks, Granted
<1>4. StoreOK'
  <2> SUFFICES ASSUME NEW e \in store'
               PROVE  /\ reg' # NoRegistry
                      /\ CheckACL(reg', e.consumerID, e.itemID, e.purpose) \in Modes
                      /\ \E g \in grants' :
                           /\ Speaks(g, e.token, e.itemID, e.consumerID, e.purpose,
                                     reg'[e.consumerID].identityPubKey)
                           /\ g.mode = reg'[e.consumerID].approvalMode
                           /\ g.expiresAt = e.expiresAt
                           /\ g.expiresAt <= g.issuedAt + MaxAuthzTTL
    BY DEF StoreOK
  <2>1. CASE e \in store
    BY <1>1, <2>1 DEF DeliveryInv, StoreOK, IssueStep
  <2>2. CASE e = new
    <3>1. reg' # NoRegistry
      BY RegistryAssumption DEF IssueStep
    <3>2. reg'[c].approvalMode = "required" => by = "user"
      BY CheckACLMode DEF IssueStep
    <3>3. Speaks(grant, tok, i, c, p, reg'[c].identityPubKey)
      BY <3>2 DEF Speaks
    <3> QED
      <4>1. now + ttl <= now + MaxAuthzTTL
        BY DeliveryAssumption DEF TypeOK
      <4> QED
        BY <1>1, <2>2, <3>1, <3>3, <4>1 DEF IssueStep
  <2> QED
    BY <1>1, <2>1, <2>2
<1>5. UniqueEntries'
  BY <1>1, <1>2 DEF DeliveryInv, UniqueEntries
<1>6. FetchOK'
  BY DEF FetchOK, IssueStep, Idle
<1>7. BoxesOK'
  <2>1. BoxTokens' \cap TokensOf(store)' = {}
    BY <1>1, <1>3 DEF DeliveryInv, BoxesOK, BoxTokens, TokensOf, IssueStep
  <2> QED
    BY <1>1, <2>1 DEF DeliveryInv, BoxesOK, OneBoxPerToken, IssueStep
<1>8. PresentedOK'
  BY <1>1 DEF DeliveryInv, PresentedOK, PresentedTokensDead, TokensOf, Granted, IssueStep
<1>9. TimesOK'
  BY <1>1 DEF DeliveryInv, TimesOK, NoExpiredBacklog, Expired, IssueStep, TypeOK, Entry
<1> QED
  BY <1>4, <1>5, <1>6, <1>7, <1>8, <1>9 DEF DeliveryInv

\* A redeemed entry leaves the store for the blocked call, which its grant backs.
LEMMA RedeemInv ==
  ASSUME TypeOK, DeliveryInv, NEW e \in store, RedeemStep(e)
  PROVE  DeliveryInv'
<1>1. reg # NoRegistry /\ reg' = reg
  BY DEF DeliveryInv, StoreOK, RedeemStep
<1>2. store' \subseteq store /\ e.token \notin TokensOf(store')
  BY DEF RedeemStep, TokensOf
<1>3. StoreOK' /\ UniqueEntries'
  BY <1>1, <1>2 DEF DeliveryInv, StoreOK, UniqueEntries, RedeemStep
<1>4. FetchOK'
  <2>1. e.token \notin BoxTokens
    BY DEF DeliveryInv, BoxesOK, TokensOf
  <2>2. \E g \in grants : Speaks(g, e.token, e.itemID, e.consumerID, e.purpose,
                                  reg[e.consumerID].identityPubKey)
    BY DEF DeliveryInv, StoreOK
  <2>3. /\ call'.token = e.token /\ call'.item = e.itemID
        /\ call'.consumer = e.consumerID /\ call'.purpose = e.purpose
        /\ call'.key = reg[e.consumerID].identityPubKey
        /\ grants' = grants /\ boxes' = boxes
    BY <1>1 DEF RedeemStep
  <2> QED
    BY <1>2, <2>1, <2>2, <2>3 DEF FetchOK, BoxTokens, TokensOf
<1>5. BoxesOK'
  BY <1>2 DEF DeliveryInv, BoxesOK, OneBoxPerToken, BoxTokens, TokensOf, RedeemStep
<1>6. PresentedOK'
  BY <1>2 DEF DeliveryInv, PresentedOK, PresentedTokensDead, TokensOf, Granted, RedeemStep
<1>7. TimesOK'
  BY <1>2 DEF DeliveryInv, TimesOK, NoExpiredBacklog, RedeemStep
<1> QED
  BY <1>3, <1>4, <1>5, <1>6, <1>7 DEF DeliveryInv

\* The box of a fetched item is backed by what backed the call, and new.
LEMMA DeliverInv ==
  ASSUME TypeOK, DeliveryInv, DeliverStep
  PROVE  DeliveryInv'
<1> DEFINE box == [token |-> call.token, item |-> call.item, consumer |-> call.consumer,
                   purpose |-> call.purpose, key |-> call.key,
                   expiresAt |-> now + call.boxTTL]
<1>1. boxes' = boxes \cup {box} /\ UNCHANGED <<now, reg, store, grants, presented, lastIssue>>
  BY DEF DeliverStep
<1>2. /\ call.token \notin TokensOf(store) /\ call.token \notin BoxTokens
      /\ \E g \in grants :
           Speaks(g, box.token, box.item, box.consumer, box.purpose, box.key)
  BY DEF DeliveryInv, FetchOK, DeliverStep
<1>3. BoxesOK'
  <2>1. \A b \in boxes' : \E g \in grants' :
          Speaks(g, b.token, b.item, b.consumer, b.purpose, b.key)
    BY <1>1, <1>2 DEF DeliveryInv, BoxesOK
  <2>2. BoxTokens' \cap TokensOf(store)' = {}
    BY <1>1, <1>2 DEF DeliveryInv, BoxesOK, BoxTokens, TokensOf
  <2>3. OneBoxPerToken'
    BY <1>1, <1>2 DEF DeliveryInv, BoxesOK, OneBoxPerToken, BoxTokens
  <2> QED
    BY <2>1, <2>2, <2>3 DEF BoxesOK
<1>4. FetchOK'
  BY DEF FetchOK, DeliverStep, Idle
<1> QED
  BY <1>1, <1>3, <1>4 DEF DeliveryInv, StoreOK, UniqueEntries, PresentedOK,
     PresentedTokensDead, TokensOf, Granted, TimesOK, NoExpiredBacklog

LEMMA QuietInv ==
  ASSUME TypeOK, DeliveryInv, QuietStep, now' \in Nat
  PROVE  DeliveryInv'
<1>1. store' \subseteq store /\ UNCHANGED <<boxes, grants, lastIssue>>
  BY DEF QuietStep
<1>2. StoreOK'
  BY <1>1 DEF DeliveryInv, StoreOK, QuietStep
<1>3. UniqueEntries'
  BY <1>1 DEF DeliveryInv, UniqueEntries
<1>4. FetchOK'
  BY <1>1 DEF DeliveryInv, FetchOK, QuietStep, TokensOf, BoxTokens
<1>5. BoxesOK'
  BY <1>1 DEF DeliveryInv, BoxesOK, BoxTokens, TokensOf, OneBoxPerToken
<1>6. PresentedOK'
  BY <1>1 DEF DeliveryInv, PresentedOK, PresentedTokensDead, TokensOf, Granted, QuietStep
<1>7. TimesOK'
  BY <1>1 DEF DeliveryInv, TimesOK, NoExpiredBacklog, QuietStep, TypeOK
<1> QED
  BY <1>2, <1>3, <1>4, <1>5, <1>6, <1>7 DEF DeliveryInv

\* The invariant holds throughout.
THEOREM Invariance == Spec => []DeliveryInv
<1>1. Init => DeliveryInv
  BY DEF Init, Idle, DeliveryInv, StoreOK, UniqueEntries, FetchOK, BoxesOK, BoxTokens,
         TokensOf, OneBoxPerToken, PresentedOK, PresentedTokensDead, Granted, TimesOK,
         NoExpiredBacklog
<1>2. TypeInv /\ TypeInv' /\ DeliveryInv /\ [Next]_vars => DeliveryInv'
  BY StepKinds, IssueInv, RedeemInv, DeliverInv, QuietInv DEF AnyStep, TypeInv, TypeOK
<1> QED
  BY <1>1, <1>2, TypeInvariance, PTL DEF Spec

(***************************************************************************)
(* What follows from it.                                                   *)
(***************************************************************************)

\* A usable token is one the cached registry still allows, approved by the user
\* where it requires that (sealed.go:92-107), whatever is edited or restarted.
THEOREM LiveTokens == Spec => []LiveTokensAuthorized
<1>1. TypeOK /\ DeliveryInv => LiveTokensAuthorized
  BY DEF DeliveryInv, StoreOK, Speaks, LiveTokensAuthorized
<1> QED
  BY <1>1, TypeCorrectness, Invariance, PTL

\* Every box answers a grant for its item, consumer, purpose and identity key,
\* approved where approval is required (sealed.go:135-204).
THEOREM BoxesAreBacked == Spec => []BoxesBacked
<1>1. DeliveryInv => BoxesBacked
  BY DEF DeliveryInv, BoxesOK, Speaks, BoxesBacked
<1> QED
  BY <1>1, Invariance, PTL

\* No token pays for two boxes (sealed.go:167-170).
THEOREM OneBox == Spec => []OneBoxPerToken
<1>1. DeliveryInv => OneBoxPerToken
  BY DEF DeliveryInv, BoxesOK
<1> QED
  BY <1>1, Invariance, PTL

\* A token shown to Consume once is never in the store again (authz.go:64-84).
THEOREM PresentedTokens == Spec => []PresentedTokensDead
<1>1. DeliveryInv => PresentedTokensDead
  BY DEF DeliveryInv, PresentedOK
<1> QED
  BY <1>1, Invariance, PTL

\* The store holds nothing that had expired at the last Issue (authz.go:47-53).
THEOREM NoBacklog == Spec => []NoExpiredBacklog
<1>1. DeliveryInv => NoExpiredBacklog
  BY DEF DeliveryInv, TimesOK
<1> QED
  BY <1>1, Invariance, PTL

\* A vault fetch starts only under a grant that has not run out, never longer than
\* the maximum after it (sealed.go:90, authz.go:77-79).
THEOREM Redemptions == Spec => RedeemedInTime
<1>1. TypeInv /\ DeliveryInv /\ [Next]_vars =>
        [call = Idle /\ call'.op = "fetch" =>
           \E g \in grants : g.token = call'.token /\ InTime(g)]_vars
  <2> SUFFICES ASSUME TypeInv, DeliveryInv, [Next]_vars, call = Idle, call'.op = "fetch"
               PROVE  \E g \in grants : g.token = call'.token /\ InTime(g)
    OBVIOUS
  <2>1. PICK e \in store : RedeemStep(e)
    BY StepKinds DEF AnyStep, IssueStep, DeliverStep, QuietStep, Idle
  <2>2. PICK g \in grants : /\ g.token = e.token /\ g.expiresAt = e.expiresAt
                            /\ g.expiresAt <= g.issuedAt + MaxAuthzTTL
    BY DEF DeliveryInv, StoreOK, Speaks
  <2>3. now <= e.expiresAt
    BY <2>1 DEF RedeemStep, Expired, TypeInv, TypeOK, Entry
  <2>4. InTime(g)
    BY <2>2, <2>3, DeliveryAssumption DEF InTime, TypeInv, TypeOK, GrantRecord
  <2> QED
    BY <2>1, <2>2, <2>4 DEF RedeemStep
<1> QED
  BY <1>1, TypeInvariance, Invariance, PTL DEF Spec, RedeemedInTime

\* "registry_unavailable" speaks of the file as it is: no error is remembered
\* (sealed.go:37-71).
THEOREM RegistryErrors == Spec => RegistryErrorsNotCached
<1>1. [Next]_vars =>
        [reply' = "registry_unavailable" => Load(file) = NoRegistry]_vars
  <2> SUFFICES ASSUME Next, reply' = "registry_unavailable"
               PROVE  Load(file) = NoRegistry
    OBVIOUS
  <2>1. ASSUME NEW i \in Items, NEW c \in Consumers, NEW p \in Purposes,
               NEW t \in AskedTTLs, RequestAuthorization(i, c, p, t)
        PROVE  Load(file) = NoRegistry
    BY <2>1 DEF RequestAuthorization, Refuse, IssueToken, LoadRegistry, Denials
  <2>2. ASSUME NEW tok \in Tokens, NEW i \in Items, NEW b \in Bundle, NEW p \in Purposes,
               NEW t \in AskedBoxTTLs, VaultSeal(tok, i, b, p, t)
        PROVE  Load(file) = NoRegistry
    BY <2>2 DEF VaultSeal, Refuse, BundleVerdict, Verdict, LoadRegistry
  <2> QED
    BY <2>1, <2>2 DEF Next, BadArguments, Approve, Decline, Fetched, FetchFailed,
       Refuse, IssueToken, Tick, EditRegistry, Restart
<1> QED
  BY <1>1, PTL DEF Spec, RegistryErrorsNotCached

(***************************************************************************)
(* Sealed delivery implements the ledger.                                  *)
(***************************************************************************)
\* An issue is a Grant of the ledger, in which the swept tokens lapse.
LEMMA IssueRefines ==
  ASSUME TypeOK, DeliveryInv,
         NEW tok \in Tokens \ Granted, NEW i \in Items, NEW c \in Consumers,
         NEW p \in Purposes, NEW ttl \in 1..MaxAuthzTTL, NEW by \in {"user", "nobody"},
         IssueStep(tok, i, c, p, ttl, by)
  PROVE  Ledger!LedgerNext
<1> DEFINE g == LedgerEntry(tok, i, c, p)
           kept == {LedgerEntry(e.token, e.itemID, e.consumerID, e.purpose) :
                      e \in Swept(store, now)}
<1>1. g \in LedgerGrant /\ g.token = tok
  BY DEF LedgerEntry, LedgerGrant
<1>2. kept \in SUBSET OpenGrants
  BY DEF OpenGrants, Swept
<1>3. OpenGrants' = kept \cup {g}
  <2> DEFINE new == [token |-> tok, itemID |-> i, consumerID |-> c,
                     purpose |-> p, expiresAt |-> now + ttl]
  <2>1. store' = Swept(store, now) \cup {new}
    BY DEF IssueStep, Issue
  <2>2. LedgerEntry(new.token, new.itemID, new.consumerID, new.purpose) = g
    OBVIOUS
  <2> HIDE DEF new, g
  <2> QED
    BY <2>1, <2>2 DEF OpenGrants
<1>4. Granted' = Granted \cup {tok}
  <2> DEFINE grant == [token |-> tok, item |-> i, consumer |-> c, purpose |-> p,
                       mode |-> reg'[c].approvalMode, approvedBy |-> by,
                       key |-> reg'[c].identityPubKey,
                       issuedAt |-> now, expiresAt |-> now + ttl]
  <2>1. grants' = grants \cup {grant} /\ grant.token = tok
    BY DEF IssueStep
  <2> HIDE DEF grant
  <2> QED
    BY <2>1 DEF Granted
<1>5. RedeemedGrants' = RedeemedGrants /\ DeliveredGrants' = DeliveredGrants
  BY DEF IssueStep, RedeemedGrants, DeliveredGrants, Idle
<1>6. Ledger!Grant(g)
  BY <1>1, <1>2, <1>3, <1>4, <1>5 DEF Ledger!Grant
<1> QED
  BY <1>1, <1>6 DEF Ledger!LedgerNext

LEMMA RedeemRefines ==
  ASSUME TypeOK, DeliveryInv, NEW e \in store, RedeemStep(e)
  PROVE  Ledger!LedgerNext
<1> DEFINE Of(f) == LedgerEntry(f.token, f.itemID, f.consumerID, f.purpose)
           g == Of(e)
<1>1. g \in LedgerGrant /\ g \in OpenGrants
  BY DEF LedgerEntry, LedgerGrant, OpenGrants, TypeOK, Entry
<1>2. \A f \in store : f.token # e.token <=> Of(f) # g
  BY DEF DeliveryInv, UniqueEntries, LedgerEntry
<1>3. OpenGrants' = OpenGrants \ {g}
  <2>1. OpenGrants' = {Of(f) : f \in {h \in store : h.token # e.token}}
    BY DEF OpenGrants, RedeemStep
  <2> QED
    BY <1>2, <2>1 DEF OpenGrants
<1>4. RedeemedGrants = {} /\ RedeemedGrants' = {g}
  BY DEF RedeemStep, RedeemedGrants, Idle
<1>5. DeliveredGrants' = DeliveredGrants /\ Granted' = Granted
  BY DEF RedeemStep, DeliveredGrants, Granted
<1>6. Ledger!Redeem(g)
  BY <1>1, <1>3, <1>4, <1>5 DEF Ledger!Redeem
<1> QED
  BY <1>1, <1>6 DEF Ledger!LedgerNext

LEMMA DeliverRefines ==
  ASSUME TypeOK, DeliverStep
  PROVE  Ledger!LedgerNext
<1> DEFINE g == LedgerEntry(call.token, call.item, call.consumer, call.purpose)
<1>1. RedeemedGrants = {g} /\ RedeemedGrants' = {}
  BY DEF DeliverStep, RedeemedGrants, Idle
<1>2. DeliveredGrants' = DeliveredGrants \cup {g}
  <2> DEFINE box == [token |-> call.token, item |-> call.item, consumer |-> call.consumer,
                     purpose |-> call.purpose, key |-> call.key,
                     expiresAt |-> now + call.boxTTL]
  <2>1. boxes' = boxes \cup {box}
    BY DEF DeliverStep
  <2>2. LedgerEntry(box.token, box.item, box.consumer, box.purpose) = g
    OBVIOUS
  <2> HIDE DEF box, g
  <2> QED
    BY <2>1, <2>2 DEF DeliveredGrants
<1>3. OpenGrants' = OpenGrants /\ Granted' = Granted
  BY DEF DeliverStep, OpenGrants, Granted
<1>4. call \in FetchCall
  BY DEF DeliverStep, TypeOK, Idle, PromptCall
<1>5. g \in LedgerGrant
  BY <1>4 DEF FetchCall, LedgerEntry, LedgerGrant
<1>6. Ledger!Deliver(g)
  BY <1>1, <1>2, <1>3 DEF Ledger!Deliver
<1> QED
  BY <1>5, <1>6 DEF Ledger!LedgerNext

LEMMA QuietRefines ==
  ASSUME QuietStep
  PROVE  Ledger!LedgerNext
<1>1. OpenGrants' \in SUBSET OpenGrants
  BY DEF QuietStep, OpenGrants
<1>2. RedeemedGrants' \in SUBSET RedeemedGrants
  BY DEF QuietStep, RedeemedGrants
<1>3. DeliveredGrants' = DeliveredGrants /\ Granted' = Granted
  BY DEF QuietStep, DeliveredGrants, Granted
<1> QED
  BY <1>1, <1>2, <1>3 DEF Ledger!LedgerNext, Ledger!Lapse

\* Nothing leaves in a box that was not granted, redeemed and delivered in this
\* order, once per grant (sealed.go:82-204).
THEOREM Implementation == Spec => ImplementsLedger
<1>1. Init => Ledger!LedgerInit
  BY DEF Init, Idle, Ledger!LedgerInit, OpenGrants, RedeemedGrants, DeliveredGrants, Granted
<1>2. TypeInv /\ DeliveryInv /\ [Next]_vars => [Ledger!LedgerNext]_(Ledger!ledgerVars)
  BY StepKinds, IssueRefines, RedeemRefines, DeliverRefines, QuietRefines
     DEF AnyStep, TypeInv
<1> QED
  BY <1>1, <1>2, TypeInvariance, Invariance, PTL
     DEF Spec, ImplementsLedger, Ledger!LedgerSpec
=============================================================================
