------------------------------- MODULE Authz -------------------------------
(***************************************************************************)
(* The single-use token store (internal/authz).  A store is the set of its *)
(* entries; sync.Mutex makes each of Issue and Consume one step of the     *)
(* modules that use these operators.                                       *)
(***************************************************************************)
EXTENDS Integers

CONSTANT Tokens   \* the values rand.Read can give; a fresh one is never repeated

Entry(items, consumers, purposes) ==
    [token : Tokens, itemID : items, consumerID : consumers,
     purpose : purposes, expiresAt : Nat]

\* Mutants (of clamp, Swept, Bound, Consumed): the maximum forgotten; no sweep; the
\* item left out of the binding; the token removed only when it is good, or only
\* when it is not.
clampUnbounded(v, default, max) == IF v <= 0 THEN default ELSE v
Unswept(store, now) == store
BoundWithoutItem(e, i, c, p) == e.consumerID = c /\ e.purpose = p
ConsumedIfGood(store, tok, verdict) ==
    {e \in store : e.token # tok \/ verdict # "ok"}
ConsumedIfBad(store, tok, verdict) ==
    {e \in store : e.token # tok \/ verdict = "ok"}

\* clamp of internal/mcp/sealed.go: the TTL a call gets for the one it asks.
clamp(v, default, max) ==
    LET w == IF v <= 0 THEN default ELSE v IN IF w > max THEN max ELSE w

\* time.Now().After(e.expiresAt)
Expired(e, now) == now > e.expiresAt

TokensOf(store) == {e.token : e \in store}

\* What Issue's sweep leaves.
Swept(store, now) == {e \in store : ~Expired(e, now)}

Issue(store, tok, i, c, p, ttl, now) ==
    Swept(store, now)
        \cup {[token |-> tok, itemID |-> i, consumerID |-> c,
               purpose |-> p, expiresAt |-> now + ttl]}

Bound(e, i, c, p) == e.itemID = i /\ e.consumerID = c /\ e.purpose = p

\* Mutant of Verdict: the expiry is not checked.
VerdictUntimed(store, tok, i, c, p, now) ==
    LET held == {e \in store : e.token = tok} IN
    IF held = {} THEN "token_not_found"
    ELSE IF \E e \in held : ~Bound(e, i, c, p) THEN "token_mismatch"
    ELSE "ok"

\* Consume's answer for a token, with the store as it is before the call ...
Verdict(store, tok, i, c, p, now) ==
    LET held == {e \in store : e.token = tok} IN
    IF held = {} THEN "token_not_found"
    ELSE IF \E e \in held : Expired(e, now) THEN "token_expired"
    ELSE IF \E e \in held : ~Bound(e, i, c, p) THEN "token_mismatch"
    ELSE "ok"

\* ... and the store after it, whatever the answer.
Consumed(store, tok, verdict) == {e \in store : e.token # tok}
=============================================================================
