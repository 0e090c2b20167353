--------------------------- MODULE ApprovalLedger ---------------------------
(***************************************************************************)
(* What sealed delivery promises, without clocks, files or network: every  *)
(* secret that leaves in a sealed box was granted first, for that item,    *)
(* that consumer and that purpose, and one grant pays for one delivery at  *)
(* most.  A grant may lapse at any time and never comes back.              *)
(***************************************************************************)
CONSTANT Grants   \* [token, item, consumer, purpose] records

VARIABLES
    open,       \* granted, not yet redeemed
    redeemed,   \* redeemed, the secret not yet delivered
    delivered,  \* the grants that were paid out in a box
    used        \* every token ever granted

ledgerVars == <<open, redeemed, delivered, used>>

LedgerInit == open = {} /\ redeemed = {} /\ delivered = {} /\ used = {}

\* A new grant, under a token never used before; some open ones may lapse.
Grant(g) ==
    /\ g.token \notin used
    /\ used' = used \cup {g.token}
    /\ \E kept \in SUBSET open : open' = kept \cup {g}
    /\ UNCHANGED <<redeemed, delivered>>

\* Open grants and the one being redeemed may lapse, unpaid.
Lapse ==
    /\ open' \in SUBSET open
    /\ redeemed' \in SUBSET redeemed
    /\ UNCHANGED <<delivered, used>>

Redeem(g) ==
    /\ g \in open
    /\ open' = open \ {g}
    /\ redeemed' = redeemed \cup {g}
    /\ UNCHANGED <<delivered, used>>

Deliver(g) ==
    /\ g \in redeemed
    /\ redeemed' = redeemed \ {g}
    /\ delivered' = delivered \cup {g}
    /\ UNCHANGED <<open, used>>

LedgerNext ==
    \/ Lapse
    \/ \E g \in Grants : Grant(g) \/ Redeem(g) \/ Deliver(g)

LedgerSpec == LedgerInit /\ [][LedgerNext]_ledgerVars
=============================================================================
