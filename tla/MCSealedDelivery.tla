-------------------------- MODULE MCSealedDelivery --------------------------
(***************************************************************************)
(* SealedDelivery on a small instance: a consumer that needs the user's    *)
(* approval, one that does not and one in no file; a file the user         *)
(* creates, breaks and edits.                                              *)
(***************************************************************************)
EXTENDS SealedDelivery, TLC

CONSTANTS pty, deploy, stranger, i1, i2, ssh, k1, k2

MCConsumers == {pty, deploy, stranger}
MCItems == {i1, i2}
MCPurposes == {ssh}
MCKeys == {k1, k2}

Star(names) == {names}

Row(key, items, purposes, mode) ==
    [identityPubKey |-> key, allowedItems |-> items,
     allowedPurposes |-> purposes, approvalMode |-> mode]

\* Both consumers, under different keys; the mode of pty is left to its default.
OpenFile ==
    (pty :> Row(k1, Star(MCItems), {{ssh}}, "")) @@
    (deploy :> Row(k2, {{i1}}, Star(MCPurposes), "auto")) @@
    (stranger :> Absent)

\* An edit: pty has a new key and fewer items, deploy is left without a purpose.
TightFile ==
    (pty :> Row(k2, {{i2}}, Star(MCPurposes), "required")) @@
    (deploy :> Row(k2, Star(MCItems), {}, "other")) @@
    (stranger :> Absent)

\* One entry with a malformed key, which costs the other its place too.
BrokenFile ==
    (pty :> Row(BadHex, {}, {}, "auto")) @@
    (deploy :> Row(k2, Star(MCItems), Star(MCPurposes), "auto")) @@
    (stranger :> Absent)

MCFiles == {Unreadable, BrokenFile, OpenFile, TightFile}
\* Unset or negative, and above the maximum.
MCAskedTTLs == {-1, 0, 9}
MCAskedBoxTTLs == {0, 9}

\* Tokens are opaque and interchangeable.
TokenSymmetry == Permutations(Tokens)

\* reply is an output that no action reads: states that differ in nothing else
\* have the same successors, and action properties are checked on every step.
NoReply == <<now, file, reg, store, call, boxes, history>>
=============================================================================
