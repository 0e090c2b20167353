------------------------------ MODULE Registry ------------------------------
(***************************************************************************)
(* The consumer registry (internal/registry): what registry.yaml says of   *)
(* each consumer MCP, and the access decision taken from it.  Pure         *)
(* operators; the file and the cached copy of it are state of the modules  *)
(* that use this one.                                                      *)
(*                                                                         *)
(* A pattern of allowed_items or allowed_purposes is the set of names it   *)
(* matches: {s} for the literal s, every name for "*", the names with the  *)
(* prefix for "server-*".  A file is Unreadable (missing, or not YAML), or *)
(* a function that gives each consumer its entry, or Absent.               *)
(***************************************************************************)
CONSTANTS
    Consumers,   \* consumer ids
    Items,       \* vault item ids
    Purposes,    \* purposes
    Keys,        \* Ed25519 identity public keys
    Absent,      \* no entry for a consumer
    BadHex,      \* an identity_pub_key that is not hex
    Unreadable,  \* a registry file that os.ReadFile or the YAML parser refuses
    NoRegistry   \* the nil *Registry

\* ApprovalMode as the file may spell it: "" when the line is left out, and
\* "other" for a value that is neither of the two constants (nothing rejects it).
RawModes == {"", "auto", "required", "other"}
Modes == {"auto", "required", "other"}

RawConsumer ==
    [identityPubKey  : Keys \cup {BadHex},
     allowedItems    : SUBSET SUBSET Items,
     allowedPurposes : SUBSET SUBSET Purposes,
     approvalMode    : RawModes]

ConsumerConfig ==
    [identityPubKey  : Keys,
     allowedItems    : SUBSET SUBSET Items,
     allowedPurposes : SUBSET SUBSET Purposes,
     approvalMode    : Modes]

RawFile == [Consumers -> RawConsumer \cup {Absent}]
LoadedRegistry == [Consumers -> ConsumerConfig \cup {Absent}]

\* The exceptional values are none of the ordinary ones.
ASSUME RegistryAssumption ==
    /\ BadHex \notin Keys
    /\ Absent \notin RawConsumer
    /\ Absent \notin ConsumerConfig
    /\ Unreadable \notin RawFile
    /\ NoRegistry \notin LoadedRegistry

Registered(f, c) == f[c] # Absent

DefaultMode(mode) == IF mode = "" THEN "required" ELSE mode

\* An entry of the file with the default approval mode filled in.
Resolve(rc) ==
    IF rc = Absent THEN Absent ELSE [rc EXCEPT !.approvalMode = DefaultMode(@)]

\* registry.Load: one entry with a malformed key fails the whole file.
Load(f) ==
    IF \/ f = Unreadable
       \/ \E c \in Consumers : Registered(f, c) /\ f[c].identityPubKey = BadHex
    THEN NoRegistry
    ELSE [c \in Consumers |-> Resolve(f[c])]

matchAny(patterns, s) == \E p \in patterns : s \in p

Denials == {"consumer_not_found", "item_denied", "purpose_denied"}

\* The approval mode an allowed request must satisfy, or the reason it is denied.
CheckACL(reg, c, i, p) ==
    IF ~Registered(reg, c) THEN "consumer_not_found"
    ELSE IF ~matchAny(reg[c].allowedItems, i) THEN "item_denied"
    ELSE IF ~matchAny(reg[c].allowedPurposes, p) THEN "purpose_denied"
    ELSE reg[c].approvalMode
=============================================================================
