---------------------------- MODULE MCVaultItems ----------------------------
(***************************************************************************)
(* VaultItems for TLC: an item that exists and an id to add another.       *)
(***************************************************************************)
EXTENDS VaultItems, TLC

CONSTANTS i1, i2

Two == {i1, i2}

Plaintext == [name |-> <<1, 2>>, username |-> <<1>>, password |-> <<3, 2>>, uris |-> <<1>>]
Encrypted == [f \in Fields |-> encryptStr(Plaintext[f], MyKey)]
Damaged == [Encrypted EXCEPT !["username"].key = "theirs"]

\* An item of texts that fill their blocks and of texts that do not, one whose
\* username another key encrypts, and one that is not a login.
Vaults ==
    {(i1 :> first @@ i2 :> Absent) :
        first \in {[enc |-> Encrypted, rest |-> "some"],
                   [enc |-> Damaged, rest |-> "some"], Other}}

Naming(f, text) == [NoArguments EXCEPT ![f] = text]

Requests ==
    {[tool |-> t, id |-> i1, args |-> NoArguments] : t \in {"search", "secret"}}
    \cup {[tool |-> "add", id |-> i2, args |-> Plaintext]}
    \cup {[tool |-> "update", id |-> i1, args |-> Naming("username", <<2, 1>>)],
          [tool |-> "update", id |-> i1, args |-> Naming("uris", Empty)]}

WebVaultEdits == {<<"password", <<3>>>>}
=============================================================================
