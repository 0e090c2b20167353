------------------------------ MODULE MCServer ------------------------------
(***************************************************************************)
(* Server for TLC: one line of each kind the loop tells apart.             *)
(***************************************************************************)
EXTENDS Server

OtherLine(kind) == [kind |-> kind, tool |-> "unknown", args |-> "bad", asks |-> "nobody"]
CallOf(tool, args, asks) == [kind |-> "call", tool |-> tool, args |-> args, asks |-> asks]

Written ==
    {OtherLine(k) : k \in {"blank", "garbled", "oversized", "notification", "other"}}
    \cup {CallOf("ping", "good", "nobody"), CallOf("list_stash", "bad", "nobody"),
          CallOf("vault_add", "good", "password"), CallOf("vault_add", "bad", "password"),
          CallOf("request_authorization", "good", "approval")}

TwoWindows == <<"zenity", "tty">>
=============================================================================
