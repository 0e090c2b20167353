---------------------------- MODULE MCClipboard ----------------------------
(***************************************************************************)
(* Clipboard with an MCP server that may have two calls outstanding and a  *)
(* `cred-mcp dev` in a terminal.                                           *)
(***************************************************************************)
EXTENDS Clipboard, TLC

CONSTANTS j1, j2, j3, server, terminal

MCProcesses == {server, terminal}
MCTerminals == {terminal}
MCOwner == [j \in Jobs |-> IF j = j3 THEN terminal ELSE server]

\* The two calls of the server, the texts and the secrets are interchangeable.
MCSymmetry == Permutations({j1, j2}) \cup Permutations(Texts) \cup Permutations(Secrets)
=============================================================================
