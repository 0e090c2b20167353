-------------------------- MODULE VaultConnection --------------------------
(***************************************************************************)
(* The vault client of one process (vaultClient and withVault of           *)
(* internal/mcp/server.go, Login of internal/vault/client.go).  A login    *)
(* and a request each block on the server for up to 30 s, while the clock  *)
(* runs, the server may end the session and the process may end; handlers  *)
(* do not overlap, so one call at a time is between two of these steps.    *)
(*                                                                         *)
(* A handler asks for the client (VaultClient), sends requests while pc is *)
(* "asking", and each request is answered, not answered, or refused with   *)
(* a 401.  What the requests do is left to the module that extends this.   *)
(***************************************************************************)
EXTENDS Integers

CONSTANT Backoff  \* vaultRetryBackoff, in ticks

ASSUME ConnectionAssumption == Backoff \in Nat \ {0}

VARIABLES
    world,      \* "steady": network, keychain, configuration and server all serve;
                \* "flaky": each use of them may fail or succeed
    client,     \* defaultVault, and whether the server honours its access token
    memory,     \* defaultVaultErr, "clear" for nil
    errAge,     \* time.Since(defaultVaultErrAt), up to Backoff
    pc,         \* where withVault is
    attempt,    \* which of its two calls of vaultClient withVault is in or past
    answer,     \* how this step ended a call, or "none"
    lastLogin,  \* history: how the last login of this process ended
    quiet,      \* history: time since it ended, up to Backoff
    origin      \* history: whether the call at hand logged in itself

connection == <<world, client, memory, errAge, pc, attempt, answer,
                lastLogin, quiet, origin>>

Answers == {"none", "ok", "rejected", "failed", "remembered", "no_login", "refused"}

ConnectionInit ==
    /\ world \in {"steady", "flaky"}
    /\ client = "none" /\ memory = "clear" /\ errAge = Backoff
    /\ pc = "idle" /\ attempt = 0 /\ answer = "none"
    /\ lastLogin = "none" /\ quiet = Backoff /\ origin = "cached"

\* Mutants (of Remembered, Drop, DateOf, GivesUp): an error is remembered until a
\* login succeeds; a refused client is kept for the second attempt; the time of
\* a failure is not noted; there is an attempt too many.
RememberedForGood == memory = "failed"
DropNothing(c) == c
DateKept(age) == age
GivesUpLate(n) == n = 3

\* defaultVaultErr answers for the server.
Remembered == memory = "failed" /\ errAge < Backoff

\* defaultVault after a 401, the age of an error just noted, and the last attempt.
Drop(c) == "none"
DateOf(age) == 0
GivesUp(n) == n = 2

\* vaultClient with c as defaultVault, up to the login if there is one.
VaultClient(c, n) ==
    /\ client' = c
    /\ \/ c # "none" /\ pc' = "asking" /\ attempt' = n /\ answer' = "none"
       \/ c = "none" /\ Remembered /\ pc' = "idle" /\ attempt' = 0 /\ answer' = "remembered"
       \/ c = "none" /\ ~Remembered /\ pc' = "login" /\ attempt' = n /\ answer' = "none"
    /\ UNCHANGED <<memory, errAge, lastLogin, quiet>>

\* A handler calls withVault ...
Call ==
    /\ pc = "idle"
    /\ pc' = "called" /\ attempt' = 1 /\ answer' = "none" /\ origin' = "cached"
    /\ UNCHANGED <<world, client, memory, errAge, lastLogin, quiet>>

\* ... which asks for the client.
GetClient ==
    /\ pc = "called"
    /\ VaultClient(client, 1)
    /\ UNCHANGED <<world, origin>>

\* connectVault has a configuration, the master password and the answer of
\* prelogin, with a KDF it supports.
Prelogin ==
    /\ pc = "login"
    /\ pc' = "token" /\ answer' = "none"
    /\ UNCHANGED <<world, client, memory, errAge, attempt, lastLogin, quiet, origin>>

\* connect/token yields an access token and a symmetric key that decrypts.
LoginOk ==
    /\ pc = "token"
    /\ client' = "honoured" /\ memory' = "clear"
    /\ pc' = "asking" /\ answer' = "none"
    /\ lastLogin' = "ok" /\ quiet' = Backoff /\ origin' = "own"
    /\ UNCHANGED <<world, errAge, attempt>>

\* connectVault fails, in any of these: the client it began is thrown away, and
\* a 401 is an error like any other.
LoginFails ==
    /\ pc \in {"login", "token"} /\ world = "flaky"
    /\ memory' = "failed" /\ errAge' = DateOf(errAge)
    /\ pc' = "idle" /\ attempt' = 0 /\ answer' = "no_login"
    /\ lastLogin' = "failed" /\ quiet' = 0
    /\ UNCHANGED <<world, client, origin>>

\* The operation ends with the answer r.
Reply(r) ==
    /\ pc = "asking"
    /\ pc' = "idle" /\ attempt' = 0 /\ answer' = r
    /\ UNCHANGED <<world, client, memory, errAge, lastLogin, quiet, origin>>

\* ... as asked, with what the vault says against it, or with a lost request.
Served == client = "honoured" /\ Reply("ok")
Rejected == client = "honoured" /\ Reply("rejected")

\* Mutant of Failed: withVault repeats what failed for whatever reason.
FailedRepeated ==
    /\ world = "flaky"
    /\ \/ attempt = 1 /\ pc = "asking" /\ VaultClient(client, 2) /\ UNCHANGED <<world, origin>>
       \/ attempt = 2 /\ Reply("failed")

Failed == world = "flaky" /\ Reply("failed")

\* Mutant of RefusedOnce: withVault calls itself for the second attempt.
RefusedUncounted ==
    /\ pc = "asking" /\ client = "ended"
    /\ ~GivesUp(attempt)
    /\ VaultClient(Drop(client), 1)
    /\ UNCHANGED <<world, origin>>

\* doJSON returns ErrUnauthorized to withVault.
RefusedOnce ==
    /\ pc = "asking" /\ client = "ended"
    /\ ~GivesUp(attempt)
    /\ VaultClient(Drop(client), attempt + 1)
    /\ UNCHANGED <<world, origin>>

RefusedAgain ==
    /\ client = "ended" /\ GivesUp(attempt)
    /\ Reply("refused")

\* The server ends the session of the access token (it may do so at any time; here,
\* while the world is flaky).
Expire ==
    /\ world = "flaky" /\ client = "honoured"
    /\ client' = "ended" /\ answer' = "none"
    /\ UNCHANGED <<world, memory, errAge, pc, attempt, lastLogin, quiet, origin>>

Turn ==
    /\ world' \in {"steady", "flaky"} \ {world}
    /\ answer' = "none"
    /\ UNCHANGED <<client, memory, errAge, pc, attempt, lastLogin, quiet, origin>>

Later(age) == IF age < Backoff THEN age + 1 ELSE Backoff

Tick ==
    /\ errAge < Backoff \/ quiet < Backoff
    /\ errAge' = Later(errAge) /\ quiet' = Later(quiet)
    /\ answer' = "none"
    /\ UNCHANGED <<world, client, memory, pc, attempt, lastLogin, origin>>

\* The process ends and a new one starts.
Restart ==
    /\ client' = "none" /\ memory' = "clear" /\ errAge' = Backoff
    /\ pc' = "idle" /\ attempt' = 0 /\ answer' = "none"
    /\ lastLogin' = "none" /\ quiet' = Backoff /\ origin' = "cached"
    /\ UNCHANGED world

ConnectionNext ==
    \/ Call \/ GetClient \/ Prelogin \/ LoginOk \/ LoginFails
    \/ Served \/ Rejected \/ Failed \/ RefusedOnce \/ RefusedAgain
    \/ Expire \/ Turn \/ Tick \/ Restart

ConnectionSpec == ConnectionInit /\ [][ConnectionNext]_connection

\* A handler goes on: http.Client gives a request up after 30 s.
Goes ==
    \/ GetClient \/ Prelogin \/ LoginOk \/ LoginFails
    \/ Served \/ Rejected \/ Failed \/ RefusedOnce \/ RefusedAgain

FairConnectionSpec == ConnectionSpec /\ WF_connection(Goes) /\ WF_connection(Tick)

(***************************************************************************)
(* Properties.                                                             *)
(***************************************************************************)

\* Types, and where a call may be.
ConnectionTypeOK ==
    /\ world \in {"steady", "flaky"}
    /\ client \in {"none", "honoured", "ended"}
    /\ memory \in {"clear", "failed"}
    /\ errAge \in 0..Backoff /\ quiet \in 0..Backoff
    /\ pc \in {"idle", "called", "login", "token", "asking"}
    /\ attempt \in 0..2 /\ (attempt = 0 <=> pc = "idle")
    /\ answer \in Answers
    /\ lastLogin \in {"none", "ok", "failed"}
    /\ origin \in {"cached", "own"}
    /\ pc = "asking" => client # "none"

\* No login begins within the backoff of the end of a login that failed, however
\* long that one took and whatever calls came in between (server.go:124-140).
BackoffHonoured ==
    [][pc' = "login" /\ pc # "login" /\ lastLogin = "failed" => quiet = Backoff]_connection

\* An error answered from memory is the outcome of the last login there was, and
\* still within its backoff: no failure outlives a later success (server.go:124-140).
MemoryIsOfLastLogin ==
    [][answer' = "remembered" => lastLogin = "failed" /\ quiet < Backoff]_connection

\* A call is told of a refusal only after the refusal of a client that the call
\* itself logged in: an ended session alone never fails a call (server.go:142-160).
RefusedOnlyAfterOwnLogin ==
    [][answer' = "refused" => origin = "own" /\ attempt = 2]_connection

\* How many steps a call may still take: up to four in each attempt.
StepsLeft ==
    IF pc = "idle" THEN 0
    ELSE 4 * (2 - attempt) + (IF pc = "called" THEN 4
                              ELSE IF pc = "login" THEN 3
                              ELSE IF pc = "token" THEN 2 ELSE 1)

\* Whatever the network and the server do, a call comes nearer to its end with each
\* step it takes and is never put back: it logs in twice at most, and repeats its
\* requests once at most (server.go:142-160).
CallsRunDown ==
    [][IF Goes THEN StepsLeft' < StepsLeft
               ELSE StepsLeft' <= StepsLeft \/ pc = "idle"]_connection

\* Every call ends, also when the server keeps ending sessions: the retry is not
\* a loop (server.go:142-160, vault/client.go:41).
CallsEnd == pc # "idle" ~> pc = "idle"

\* Nothing that went wrong has to be cured by a restart: once everything serves
\* again and calls keep coming to one process, calls reach the vault (server.go:90-94).
CallsReachTheVault ==
    /\ <>[](world = "steady")
    /\ <>[][~Restart]_connection
    /\ []<><<Call>>_connection
    => []<>(answer \in {"ok", "rejected"})
=============================================================================
