# cred-mcp in TLA+

cred-mcp is a JSON-RPC server on stdio that lets an AI client use secrets it never sees: it puts them on the
user's clipboard for a while, or seals them to a *consumer* MCP's session key. This directory holds
specifications of its state machines, the TLC runs that check them, and TLAPS proofs for every value of the
constants. `PROJECT.json` maps each definition to the Go lines it stands for.

    tlc -workers 2 -config MCSealedDelivery.cfg MCSealedDelivery    # model-check
    tlapm SealedDelivery_proofs.tla                                 # prove

## 1. Inventory

The program is one process per client. `Serve` (internal/mcp/server.go:457) reads a line, runs its handler to
the end and writes the answer, so **handlers of one process never overlap**. What does run beside them: the
goroutines that clear the clipboard, the user, the desktop's clipboard, other cred-mcp processes (one per
client, and `cred-mcp dev ...` in terminals) on the same keychain, index file and clipboard, the Vaultwarden
server, the clock.

| component | state | operations | what is hard | what makes it correct |
|---|---|---|---|---|
| session (internal/session) | state, unlockedAt, lastActivity, in memory | `Touch` at the gate of every tool, `Lock` | the prompt may stay open for minutes under the mutex; two timers; machine sleep | no silent pass outside both TTLs of a real approval; denial never leaves an active session |
| consumer registry (internal/registry, `loadRegistry`) | registry.yaml; the copy cached on first success | `Load`, `Lookup`, `CheckACL` | the file is edited while the copy lives; errors must not be cached | all decisions of a process refer to one copy |
| token store (internal/authz) | map of tokens, in memory | `Issue` (sweeps), `Consume` | retries, expiry, mismatch, restart | one approval, one use, in time, for what was approved |
| sealed delivery (internal/mcp/sealed.go) | the two above | `request_authorization`, `vault_seal` | prompt, fetch and process end between the steps | every box is backed by exactly one fitting approval |
| clipboard (internal/clipboard) | the OS clipboard; one goroutine per outstanding copy | `SetWithAutoClear`, `Clear`, `Read` | overlapping copies, the user writing in between, exit, failing tools | the secret leaves, the user's content stays |
| stash (internal/index, internal/keychain, stash handlers) | OS keychain; index.json | `save_stash`, `copy_stash`, `delete_stash`, `list_stash` | two stores written one after the other, several processes, a fixed .tmp name | list and keychain agree, or a repeat repairs them |
| vault connection (server.go:90-160, vault/client.go) | client, last error and its time | `vaultClient`, `withVault`, `Login` | a session that ends in the middle, a failed login that took its time, retry of an operation with an effect | one retry, no loop, backoff, recovery without restart |
| vault items (vault/item.go) | the server's ciphers | `Search`, `Secret`, `Add`, `Update` | Update is a GET and a PUT, and drops what the request type lacks; lost and late answers; other clients | a write happens once, the vault holds what users were told |
| vault crypto (vault/crypto.go) | none | padding, EncString | texts that fill their blocks, fields of another key or format | inverse of each other, rejects the rest |
| vault configuration | none | lookups | - | - |
| password dialog (internal/dialog) | none | `ReadSecret` | a dismissal opens the next kind of window | the chain ends, and an end without a password has no effect |
| seal, biometric, unlock policy | none | OS and library calls | waits for the user | - |
| request loop (server.go) | the request at hand; what clients wrote ahead | dispatch, session gate | handlers that wait in a window; lines written meanwhile; garbage, notifications, a line over 1 MB | every effect is paid by its own call; one answer each, in order, and a true one |

How they interact: `handleToolCall` calls `session.Touch` for every tool but `ping`, then the handler. The
stash and vault copy handlers call the clipboard; `vault_seal` calls the registry, the token store, the vault
and the sealing library in that order; `request_authorization` the registry, the OS prompt and the token store.
`hazards` in PROJECT.json lists what is hard to test, each at its line.

## 2. Modules

| module | models | state and actions |
|---|---|---|
| `Registry` | internal/registry | pure: `Load`, `matchAny`, `CheckACL`; a pattern is the set of names it matches, so "prefix*" needs no strings |
| `Authz` | internal/authz, `clamp` | pure: `Issue`, `Swept`, `Verdict`, `Consumed` on a store that is a set of entries |
| `ApprovalLedger` | what sealed delivery promises | abstract: `Grant`, `Lapse`, `Redeem`, `Deliver` |
| `SealedDelivery` | internal/mcp/sealed.go with both stores | `reg` = `defaultReg`, `store` = `defaultAuthzStore`, `call` = the handler that is blocked |
| `Session` | internal/session | the fields of `Session`, `prompt` = the locals of a `Touch` blocked in `s.unlock()` |
| `Clipboard` | internal/clipboard | `board` = the OS clipboard, `jobs` = the locals of each call and of its goroutine |
| `StashIndex` | internal/index, internal/keychain, `save_stash`, `delete_stash` | `keys` = the names in the keychain, `index` and `tmp` = the two files, `pc`, `kind`, `on`, `list`, `file` = the locals of each process's handler |
| `AtomicIndex` | what the index file promises its readers | abstract: `Prepare`, `Publish`, `Abandon`, `Delete` |
| `EncString` | vault/crypto.go | pure: `pkcs7Pad`, `pkcs7Unpad`, `encryptStr`, `decryptEncString` on sequences of bytes |
| `VaultConnection` | `vaultClient`, `withVault`, vault/client.go | `client` = `defaultVault` and what the server thinks of its token, `memory`, `errAge` = `defaultVaultErr`, `defaultVaultErrAt`, `pc`, `attempt` = where `withVault` is |
| `VaultItems` | vault/item.go, extends the two above | `items` = the server's ciphers, `op`, `raw` = the locals of the operation, `late` = a write on its way |
| `Server` | `Serve`, `handle`, `handleToolCall`, `readPassword`, `ReadSecret`, extends `Session` | `inbox` = stdin, `at`, `line`, `windows` = where the loop and its handler are, `reply` = what the handler returned |
| `CallService` | what the server promises its clients | abstract: `Write`, `Take`, `Admit`, `Decide`, `Answer`, `Stop` |
| `MCSealedDelivery`, `MCClipboard`, `MCStashIndex`, `MCVaultItems`, `MCServer` | - | instances for TLC (`Session` and `VaultConnection` need none: their constants are numbers) |
| `*_proofs` | - | theorems |

**SealedDelivery.** A handler is atomic up to the point where it blocks. `RequestAuthorization` answers, or
leaves `call.op = "prompt"`; `Approve` and `Decline` are the return of `biometric.Unlock`. `VaultSeal` answers,
or leaves `call.op = "fetch"` with the token consumed; `Fetched` and `FetchFailed` end it. While a handler is
blocked only the clock, the user's edits of the file and the end of the process can act; that is the request
loop's doing, and why the mutex of the store and of the registry need no steps of their own. The caller is
unconstrained: it may show any token, issued or not, with any item, any purpose and any bundle. A bundle is a
consumer id, an identity key and whether `credproto.VerifyBundle` accepts it. `Consume` takes its time after
releasing the mutex; nothing can happen in between in this process. What `rand.Read` yields is never repeated.
`grants` (with the time each was issued), `presented` and `lastIssue` are history: no guard reads them except that a
fresh token is one not in `grants`.

**Session.** `now` is what `time.Now().Sub` measures. Go's monotonic reading stands still while a Linux or macOS
machine sleeps, so the wall clock is `now + slept`. `proof`, `provedAt`, `provedWall`, `lastGrant` and `past`
are history. A zero `time.Time` is modelled as 0: it is never compared, because only an Active session is.

**Clipboard.** Each read and each write of the clipboard is a step. Timers are untimed, so a job may expire at
any moment after its write: every choice of TTLs is covered. `captured` is a call between its read and its
write, `waiting` a goroutine on its timer, `checked` a goroutine between its read and its write. A secret may
also be the user's own (the normal way to `save_stash` it): `owned` remembers which. Two more histories remember
what may cost a promise, when it happens. `spoiled` is for the promise about secrets, and speaks of each by itself: a
secret is in it when its call was cut short (its process ended, its terminal was interrupted, its last write failed),
or ended as the last to watch a secret that another call will put back (`LeftBy`). A new copy of that secret takes it
out again, and nothing that befalls one secret excuses another. `blame` is for the promise about the user's content:
`"broken"` when two calls hold one secret (as secret or as what one will restore) and one of them ends, when a
process ends, or when the clipboard fails; `"user"` when the user writes inside a window or copies the very
secret that a call will take off. `copy_stash`, `vault_copy` and `cred-mcp dev clipboard set` differ here only
in their process (`Owner`) and in whether their context can be canceled (`Terminals`).

**StashIndex.** A handler changes the keychain (`SaveStash`, `DeleteStash`), reads the index (`Load`), opens and
truncates the temporary file (`Open`), writes it (`Put`) and renames it (`Rename`); other processes may act between
any two of these. The mutex of `Index` is per process, where handlers do not overlap anyway. Only names are kept: a
name is or is not in the keychain, and a file holds a list of names, is empty, or is garbled (half a write, or two
over each other). `file` follows a descriptor that stays open while its file is renamed. Four history variables
record what may excuse a disagreement, when it happens: `stale` (the list in hand was replaced or removed
meanwhile), `contested` (another process, or the user's own tools, touched the same name meanwhile), `collided` (two
saves had the temporary file at once), and the result, `drift`, the names at which keychain and index may now
differ. A handler that meets none of these takes its name *out* of `drift`, and this is the repair the code
promises (server.go:666-669). `AtomicIndex` is the comment at index.go:175: no temporary file, no descriptors, a
list is there at once or not at all. A process is "saving" the list it made from its load to its rename, and `apart`
is `collided = "never"`, for after a collision the file promises nothing (finding 3).

**EncString.** A ciphertext is the padded text with the name of its key: CBC is taken as injective and the MAC
as right exactly under its own key, so the checks that remain are the code's: the format, the type, the key, the
length, and every byte of the padding. What a text decodes to from base64 has no property of its own.

**VaultConnection.** A login is cut where it waits (`Prelogin`, then `LoginOk`), as is each request; between two
steps the clock runs, the server may end the session and the process may end. `world` says whether anything may
fail just now: keychain, network and server are "steady" or "flaky", and change as they please. A 401 in the middle
of a login is a failed login like any other, because only what `fn` returns is compared with `ErrUnauthorized`.
`lastLogin`, `quiet` and `origin` are history. `errAge` is kept up to `Backoff`: the code only compares it with that.

**VaultItems.** Its steps are steps of `VaultConnection` with what they do to the items: `Write` is a `Served`
request, `WriteUnanswered` and `WriteDelayed` are `Failed` ones whose effect stands or is still to come
(`LateWrite`). `Get` leaves the call waiting for its PUT; a 401 on the PUT starts the whole `Update` anew, with a
new GET (`Reread`). An item is its four encrypted fields and `rest`, all that `rawCipher` does not read. `told` is
history: what users were last told an item holds, by reading it, by an acknowledged write, or by their own edit in
another client. It becomes `Unknown` where nobody can know: after a write without an answer, for a field edited
while an update has its GET behind it and its PUT before it, and for the item a late write lands on. An unanswered
write makes unknown only what it names.

**Server.** Its steps are steps of `Session` or leave it alone; `Pass`, `Ask` and `Deny` are the gate. A line is one
of six kinds; `Refused` and `Unconfigured` are the checks behind the gate, the latter a choice because
`vaultConfigured` looks at environment and keychain on every call. `done` counts the effects of the last line and is
the tool's whole work; for `ping` there is none, and a tool in `LeavesTraces` may have one although it reports an
error. `windows` is what is left of `ReadSecret`'s chain: its head is on the screen. `request_authorization` waits
in a single one. `biometric.Unlock` on a Linux that is not WSL asks nobody and says yes: `Ask` followed at once by
`Pass`. `CallService` is the same server to someone who sees its stdin and stdout only: gate, prompts and dialogs are
gone, and what is left of them is whose consent a request has. `Decide` is the end of a handler, whichever of its
returns that is; a consent is to the request at hand and to no other.

## 3. Runs

| run | bounds | shows |
|---|---|---|
| `sealed_delivery` | 3 consumers (approval required, auto, in no file), 2 items, 2 keys, 2 tokens, 4 files, TTLs 1 and 2, box TTL 1, clock to 2; 305,760 states | all properties of `SealedDelivery`, and that it implements `ApprovalLedger` |
| `session` | idle 2, absolute 4, clock to 9, sleep to 1; 20,495 states | all properties of `Session` that hold |
| `session_sleep` | as above | finding 2 |
| `clipboard` | 3 calls of 2 processes, 2 secrets, 1 text and the empty clipboard, exits and failures; 813,060 states | safety of the clipboard |
| `clipboard_live` | 2 calls of 2 processes, 2 secrets, exits and failures; 123,176 states | `SecretsLeave` |
| `clipboard_overlap` | 2 calls | finding 1 |
| `stash_index` | 2 processes, 2 names, failing files, crashes; 149,995 states | safety of the stash, and that it implements `AtomicIndex` |
| `stash_shared_tmp` | the same without failures | finding 3 |
| `vault_connection` | backoff 5; 106 states | all properties of `VaultConnection`, with liveness |
| `vault_items` | an item and an id to add another, blocks of 2, backoff 1; about 1,043,000 states | all properties of `VaultItems` that hold |
| `vault_update_drops` | as above | finding 4 |
| `server` | 3 lines of 10 kinds, 2 dialogs, TTLs 1, clock to 2; 169,682 states | all properties of `Server`, with liveness, and that it implements `CallService` |

*Why the bounds are enough.* Two tokens let one be presented, lapse or be lost while the other is live, and be
redeemed out of order; two items and three consumers give every binding a wrong counterpart; `OpenFile` and
`TightFile` differ in keys, items, purposes and modes, `BrokenFile` has one bad key and `Unreadable` is a missing
file. The clock reaches 2, so a token with the default TTL of 1 can be fresh, at its last moment and expired, before
and after a sweep; asked TTLs are negative, unset and above the maximum, those of boxes unset and above it. The
session clock runs to 9, past two absolute TTLs. Three calls are the least with a chain (one captures the secret of
a second that captured the secret of a third), and two processes the least where two calls may both be between read
and write. Two processes are what a race for the index takes, and two names tell a lost foreign entry from a lost
own one. A backoff of 5 lets a login fail, wait, be asked for again too early, and fail once more before the first
is forgotten. The first vault of `vault_items` holds an item whose texts do and do not fill their blocks, the same
with a username under another key, or a note; calls search, copy, add, rename the user, and empty the URIs, so that
each update leaves fields alone that another client edits. One call after another and one late write at a time
suffice for every order of a GET, a PUT, an edit and a late write. Three lines are one before, one at and one behind
an open window; there is a line of each kind the loop tells apart, and a call with bad arguments of a tool that
reads them and of one that does not; the TTLs let the session expire in the middle. The proofs remove the bounds for
every property they cover.

*Reductions.* Tokens are interchangeable, and so are the server's two calls, the texts, the secrets, the processes
and the names (SYMMETRY, safety runs only). `VIEW NoReply` drops the output `reply`, which no guard reads: states
that differ only there have the same successors, and properties that mention `reply'` are checked on every step.

*Fairness.* `FairSpec` has weak fairness for `Write`, `Check` and `Restore` of each call: a handler that has
begun runs to its end, and a goroutine whose timer has fired is scheduled. It has none for the user, for new
calls, for exits. An exit excuses the secrets of the process that ended, not those of the others. `SecretsLeave` ends
with the secret off the clipboard or copied anew by a call that is about to write it: Go does not keep one goroutine
from checking just while another call has that secret on the clipboard once more.
`FairConnectionSpec` has it for the steps of a handler in `withVault`, each of which is ended by the 30 s timeout
of its `http.Client` (client.go:41) if by nothing else (a keychain that asks the user first is taken to be
answered), and for the clock. `CallsEnd` needs no more;
`CallsReachTheVault` says as its premises that things work again for good, that calls keep coming and that
restarts do not. `FairServerSpec` has it for the loop outside the windows: reading, the gate, a handler, the answer.
It has none for clients, for users, for the end of the process; `RequestsAreAnswered` has as its premise that no
window stays open for good.

*Deadlock* is checked in every run.

*Mutants.* Each property of a passing run has a mutated definition beside the original (a dropped comparison, a
missing sweep, the wrong local); the property fails when it takes the original's place.

### Findings

1. `clipboard_overlap` (internal/clipboard/clipboard.go:83, 114): copy A, copy B within A's TTL. B captures A's
   secret; A's goroutine sees B's secret and gives up; B's goroutine writes A's secret back. It stays.
2. `session_sleep` (internal/session/session.go:123): eight hours are eight hours of a machine that is awake.
3. `stash_shared_tmp` (internal/index/index.go:187-191): both processes write the one `index.json.tmp`. A opens, writes
   it; B opens (truncates) it; A renames an empty file to index.json. If B ends here every later `Add`, `Remove` and
   `List` fails until the user deletes the file; the comment at line 175 says the write is atomic.
4. `vault_update_drops` (internal/vault/item.go:250): the PUT carries name, username, password and URIs only, so an
   update that names the URIs takes notes, favorite, reprompt, custom fields, the TOTP seed and the match rules off
   the item, although line 196 and the tool's description (server.go:350) promise otherwise. A name or username that
   does not decrypt is written back empty (lines 212, 216), which `told` does not count: nobody could read it.

Smaller ones, seen in the models but not runs of their own. On the clipboard, each is an excuse in `spoiled` or
`blame`: a process that ends within the TTL never clears (server.go:625); what the user copies between the
goroutine's read and its write is overwritten (clipboard.go:105-114); the timer of a first copy takes off a second
copy of the same secret (clipboard.go:111). In the session, the timers start when the prompt appears and not when it
is passed (session.go:120, 147), so a late answer shortens the session it opens. In the loop, an unknown method is
answered even when it is a notification (server.go:510), `ping` waits behind an open window like everything else,
and a call to a tool that does not exist, or with bad arguments, asks the user to unlock before it is refused.

## 4. Proofs

Assumptions are only the named `ASSUME`s beside the constants: that the exceptional values (no entry, bad hex,
unreadable, no registry) differ from ordinary ones, that bounds are naturals and TTLs positive, that texts, secrets and
the empty clipboard differ, that the block and the backoff are positive, and that what clients ask for is well
formed. TLC evaluates them in the runs.

**SealedDelivery_proofs.** Types need one more fact, `PromptOK`: while a handler waits at the prompt a registry
is cached and it lists the consumer (otherwise the mode recorded with the token would be undefined). The safety
properties are not inductive: a box is backed by a grant only because the token in the store was, and
`OneBoxPerToken` only because a token that is being redeemed or was paid out is in no other place. `DeliveryInv`
says where a token may be: in the store, in the blocked fetch or in one box, and each with its grant. Every
action is first shown to be one of four kinds (`StepKinds`: issue, redeem, deliver, or quiet, in which tokens
only disappear); the invariant and the refinement are then proved once per kind. `Implementation` maps the
store to the open grants, the blocked fetch to the redeemed one and the boxes to the delivered ones.

**Session_proofs.** `SessionInv` ties the timers of an Active session to the history: `unlockedAt <= provedAt` and
`lastActivity <= lastGrant`. A late answer therefore only ever shortens a session; this is why
`SilentGrantsAreRecent` holds in spite of it.

**Clipboard_proofs.** `SecretsAreWatched` is not inductive: a goroutine may write a secret it captured. `WatchInv`
adds, secret by secret, that such a secret is watched too, by *another* call. A call that goes on takes no watcher
away (`StayKeepsWatch`); one that ends takes one from no secret but those it spoils (`EndKeepsWatch`).
`UserContentKept` says at every moment what is on the clipboard, hence what `save_stash` may read; it depends on the
whole chain of captured values. The invariant (`KeptInv`): as long as nothing is to blame, the calls at work fall
into two groups. The *live* ones hold the user's content, or a secret that another live goroutine watches, to put
back; so does the clipboard. The *dead* ones were overtaken by the user: their secret is not what the user has
written since, and where one of them still takes the clipboard for its own, that secret is a live call's too, so
that its end is something to blame. Which call is live is not a function of the state (two calls may hold equal
secrets), so the invariant says that there is such a set; every step says which set is the next one (`NextKept`),
and a call that ends unentangled leaves the others live (`EndKeepsLive`).

**StashIndex_proofs.** `StoresAgree` speaks of names nobody is at work on; what makes it inductive are the handlers
in between. `FilesInv`: before any collision, an opened temporary file belongs to one save and holds its list once
written. `AloneInv`: an uncontested handler is alone at its name and the keychain is as it left it. `LoadedInv`: a
list that is not stale differs from the index at the handler's name only. Any number of processes and names.
`AtomicImplementation` uses the same invariant: a rename publishes exactly the list in hand, because the temporary
file is the handler's own and holds that list (`StepRefines`). `Load` is `Prepare`, `Rename` is `Publish`, every
failure and every crash is `Abandon`, and the steps in between are none to a reader.

**EncString_proofs.** `UnpadPad` and `UnpadOnlyPadded`: for every text and block size, unpadding undoes padding, and
what unpads was padded. `DecryptEncrypt` follows, with the empty text (which is not encrypted at all) as a case.

**VaultConnection_proofs.** `MemoryInv`: while there is a client nothing is remembered, and what is remembered is the
last login's failure, as old as `errAge` says. `AttemptInv`: a second attempt that asks has logged in itself.
`CallsAreBounded` is the safety half of `CallsEnd`: a number that every step of a call makes smaller and none makes
larger (`StepsLeft`), at most 8. What is left to fairness is only that the steps are taken.

**VaultItems_proofs.** Every step is one of the connection (`StepOfConnection`), so `ItemsUseTheConnection` and the
connection's invariant and its theorems (`ItemsKeepTheConnection`) come for free. `OncePerCall` needs that a call
that goes on has written nothing (`EffectsInv`): a write leaves `withVault`, and only a 401, which writes nothing,
leads to a second attempt. `VaultHoldsWhatWasTold` needs that an open update has read what users are told of
(`RawInv`); `BodyReads` then says what the PUT holds, by `DecryptEncrypt`. `WhatAnUpdateLeaves` is the operation by
itself, for every item and every request: of what the request does not name, password and URIs stay as they are, a
name or username that can be read reads as before and one that cannot becomes empty, and the rest survives only
where there is none.

**Server_proofs.** Every step is one of the session (`StepOfSession`), so the session's theorems hold of the loop
(`ServerGrantsAreRecent`). `PaidInv`: a handler at work has the grant of its own line, and no effect yet; `LineInv`:
that line is the last one read. `AnsweredOnceInOrder` needs only that answers are numbers of lines read.
`ServiceImplementation` adds that no consent is to a line not yet read (`CountInv`): `Read` clears the consents by
moving on. `Pass` is `Admit`, `Deny` and every return of a handler are `Decide` (`DecideRefines`); opening and
dismissing windows, prompts and the clock are stutters. `LinesRunDown` is the safety half of `RequestsAreAnswered`:
for every chain of dialogs, each step on a line brings its answer nearer.

**What the findings hang on.** Three of the properties that are violated are proved under the one assumption that
takes the cause away, which shows that there is no other cause: `OneCallLeavesNothing` (finding 1: with one call that
neither ends early nor fails, no secret stays), `AwakeKeepsTheWall` (2: on a machine that never sleeps the absolute TTL
holds on the wall; `SleepIsAllItGains` bounds the gain by the time slept), `OneProcessSavesAtomically` (3: with one
process the index is always whole, whatever fails or crashes). TLC refutes each without its assumption. Finding 4 hangs
on no circumstance; `WhatAnUpdateLeaves` says exactly what is lost.

*Only model-checked:* `SecretsLeave`, `CallsEnd`, `CallsReachTheVault`, `RequestsAreAnswered`: liveness under fairness
(and the ENABLED in it) is beyond the prover; for the second and the fourth the decreasing number above is proved.
No module declares a recursive operator, so nothing is out of reach for that reason.

## 5. Not modelled

The values in the stash: in the plan below. What `save_stash` may find on the clipboard is `UserContentKept`; that
it stores what it found, and that `copy_stash` reads it back, is not in a model. An edit that another client makes
between an update's GET and its PUT is lost, as the code has no means to notice; `told` excuses it. The matching of
a query in `Search`, and the strings a pattern of the registry is made of. Key derivation, ciphers and sealing:
straight lines over libraries. The commands that show a dialog or a biometric prompt and the parsing of what they
print, configuration and `dev biometric`: calls into the OS without state of their own; where they can fail or wait,
the models that call them do. The choice of the unlock policy: made once at start, and then one of the answers
`Session` allows. `dev keychain set` and `del` are `DevSet` and `DevDelete` of `StashIndex`. `PurgeExpired`,
`Snapshot` and the test seams have no caller in the program or change nothing.

## 6. Plan

Done: `Registry`, `Authz`, `ApprovalLedger`, `SealedDelivery`, `Session`, `Clipboard`, `StashIndex`, `EncString`,
`VaultConnection`, `VaultItems`, `Server`, their runs and proofs.

Next, in this order:

1. Values in the stash: `save_stash` reads the clipboard, `copy_stash` the keychain; `StashIndex` with `Clipboard`.
2. The unlock policy of `main` against `biometric.Available`, as the choice of `Server`'s initial state.
3. `matchAny` as a function on strings of a small alphabet against the sets of `Registry`.
4. `Session` as a lease, an abstract specification the loop would use instead of it.
