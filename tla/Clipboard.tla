----------------------------- MODULE Clipboard -----------------------------
(***************************************************************************)
(* Secrets on the OS clipboard (internal/clipboard).  copy_stash and       *)
(* vault_copy of any cred-mcp process, and `cred-mcp dev clipboard set`,   *)
(* call SetWithAutoClear: it remembers what is on the clipboard, writes    *)
(* the secret, and leaves a goroutine that after the TTL puts the old      *)
(* value back if the secret is still there.                                *)
(*                                                                         *)
(* The clipboard belongs to the desktop: the processes and the user share  *)
(* it without a lock, and each read and each write of it is a step of its  *)
(* own.  Timers are untimed: once its secret is written a job may expire   *)
(* at any moment, so the model covers every choice of TTLs.                *)
(***************************************************************************)
CONSTANTS
    Jobs,        \* one per call whose goroutine may be outstanding
    Processes,
    Owner,       \* the process of each job
    Terminals,   \* the processes that are `cred-mcp dev`: the user may ^C them
    Texts,       \* what only the user copies
    Secrets,     \* what cred-mcp copies; the user may copy them too, to save them
    Empty,       \* "", an empty clipboard
    MayExit,     \* whether processes end while a job is outstanding
    MayFail      \* whether reads and writes of the clipboard may fail

ASSUME ClipboardAssumption ==
    /\ Owner \in [Jobs -> Processes]
    /\ Terminals \subseteq Processes
    /\ Texts \cap Secrets = {}
    /\ Empty \notin Texts \cup Secrets
    /\ MayExit \in BOOLEAN /\ MayFail \in BOOLEAN

VARIABLES
    board,     \* the clipboard
    jobs,      \* the locals of each SetWithAutoClear call and of its goroutine
    lastUser,  \* history: what the user last put on the clipboard
    owned,     \* history: the secrets the user has copied himself
    spoiled,   \* history: the secrets an accident may leave on the clipboard
    blame      \* history: what has happened that may cost the user his text

vars == <<board, jobs, lastUser, owned, spoiled, blame>>

Values == Texts \cup Secrets \cup {Empty}
\* "broken": calls got entangled, a process ended or the clipboard failed;
\* "user": the user wrote in a window of a call, or copied its very secret.
Blames == {"broken", "user"}

\* captured: prev is read, the secret not yet written; waiting: the timer runs;
\* checked: the goroutine has read the clipboard and will write prev.
Job == [pc : {"idle", "captured", "waiting", "checked"},
        secret : Secrets \cup {Empty}, prev : Values]
IdleJob == [pc |-> "idle", secret |-> Empty, prev |-> Empty]

Active(j) == jobs[j].pc # "idle"
Watches(j) == jobs[j].pc \in {"waiting", "checked"}
WatchedBy(j, s) == Watches(j) /\ jobs[j].secret = s

Init ==
    /\ board \in Values
    /\ jobs = [j \in Jobs |-> IdleJob]
    /\ lastUser = board
    /\ owned = {board} \cap Secrets
    /\ spoiled = {} /\ blame = {}

(***************************************************************************)
(* What can cost the promises, recorded when it happens.                   *)
(***************************************************************************)

\* The secret of j, when j ends as the last call that would take it off although
\* another call is going to put it back.
LeftBy(j) ==
    {s \in {jobs[j].secret} :
        \E k \in Jobs \ {j} :
            /\ Active(k) /\ jobs[k].prev = s
            /\ \A i \in Jobs \ {j, k} : ~WatchedBy(i, s)}

\* Another call still holds the secret of j, as its own or as what it will
\* restore, when j ends.
Entangled(j) ==
    \E k \in Jobs \ {j} :
        Active(k) /\ jobs[j].secret \in {jobs[k].secret, jobs[k].prev}

BlameIf(condition, what) == IF condition THEN {what} ELSE {}

\* The user writes while a call stands between a read and the write it leads to.
InWindow == \E j \in Jobs : jobs[j].pc \in {"captured", "checked"}

\* The user copies the very secret that a call will take off again.
TwinOf(v) == \E j \in Jobs : Active(j) /\ jobs[j].secret = v

(***************************************************************************)
(* SetWithAutoClear.                                                       *)
(***************************************************************************)

\* Mutant of MayCall: handlers run side by side.
MayCallAnyTime(j) == TRUE

\* A request loop runs one handler at a time.
MayCall(j) == \A k \in Jobs : Owner[k] = Owner[j] => jobs[k].pc # "captured"

Capture(j, s) ==
    /\ ~Active(j) /\ MayCall(j)
    /\ \/ /\ jobs' = [jobs EXCEPT ![j] = [pc |-> "captured", secret |-> s, prev |-> board]]
          /\ blame' = blame
       \/ /\ MayFail
          /\ jobs' = [jobs EXCEPT ![j] = [pc |-> "captured", secret |-> s, prev |-> Empty]]
          /\ blame' = blame \cup {"broken"}
    /\ UNCHANGED <<board, lastUser, owned, spoiled>>

\* The write, after which the secret has a goroutine again, unless that one would
\* put it back; if it fails the call answers an error and leaves no goroutine.
Write(j) ==
    /\ jobs[j].pc = "captured"
    /\ \/ /\ board' = jobs[j].secret
          /\ jobs' = [jobs EXCEPT ![j].pc = "waiting"]
          /\ spoiled' = spoiled \ ({jobs[j].secret} \ {jobs[j].prev})
       \/ /\ MayFail
          /\ board' = board
          /\ jobs' = [jobs EXCEPT ![j] = IdleJob]
          /\ spoiled' = spoiled
    /\ UNCHANGED <<lastUser, owned, blame>>

(***************************************************************************)
(* The wait function.                                                      *)
(***************************************************************************)

\* Mutants of StillOurs: the clipboard is not compared, or with the wrong value.
StillOursUnread(j) == TRUE
StillOursPrev(j) == board = jobs[j].prev

StillOurs(j) == board = jobs[j].secret

\* The TTL is over: read the clipboard.
Check(j) ==
    /\ jobs[j].pc = "waiting"
    /\ \/ /\ StillOurs(j)
          /\ jobs' = [jobs EXCEPT ![j].pc = "checked"]
          /\ spoiled' = spoiled /\ blame' = blame
       \/ /\ ~StillOurs(j)                                  \* UserModified
          /\ jobs' = [jobs EXCEPT ![j] = IdleJob]
          /\ spoiled' = spoiled \cup LeftBy(j)
          /\ blame' = blame \cup BlameIf(Entangled(j), "broken")
       \/ /\ MayFail                                        \* restore anyway
          /\ jobs' = [jobs EXCEPT ![j].pc = "checked"]
          /\ spoiled' = spoiled
          /\ blame' = blame \cup {"broken"}
    /\ UNCHANGED <<board, lastUser, owned>>

\* Mutant of Restored: the wrong local is written.
RestoredSecret(j) == jobs[j].secret

Restored(j) == jobs[j].prev

\* Write prev back; an error of the write is dropped.
Restore(j) ==
    /\ jobs[j].pc = "checked"
    /\ \/ /\ board' = Restored(j)
          /\ spoiled' = spoiled \cup LeftBy(j)
          /\ blame' = blame \cup BlameIf(Entangled(j), "broken")
       \/ /\ MayFail
          /\ board' = board
          /\ spoiled' = spoiled \cup {jobs[j].secret}
          /\ blame' = blame \cup {"broken"}
    /\ jobs' = [jobs EXCEPT ![j] = IdleJob]
    /\ UNCHANGED <<lastUser, owned>>

\* ctx.Done in a terminal: the secret stays.  (The tools pass a context that
\* is never canceled.)
Cancel(j) ==
    /\ jobs[j].pc = "waiting" /\ Owner[j] \in Terminals
    /\ jobs' = [jobs EXCEPT ![j] = IdleJob]
    /\ spoiled' = spoiled \cup {jobs[j].secret}
    /\ blame' = blame \cup {"broken"}
    /\ UNCHANGED <<board, lastUser, owned>>

\* A process ends, and its goroutines with it; those of other processes go on.
Exit(p) ==
    /\ MayExit
    /\ \E j \in Jobs : Owner[j] = p /\ Active(j)
    /\ jobs' = [j \in Jobs |-> IF Owner[j] = p THEN IdleJob ELSE jobs[j]]
    /\ spoiled' = spoiled \cup {jobs[j].secret : j \in {k \in Jobs : Owner[k] = p /\ Watches(k)}}
    /\ blame' = blame \cup {"broken"}
    /\ UNCHANGED <<board, lastUser, owned>>

(***************************************************************************)
(* The user.                                                               *)
(***************************************************************************)
UserWrite(v) ==
    /\ board' = v
    /\ lastUser' = v
    /\ owned' = owned \cup ({v} \cap Secrets)
    /\ blame' = blame \cup BlameIf(InWindow \/ TwinOf(v), "user")
    /\ UNCHANGED <<jobs, spoiled>>

UserCopies == \E v \in Texts \cup Secrets : UserWrite(v)

\* `cred-mcp dev clipboard clear`
Clear == UserWrite(Empty)

Next ==
    \/ \E j \in Jobs :
         \/ \E s \in Secrets : Capture(j, s)
         \/ Write(j) \/ Check(j) \/ Restore(j) \/ Cancel(j)
    \/ \E p \in Processes : Exit(p)
    \/ UserCopies
    \/ Clear

Spec == Init /\ [][Next]_vars

\* A handler runs to its end, a timer fires and its goroutine is scheduled, as
\* long as the process lives.  Nothing makes the user or a new call act.
Fairness == \A j \in Jobs : WF_vars(Write(j)) /\ WF_vars(Check(j)) /\ WF_vars(Restore(j))

FairSpec == Spec /\ Fairness

(***************************************************************************)
(* Properties.                                                             *)
(***************************************************************************)

\* Types, and one handler at a time in a process (clipboard.go:75-117).
TypeOK ==
    /\ board \in Values
    /\ jobs \in [Jobs -> Job]
    /\ \A j \in Jobs : Active(j) => jobs[j].secret \in Secrets
    /\ \A j, k \in Jobs :
         jobs[j].pc = "captured" /\ jobs[k].pc = "captured" /\ Owner[j] = Owner[k]
            => j = k
    /\ lastUser \in Values
    /\ owned \subseteq Secrets /\ spoiled \subseteq Secrets
    /\ blame \subseteq Blames

Settled == \A j \in Jobs : ~Active(j)

\* On the clipboard, and only because cred-mcp put it there.
Exposed(s) == board = s /\ s \in Secrets \ owned

\* A secret on the clipboard always has a goroutine that will take it off, however
\* calls overlap, whatever the user writes and whichever reads fail, unless it is
\* itself the secret of a call that was cut short (a process ended, a terminal was
\* interrupted, the last write failed) or that ended before one that will put it
\* back.  What befalls the call of one secret is no excuse for another
\* (clipboard.go:83-116, server.go:625).
SecretsAreWatched ==
    \A s \in Secrets \ spoiled : Exposed(s) => \E j \in Jobs : WatchedBy(j, s)

\* At every moment, and so whenever save_stash reads it (server.go:654), the
\* clipboard holds what the user last put there or the secret of a call that is
\* still to put it back; when no call is outstanding, the former: what was there
\* before the secret is back, and what the user put in its place was left alone
\* (clipboard.go:64-68), if nothing in blame happened.
UserContentKept ==
    blame = {} => board = lastUser \/ \E j \in Jobs : WatchedBy(j, board)

\* A secret does leave the clipboard (clipboard.go:2-3) or is copied anew, whatever
\* becomes of the processes of other secrets, unless it is spoiled.
CopiedAgain(s) == \E j \in Jobs : jobs[j].pc = "captured" /\ jobs[j].secret = s
SecretsLeave ==
    \A s \in Secrets : Exposed(s) ~> ~Exposed(s) \/ CopiedAgain(s) \/ s \in spoiled

\* What the package comment and the note of copy_stash say without excuse: once
\* every TTL is over no secret is on the clipboard (clipboard.go:1-4,
\* server.go:635).
NoSecretLeftBehind == Settled => \A s \in Secrets : ~Exposed(s)
=============================================================================
