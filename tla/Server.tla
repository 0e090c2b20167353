------------------------------- MODULE Server -------------------------------
(***************************************************************************)
(* The request loop (internal/mcp/server.go): Serve reads one line of      *)
(* stdin after the other, handles it to its end and writes the answer.     *)
(* Before a tool runs the call passes the session (module Session); a      *)
(* handler may then wait for the user once more, in the password dialogs   *)
(* of internal/dialog or in the prompt of request_authorization.  Clients  *)
(* write ahead, and everything behind a window that is open waits.         *)
(*                                                                         *)
(* What a tool does is one effect here: the stash, the clipboard, the      *)
(* vault and the tokens have modules of their own.                         *)
(***************************************************************************)
EXTENDS Session, Sequences

CONSTANTS
    Requests,   \* the lines clients write
    MaxLines,   \* bound on the lines of one process
    Dialogs     \* the windows ReadSecret tries on this machine, in turn

VaultTools == {"vault_search", "vault_add", "vault_update", "vault_copy",
               "request_authorization", "vault_seal"}
Windows == {"osascript", "powershell", "zenity", "kdialog", "tty", "biometric"}
Tools == {"ping", "copy_stash", "save_stash", "delete_stash", "list_stash"} \cup VaultTools

\* "other": initialize, tools/list, an unknown method, tools/call with params
\* that do not parse.  A call names its tool, whether its arguments are good,
\* and whom its handler asks.
Line == [kind : {"blank", "garbled", "oversized", "notification", "other", "call"},
         tool : Tools \cup {"unknown"},
         args : {"good", "bad"},
         asks : {"nobody", "password", "approval"}]

ASSUME ServerAssumption ==
    /\ Requests \subseteq Line
    /\ MaxLines \in Nat
    /\ Dialogs \in Seq(Windows) /\ Dialogs # <<>>

VARIABLES
    inbox,      \* lines written and not read
    at,         \* where the loop is
    line,       \* the request being handled
    windows,    \* the window its handler waits in, and those to try after it
    reply,      \* what the handler returned
    read,       \* history: the lines read, each one's number is its place
    answers,    \* history: the numbers of the lines answered
    granted,    \* history: the number of the call the session last let pass
    confirmed,  \* history: the number of the call in which the user last confirmed
    done        \* history: the effects of the last line

loop == <<inbox, at, line, windows, reply, read, answers, granted, confirmed, done>>
server == <<now, slept, state, unlockedAt, lastActivity, prompt, answer,
            proof, provedAt, provedWall, lastGrant, past,
            inbox, at, line, windows, reply, read, answers, granted, confirmed, done>>

NoLine == [kind |-> "blank", tool |-> "unknown", args |-> "bad", asks |-> "nobody"]

\* Mutants (of Silent, EndsLoop, Gated, AfterDismissal, Last): a notification is
\* answered; a line that does not parse ends the loop; a tool skips the session;
\* a handler does not look at the error of the dialog; one window too many.
SilentButNotified(l) == l.kind \in {"blank", "garbled"}
EndsLoopGarbled(l) == l.kind \in {"oversized", "garbled"}
GatedButList(l) == l.tool \notin {"ping", "list_stash"}
AfterDismissalOk == "ok"
LastButOne(ws) == Len(ws) = 0

\* What gets no answer.  Anything else gets one, even a request without an id.
Silent(l) == l.kind \in {"blank", "garbled", "notification"}

\* A line above 1 MB ends the scanner.
EndsLoop(l) == l.kind = "oversized"

Gated(l) == l.tool # "ping"
AfterDismissal == "error"
Last(ws) == Len(ws) = 1

\* Refused by the dispatch behind the session, or by the checks of the handler, which
\* ping and list_stash have none of ...
Refused(l) ==
    \/ l.tool = "unknown"
    \/ l.args = "bad" /\ l.tool \notin {"ping", "list_stash"}

\* ... or because vaultConfigured, asked anew by each call, finds no URL.
Unconfigured(l) == l.tool \in VaultTools

WindowsOf(l) == IF l.asks = "password" THEN Dialogs ELSE <<"biometric">>

ServerInit ==
    /\ Init
    /\ inbox = <<>> /\ at = "idle" /\ line = NoLine
    /\ windows = <<>> /\ reply = "none"
    /\ read = <<>> /\ answers = <<>>
    /\ granted = 0 /\ confirmed = 0 /\ done = 0

\* A client writes a line, whatever the loop is doing.
Send ==
    /\ Len(read) + Len(inbox) < MaxLines
    /\ \E l \in Requests : inbox' = Append(inbox, l)
    /\ UNCHANGED vars
    /\ UNCHANGED <<at, line, windows, reply, read, answers, granted, confirmed, done>>

(***************************************************************************)
(* One turn of the loop.                                                   *)
(***************************************************************************)

\* How far a line gets before the loop waits, for the next one or for a handler.
Reached(l) ==
    IF EndsLoop(l) THEN "ended"
    ELSE IF Silent(l) THEN "idle"
    ELSE IF l.kind = "other" THEN "replying"
    ELSE IF Gated(l) THEN "gate" ELSE "handling"

\* scanner.Scan, and handle as far as the session.  The dispatch is a single
\* chokepoint: every tool but ping passes the gate, even one that does not exist.
Read ==
    /\ at = "idle" /\ inbox # <<>>
    /\ line' = Head(inbox) /\ inbox' = Tail(inbox)
    /\ read' = Append(read, line')
    /\ at' = Reached(line')
    /\ reply' = IF at' = "replying" THEN "answered" ELSE "none"
    /\ done' = 0
    /\ UNCHANGED vars /\ UNCHANGED <<windows, answers, granted, confirmed>>

\* The session lets the call pass, at once or after its prompt ...
Pass ==
    /\ \/ at = "gate" /\ TouchActive
       \/ at = "prompt" /\ UnlockGranted
    /\ at' = "handling" /\ granted' = Len(read)
    /\ UNCHANGED <<inbox, line, windows, reply, read, answers, confirmed, done>>

\* ... asks the user ...
Ask ==
    /\ at = "gate" /\ TouchPrompt
    /\ at' = "prompt"
    /\ UNCHANGED <<inbox, line, windows, reply, read, answers, granted, confirmed, done>>

\* Mutant of Deny: the handler runs whatever Touch returns.
DenyIgnored ==
    /\ at = "prompt" /\ UnlockDenied
    /\ at' = "handling"
    /\ UNCHANGED <<inbox, line, windows, reply, read, answers, granted, confirmed, done>>

\* ... or denies it.
Deny ==
    /\ at = "prompt" /\ UnlockDenied
    /\ at' = "replying" /\ reply' = "denied"
    /\ UNCHANGED <<inbox, line, windows, read, answers, granted, confirmed, done>>

\* The handler returns without an effect, or after it.
Returns(r) == at' = "replying" /\ reply' = r /\ windows' = <<>>

\* Tools that may have changed something when they report an error: a write to the
\* vault whose answer is lost, an index swept of a name the keychain does not have,
\* a token consumed for a fetch that fails.
LeavesTraces == {"vault_add", "vault_update", "delete_stash", "vault_seal"}

\* ping has no effect.  Another tool's succeeds, fails, or fails half way.
Act ==
    \/ Returns("ok") /\ done' = IF line.tool = "ping" THEN done ELSE done + 1
    \/ line.tool # "ping" /\ Returns("error") /\ done' = done
    \/ line.tool \in LeavesTraces /\ Returns("error") /\ done' = done + 1

\* The dispatch and the handler, up to the window in which it waits if it does.
Handle ==
    /\ at = "handling"
    /\ \/ /\ Refused(line) \/ Unconfigured(line)
          /\ Returns("error") /\ done' = done
       \/ ~Refused(line) /\ line.asks = "nobody" /\ Act
       \/ /\ ~Refused(line) /\ line.asks # "nobody"
          /\ at' = "waiting" /\ windows' = WindowsOf(line)
          /\ UNCHANGED <<reply, done>>
    /\ UNCHANGED vars /\ UNCHANGED <<inbox, line, read, answers, granted, confirmed>>

\* The user types the password or passes the prompt ...
Confirm ==
    /\ at = "waiting"
    /\ confirmed' = Len(read)
    /\ Act
    /\ UNCHANGED vars /\ UNCHANGED <<inbox, line, read, answers, granted>>

\* ... confirms an empty password ...
ConfirmEmpty ==
    /\ at = "waiting" /\ line.asks = "password"
    /\ Returns("error")
    /\ UNCHANGED vars
    /\ UNCHANGED <<inbox, line, read, answers, granted, confirmed, done>>

\* ... or dismisses the window: the next one opens, if there is one.
Dismiss ==
    /\ at = "waiting"
    /\ IF Last(windows) THEN Returns(AfterDismissal)
       ELSE windows' = Tail(windows) /\ UNCHANGED <<at, reply>>
    /\ UNCHANGED vars
    /\ UNCHANGED <<inbox, line, read, answers, granted, confirmed, done>>

Reply ==
    /\ at = "replying"
    /\ answers' = Append(answers, Len(read))
    /\ at' = "idle" /\ reply' = "none"
    /\ UNCHANGED vars
    /\ UNCHANGED <<inbox, line, windows, read, granted, confirmed, done>>

Wait == Tick /\ UNCHANGED loop

\* The process ends, at any step, and what it has not read is lost.
End ==
    /\ Restart
    /\ inbox' = <<>> /\ at' = "idle" /\ line' = NoLine
    /\ windows' = <<>> /\ reply' = "none"
    /\ read' = <<>> /\ answers' = <<>>
    /\ granted' = 0 /\ confirmed' = 0 /\ done' = 0

Turn == Read \/ Pass \/ Ask \/ Handle \/ Reply

ServerNext ==
    \/ Send \/ Read
    \/ Pass \/ Ask \/ Deny
    \/ Handle \/ Confirm \/ ConfirmEmpty \/ Dismiss
    \/ Reply
    \/ Wait \/ End

ServerSpec == ServerInit /\ [][ServerNext]_server

\* The loop never waits for anything but a line, a user and its own handler,
\* whose requests to the vault time out after 30 s (client.go:37).
FairServerSpec == ServerSpec /\ WF_server(Turn /\ at # "prompt")

(***************************************************************************)
(* Properties.                                                             *)
(***************************************************************************)

\* Types, and what is open where: the prompt of the session at the gate, a window
\* of the handler behind it, never both.
ServerTypeOK ==
    /\ TypeOK
    /\ inbox \in Seq(Requests) /\ read \in Seq(Requests)
    /\ line \in Line
    /\ at \in {"idle", "gate", "prompt", "handling", "waiting", "replying", "ended"}
    /\ at = "prompt" <=> prompt # NoPrompt
    /\ windows \in Seq(Windows)
    /\ at = "waiting" <=> windows # <<>>
    /\ reply \in {"none", "answered", "ok", "error", "denied"}
    /\ at = "replying" <=> reply # "none"
    /\ answers \in Seq(Nat)
    /\ granted \in Nat /\ confirmed \in Nat /\ done \in Nat

\* A tool takes effect only in a call that the session itself let pass, after the
\* call was read, and that its own user confirmed if its handler asks one: no
\* grant and no confirmation serves another call, however long windows stay open
\* and whatever the clients write meanwhile (server.go:520-530, :815-852).
EffectsArePaid ==
    [][done' > done =>
         /\ proof = "approved"
         /\ granted = Len(read)
         /\ line.asks # "nobody" => confirmed' = Len(read)]_server

\* The lines read are answered in their order, once each, those that get no answer
\* excepted, and nobody is answered while a line before his is handled
\* (server.go:467-483).
AnsweredOnceInOrder ==
    /\ \A i, j \in 1..Len(answers) : i < j => answers[i] < answers[j]
    /\ \A n \in 1..Len(read) :
          (\E i \in 1..Len(answers) : answers[i] = n) <=>
              /\ read[n].kind \notin {"blank", "garbled", "notification", "oversized"}
              /\ n = Len(read) => at = "idle"

\* "ok" says that the call took effect, once; a denial, that it did not; an error
\* leaves it open only for the tools that may fail half way (server.go:526-530, :572-588).
AnswersAreHonest ==
    at = "replying" =>
        /\ reply = "ok" => done = IF line.tool = "ping" THEN 0 ELSE 1
        /\ reply \in {"answered", "denied"} => done = 0
        /\ reply = "error" /\ line.tool \notin LeavesTraces => done = 0

\* If no window stays open for good, every request that gets an answer is answered,
\* unless the process ends or a line above 1 MB comes before it: neither garbage
\* nor a notification, a denial or a dismissed dialog stops the loop.
Lines == read \o inbox
Due(n) ==
    /\ n <= Len(Lines)
    /\ Lines[n].kind \in {"other", "call"}
    /\ \A k \in 1..n : Lines[k].kind # "oversized"
Answered(n) == \E i \in 1..Len(answers) : answers[i] = n
RequestsAreAnswered ==
    []<>(at \notin {"prompt", "waiting"}) =>
        \A n \in 1..MaxLines : Due(n) ~> (Answered(n) \/ Len(Lines) < n)

\* The mapping to the abstract service, which knows neither the session nor the
\* windows, only that they consented to the line being handled.
Phase ==
    IF at = "idle" THEN "free" ELSE IF at = "ended" THEN "closed"
    ELSE IF at = "replying" THEN "answering" ELSE "serving"
InService == Phase \in {"serving", "answering"}
Consent ==
    {who \in {"session", "user"} :
        InService /\ IF who = "session" THEN granted = Len(read) ELSE confirmed = Len(read)}
Effects == IF InService THEN done ELSE 0
Needed ==
    [l \in Requests |-> {who \in {"session", "user"} :
        IF who = "session" THEN l.tool # "ping" ELSE l.asks # "nobody"}]
OfKind(kinds) == {l \in Requests : l.kind \in kinds}
OfTool(tools) == {l \in Requests : l.tool \in tools}

Service == INSTANCE CallService WITH
    Mute <- OfKind({"blank", "garbled", "notification"}), Fatal <- OfKind({"oversized"}),
    Plain <- OfKind({"other"}), Inert <- OfTool({"ping"}), Fragile <- OfTool(LeavesTraces),
    Needs <- Needed, queue <- inbox, taken <- read, phase <- Phase, consent <- Consent,
    effects <- Effects, verdict <- reply

\* The loop with its session and its windows implements the service: nothing done
\* before both consented to this very line, and nothing out of order
\* (server.go:467-530).
ImplementsService == Service!ServiceSpec
=============================================================================
