------------------------------ MODULE Session ------------------------------
(***************************************************************************)
(* The authorization session of one process (internal/session).  Touch, at *)
(* the gate of every tool call, lets the call pass while both timers run   *)
(* and asks the unlock policy otherwise.  Its mutex is held through the    *)
(* prompt, so a Touch that prompts is two steps, and between them only the *)
(* clocks move and the process may end.                                    *)
(*                                                                         *)
(* now is the clock of Go's time.Now().Sub, which is monotonic; while the  *)
(* machine sleeps that clock stands still and only the wall clock moves.   *)
(***************************************************************************)
EXTENDS Integers

CONSTANTS
    IdleTTL, AbsoluteTTL,  \* the two TTLs of New
    MaxNow, MaxSlept       \* bounds on the two clocks

ASSUME SessionAssumption ==
    /\ IdleTTL \in Nat /\ AbsoluteTTL \in Nat
    /\ MaxNow \in Nat /\ MaxSlept \in Nat

VARIABLES
    now,           \* monotonic clock
    slept,         \* time the machine has slept: the wall clock is now + slept
    state,         \* Session.state
    unlockedAt,    \* Session.unlockedAt
    lastActivity,  \* Session.lastActivity
    prompt,        \* the locals of a Touch blocked in s.unlock(), or NoPrompt
    answer,        \* what this step answered a caller of Touch, or "none"
    proof,         \* history: how the last prompt ended, "locked" after Lock
    provedAt,      \* history: when the user last passed a prompt, on the clock ...
    provedWall,    \* history: ... and on the wall
    lastGrant,     \* history: when Touch last let a call pass
    past           \* history: whether this session was unlocked or locked before

vars == <<now, slept, state, unlockedAt, lastActivity, prompt, answer,
          proof, provedAt, provedWall, lastGrant, past>>
fields == <<state, unlockedAt, lastActivity>>
history == <<proof, provedAt, provedWall, lastGrant, past>>
clocks == <<now, slept>>

States == {"new", "active", "expired"}
NoPrompt == [at |-> -1, was |-> "new"]
Prompt == [at : Nat, was : {"new", "expired"}]
Answers == {"none", "granted", "unlock_failed", "re_unlock_denied"}

\* New, when the process starts.
Init ==
    /\ now = 0 /\ slept = 0
    /\ state = "new" /\ unlockedAt = 0 /\ lastActivity = 0
    /\ prompt = NoPrompt /\ answer = "none"
    /\ proof = "none" /\ provedAt = 0 /\ provedWall = 0
    /\ lastGrant = 0 /\ past = "untouched"

\* Mutants (of Overdue, AtSwitch, Was and ActivityFrom): no absolute timer;
\* the state not moved on to Expired; wasExpired taken before it is moved; the
\* idle timer not restarted by an unlock.
OverdueIdle == now - lastActivity > IdleTTL
ActivityKept(at) == lastActivity
Unmoved(s) == s
WasOnEntry(s) == IF s = "expired" THEN "expired" ELSE "new"

Overdue == now - unlockedAt > AbsoluteTTL \/ now - lastActivity > IdleTTL

\* The state in which Touch reaches its switch, when it does ...
AtSwitch(s) == IF s = "active" THEN "expired" ELSE s

\* ... and what wasExpired keeps of it.
Was(s) == AtSwitch(s)

\* Both timers start when the prompt appeared.
ActivityFrom(at) == at

\* Touch within both timers.
TouchActive ==
    /\ prompt = NoPrompt
    /\ state = "active" /\ ~Overdue
    /\ lastActivity' = now
    /\ answer' = "granted"
    /\ lastGrant' = now
    /\ UNCHANGED clocks /\ UNCHANGED <<state, unlockedAt, prompt, proof, provedAt, provedWall, past>>

\* Touch up to the prompt.
TouchPrompt ==
    /\ prompt = NoPrompt
    /\ state = "active" => Overdue
    /\ state' = AtSwitch(state)
    /\ prompt' = [at |-> now, was |-> Was(state)]
    /\ answer' = "none"
    /\ UNCHANGED clocks /\ UNCHANGED history /\ UNCHANGED <<unlockedAt, lastActivity>>

\* The policy returns nil.
UnlockGranted ==
    /\ prompt # NoPrompt
    /\ state' = "active"
    /\ unlockedAt' = prompt.at
    /\ lastActivity' = ActivityFrom(prompt.at)
    /\ prompt' = NoPrompt
    /\ answer' = "granted"
    /\ proof' = "approved"
    /\ provedAt' = now
    /\ provedWall' = now + slept
    /\ lastGrant' = now
    /\ past' = "opened"
    /\ UNCHANGED clocks

UnlockDenied ==
    /\ prompt # NoPrompt
    /\ answer' = IF prompt.was = "expired"
                 THEN "re_unlock_denied" ELSE "unlock_failed"
    /\ prompt' = NoPrompt
    /\ proof' = "denied"
    /\ UNCHANGED clocks /\ UNCHANGED fields /\ UNCHANGED <<provedAt, provedWall, lastGrant, past>>

Lock ==
    /\ prompt = NoPrompt
    /\ state' = "expired"
    /\ answer' = "none"
    /\ proof' = "locked"
    /\ past' = "opened"
    /\ UNCHANGED clocks /\ UNCHANGED <<unlockedAt, lastActivity, prompt, provedAt, provedWall, lastGrant>>

Tick ==
    /\ now < MaxNow
    /\ now' = now + 1
    /\ answer' = "none"
    /\ UNCHANGED fields /\ UNCHANGED history /\ UNCHANGED <<slept, prompt>>

Suspend ==
    /\ slept < MaxSlept
    /\ slept' = slept + 1
    /\ answer' = "none"
    /\ UNCHANGED fields /\ UNCHANGED history /\ UNCHANGED <<now, prompt>>

\* The process ends, a new one starts with a session of its own.
Restart ==
    /\ state' = "new" /\ unlockedAt' = 0 /\ lastActivity' = 0
    /\ prompt' = NoPrompt /\ answer' = "none"
    /\ proof' = "none" /\ provedAt' = 0 /\ provedWall' = 0
    /\ lastGrant' = 0 /\ past' = "untouched"
    /\ UNCHANGED clocks

Next ==
    \/ TouchActive \/ TouchPrompt
    \/ UnlockGranted \/ UnlockDenied
    \/ Lock
    \/ Tick \/ Suspend \/ Restart

Spec == Init /\ [][Next]_vars

(***************************************************************************)
(* Properties.                                                             *)
(***************************************************************************)

\* Types, and the order of the timers (internal/session/session.go:72-82).
TypeOK ==
    /\ now \in Nat /\ slept \in Nat
    /\ state \in States
    /\ lastActivity \in 0..now /\ unlockedAt \in 0..lastActivity
    /\ prompt \in Prompt \cup {NoPrompt}
    /\ answer \in Answers
    /\ proof \in {"none", "approved", "denied", "locked"}
    /\ provedAt \in Nat /\ provedWall \in Nat /\ lastGrant \in Nat
    /\ past \in {"untouched", "opened"}

\* A call passes without a prompt only within AbsoluteTTL of the moment the user
\* really passed one and within IdleTTL of the call before it, by the clock of
\* the process: a prompt that stays open long never lengthens a session.
SilentGrantsAreRecent ==
    [][answer' = "granted" /\ prompt = NoPrompt =>
         /\ proof = "approved"
         /\ now - provedAt <= AbsoluteTTL
         /\ now - lastGrant <= IdleTTL]_vars

\* Active means the last thing that happened to the session is a passed prompt:
\* no denial and no Lock leaves it usable (session.go:106-115).
ActiveMeansApproved == state = "active" => proof = "approved"

\* ErrExpired is in the chain of a denial exactly if there was a session to lose:
\* one that was unlocked, or locked, before (session.go:137-142).
DenialsAreHonest ==
    [][/\ answer' = "re_unlock_denied" => past = "opened"
       /\ answer' = "unlock_failed" => past = "untouched"]_vars

\* No call passes without a prompt later than AbsoluteTTL after the unlock, by
\* the user's clock (README.md:147, "absolute 8 hr").
AbsoluteOnTheWall ==
    [][answer' = "granted" /\ prompt = NoPrompt =>
         now + slept - provedWall <= AbsoluteTTL]_vars
=============================================================================
