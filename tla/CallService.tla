---------------------------- MODULE CallService ----------------------------
(***************************************************************************)
(* What the server promises to whoever writes requests to it and reads     *)
(* answers, without sessions, prompts, dialogs or tools: requests are      *)
(* taken one by one in their order; each takes effect once at most, after  *)
(* everyone who has to consent to this very request did; the answer comes  *)
(* after that and says what happened.  The server may stop at any time,    *)
(* and nothing of what it was asked is left.                               *)
(***************************************************************************)
EXTENDS Naturals, Sequences

CONSTANTS
    Requests,
    Mute,      \* requests that get no answer
    Fatal,     \* requests that end the server's reading
    Plain,     \* requests that do not call a tool
    Inert,     \* calls that have no effect
    Fragile,   \* calls that may fail half way
    Needs      \* whose consent each request needs: "session", "user"

VARIABLES
    queue,     \* requests not yet taken
    taken,     \* requests taken
    phase,     \* "free", "serving" or "answering" the last one taken, "closed"
    consent,   \* who has consented to it
    effects,   \* how often it took effect
    verdict,   \* what it will be answered
    answers    \* the numbers of the requests answered

service == <<queue, taken, phase, consent, effects, verdict, answers>>

ServiceInit ==
    /\ queue = <<>> /\ taken = <<>> /\ phase = "free"
    /\ consent = {} /\ effects = 0 /\ verdict = "none" /\ answers = <<>>

Write(r) ==
    /\ queue' = Append(queue, r)
    /\ UNCHANGED <<taken, phase, consent, effects, verdict, answers>>

Take(r) ==
    /\ phase = "free" /\ queue # <<>> /\ r = Head(queue)
    /\ queue' = Tail(queue) /\ taken' = Append(taken, r)
    /\ \/ r \in Fatal /\ phase' = "closed" /\ verdict' = "none"
       \/ r \in Mute /\ phase' = "free" /\ verdict' = "none"
       \/ r \in Plain /\ phase' = "answering" /\ verdict' = "answered"
       \/ r \notin Fatal \cup Mute \cup Plain /\ phase' = "serving" /\ verdict' = "none"
    /\ consent' = {} /\ effects' = 0 /\ answers' = answers

Admit ==
    /\ phase = "serving"
    /\ consent' = consent \cup {"session"}
    /\ UNCHANGED <<queue, taken, phase, effects, verdict, answers>>

\* The call comes to its end.  The user may have consented at the last moment.
Decide(r) ==
    /\ phase = "serving" /\ r = taken[Len(taken)]
    /\ phase' = "answering"
    /\ consent' \in {consent, consent \cup {"user"}}
    /\ effects' \in {0, 1}
    /\ effects' = 1 => Needs[r] \subseteq consent' /\ r \notin Inert
    /\ \/ verdict' = "ok" /\ (effects' = 1 \/ r \in Inert)
       \/ verdict' = "error" /\ (effects' = 0 \/ r \in Fragile)
       \/ verdict' = "denied" /\ effects' = 0
    /\ UNCHANGED <<queue, taken, answers>>

Answer ==
    /\ phase = "answering"
    /\ answers' = Append(answers, Len(taken))
    /\ phase' = "free" /\ consent' = {} /\ effects' = 0 /\ verdict' = "none"
    /\ UNCHANGED <<queue, taken>>

Stop ==
    /\ queue' = <<>> /\ taken' = <<>> /\ phase' = "free"
    /\ consent' = {} /\ effects' = 0 /\ verdict' = "none" /\ answers' = <<>>

ServiceNext ==
    \/ \E r \in Requests : Write(r) \/ Take(r) \/ Decide(r)
    \/ Admit \/ Answer \/ Stop

ServiceSpec == ServiceInit /\ [][ServiceNext]_service
=============================================================================
