--------------------------- MODULE Session_proofs ---------------------------
(***************************************************************************)
(* The properties of Session for every pair of TTLs and every bound on the *)
(* clocks.                                                                 *)
(***************************************************************************)
EXTENDS Session, TLAPS

\* While a prompt is open the session is not active, and what Touch remembers
\* of it still holds.
PromptInv ==
    prompt # NoPrompt =>
        /\ prompt.at <= now
        /\ prompt.was = state

\* The timers of an active session started no later than what they measure.
ActiveInv ==
    state = "active" =>
        /\ proof = "approved"
        /\ unlockedAt <= provedAt
        /\ lastActivity <= lastGrant

\* A session is new until it is unlocked or locked, and never again.
OpenedInv == past = "untouched" <=> state = "new"

SessionInv == TypeOK /\ PromptInv /\ ActiveInv /\ OpenedInv

\* The initial state of a process satisfies the invariant.
LEMMA InitInv == Init => SessionInv
  BY SessionAssumption
  DEF Init, SessionInv, TypeOK, PromptInv, ActiveInv, OpenedInv, States, Answers

\* Every step of Touch, Lock, the clocks and the process keeps the invariant.
LEMMA NextInv == SessionInv /\ [Next]_vars => SessionInv'
<1> SUFFICES ASSUME SessionInv, [Next]_vars
             PROVE  SessionInv'
  OBVIOUS
<1> USE SessionAssumption
    DEF SessionInv, TypeOK, PromptInv, ActiveInv, OpenedInv, States, Answers,
        Prompt, fields, history, clocks
<1>1. CASE TouchActive
  BY <1>1 DEF TouchActive
<1>2. CASE TouchPrompt
  BY <1>2 DEF TouchPrompt, AtSwitch, Was
<1>3. CASE UnlockGranted
  BY <1>3 DEF UnlockGranted, ActivityFrom
<1>4. CASE UnlockDenied
  BY <1>4 DEF UnlockDenied
<1>5. CASE Lock
  BY <1>5 DEF Lock
<1>6. CASE Tick
  BY <1>6 DEF Tick
<1>7. CASE Suspend
  BY <1>7 DEF Suspend
<1>8. CASE Restart
  BY <1>8 DEF Restart
<1>9. CASE UNCHANGED vars
  BY <1>9 DEF vars
<1> QED
  BY <1>1, <1>2, <1>3, <1>4, <1>5, <1>6, <1>7, <1>8, <1>9 DEF Next

\* SessionInv holds throughout.
THEOREM Invariance == Spec => []SessionInv
  BY InitInv, NextInv, PTL DEF Spec

\* Types, and timers that run in order (session.go:72-82).
THEOREM TypeCorrectness == Spec => []TypeOK
  BY Invariance, PTL DEF SessionInv

\* An active session is one whose last prompt the user passed: neither a denial
\* nor a Lock leaves it active (session.go:106-115).
THEOREM ActiveIsApproved == Spec => []ActiveMeansApproved
<1>1. SessionInv => ActiveMeansApproved
  BY DEF SessionInv, ActiveInv, ActiveMeansApproved
<1> QED
  BY <1>1, Invariance, PTL

\* A call that passes without a prompt is within both TTLs of a prompt that was
\* passed and of the call before it, whatever the TTLs are and however long a
\* prompt was open (session.go:122-131).
THEOREM SilentGrants == Spec => SilentGrantsAreRecent
<1>1. SessionInv /\ [Next]_vars =>
        [answer' = "granted" /\ prompt = NoPrompt =>
           /\ proof = "approved"
           /\ now - provedAt <= AbsoluteTTL
           /\ now - lastGrant <= IdleTTL]_vars
  <2> SUFFICES ASSUME SessionInv, [Next]_vars, ~UNCHANGED vars,
                      answer' = "granted", prompt = NoPrompt
               PROVE  /\ proof = "approved"
                      /\ now - provedAt <= AbsoluteTTL
                      /\ now - lastGrant <= IdleTTL
    OBVIOUS
  <2>1. TouchActive
    BY DEF Next, TouchPrompt, UnlockGranted, UnlockDenied, Lock, Tick, Suspend, Restart
  <2> QED
    BY <2>1, SessionAssumption DEF TouchActive, Overdue, SessionInv, TypeOK, ActiveInv
<1> QED
  BY <1>1, Invariance, PTL DEF Spec, SilentGrantsAreRecent

\* A denial says "session expired" exactly if there was a session that expired
\* or was locked (session.go:137-144).
THEOREM HonestDenials == Spec => DenialsAreHonest
<1>1. SessionInv /\ [Next]_vars =>
        [/\ answer' = "re_unlock_denied" => past = "opened"
         /\ answer' = "unlock_failed" => past = "untouched"]_vars
  <2> SUFFICES ASSUME SessionInv, [Next]_vars, ~UNCHANGED vars,
                      answer' \in {"re_unlock_denied", "unlock_failed"}
               PROVE  /\ answer' = "re_unlock_denied" => past = "opened"
                      /\ answer' = "unlock_failed" => past = "untouched"
    OBVIOUS
  <2>1. UnlockDenied
    BY DEF Next, TouchActive, TouchPrompt, UnlockGranted, Lock, Tick, Suspend, Restart
  <2> QED
    BY <2>1 DEF UnlockDenied, SessionInv, TypeOK, States, Prompt, PromptInv, OpenedInv
<1> QED
  BY <1>1, Invariance, PTL DEF Spec, DenialsAreHonest

(***************************************************************************)
(* The promise in the user's own time.  The timers run on the clock of the *)
(* process, which stands still while the machine sleeps.                   *)
(***************************************************************************)
\* The wall clock is ahead by the time slept, at every unlock as now.
WallInv == slept <= MaxSlept /\ provedAt <= provedWall

LEMMA NextWall == SessionInv /\ WallInv /\ [Next]_vars => WallInv'
<1> SUFFICES ASSUME SessionInv, WallInv, [Next]_vars
             PROVE  WallInv'
  OBVIOUS
<1> USE SessionAssumption DEF SessionInv, TypeOK, WallInv, clocks, history
<1>1. CASE UnlockGranted \/ Restart
  BY <1>1 DEF UnlockGranted, Restart
<1>2. CASE Suspend
  BY <1>2 DEF Suspend
<1>3. CASE TouchActive \/ TouchPrompt \/ UnlockDenied \/ Lock \/ Tick \/ UNCHANGED vars
  BY <1>3 DEF TouchActive, TouchPrompt, UnlockDenied, Lock, Tick, vars
<1> QED
  BY <1>1, <1>2, <1>3 DEF Next

\* How late a call may pass without a prompt, by the user's clock: what the session
\* outlives its absolute TTL by is never more than the machine has slept
\* (session.go:122-131).
THEOREM SleepIsAllItGains ==
  Spec => [][answer' = "granted" /\ prompt = NoPrompt =>
               now + slept - provedWall <= AbsoluteTTL + slept]_vars
<1>1. Init => WallInv
  BY SessionAssumption DEF Init, WallInv
<1>2. SessionInv /\ WallInv /\ [Next]_vars =>
        [answer' = "granted" /\ prompt = NoPrompt =>
           now + slept - provedWall <= AbsoluteTTL + slept]_vars
  <2> SUFFICES ASSUME SessionInv, WallInv, [Next]_vars, ~UNCHANGED vars,
                      answer' = "granted", prompt = NoPrompt
               PROVE  now + slept - provedWall <= AbsoluteTTL + slept
    OBVIOUS
  <2>1. TouchActive
    BY DEF Next, TouchPrompt, UnlockGranted, UnlockDenied, Lock, Tick, Suspend, Restart
  <2> QED
    BY <2>1, SessionAssumption
       DEF TouchActive, Overdue, SessionInv, TypeOK, ActiveInv, WallInv
<1> QED
  BY <1>1, <1>2, NextWall, Invariance, PTL DEF Spec

\* So a machine that never sleeps keeps the promise of the README as it stands
\* there (README.md:147): the sleep is the one thing that breaks it.
THEOREM AwakeKeepsTheWall ==
  ASSUME MaxSlept = 0
  PROVE  Spec => AbsoluteOnTheWall
<1>1. SessionInv /\ WallInv =>
        slept = 0
  BY SessionAssumption DEF SessionInv, TypeOK, WallInv
<1>2. slept = 0 /\ [answer' = "granted" /\ prompt = NoPrompt =>
                      now + slept - provedWall <= AbsoluteTTL + slept]_vars
      => [answer' = "granted" /\ prompt = NoPrompt =>
            now + slept - provedWall <= AbsoluteTTL]_vars
  <2> SUFFICES ASSUME slept = 0 PROVE AbsoluteTTL + slept = AbsoluteTTL
    OBVIOUS
  <2> QED
    BY SessionAssumption
<1>3. Init => WallInv
  BY SessionAssumption DEF Init, WallInv
<1> QED
  BY <1>1, <1>2, <1>3, NextWall, Invariance, SleepIsAllItGains, PTL
     DEF Spec, AbsoluteOnTheWall
=============================================================================
