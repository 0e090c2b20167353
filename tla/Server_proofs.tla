---------------------------- MODULE Server_proofs ----------------------------
(***************************************************************************)
(* The safety properties of Server for every set of lines, however many    *)
(* clients write, every chain of dialogs and every pair of TTLs.           *)
(***************************************************************************)
EXTENDS Server, Session_proofs, SequenceTheorems

\* Where a handler runs, the session let this very call pass; and it has had no
\* effect yet where it has not returned.
PaidInv ==
    /\ at \in {"handling", "waiting"} /\ line.tool # "ping" =>
          proof = "approved" /\ granted = Len(read)
    /\ at \in {"gate", "prompt", "handling", "waiting"} => done = 0

\* The line being handled is the last one read, and gets an answer.
LineInv ==
    at \in {"gate", "prompt", "handling", "waiting", "replying"} =>
        /\ read # <<>> /\ line = read[Len(read)]
        /\ line.kind \in {"other", "call"}

\* The answers so far are to lines that were read.
RangeInv == \A i \in 1..Len(answers) : answers[i] \in 1..Len(read)

ServerInv ==
    /\ ServerTypeOK /\ SessionInv
    /\ PaidInv /\ LineInv /\ RangeInv
    /\ AnsweredOnceInOrder /\ AnswersAreHonest

\* Every step of the server is a step of its session, or none.
LEMMA StepOfSession == [ServerNext]_server => [Next]_vars
  BY DEF ServerNext, server, vars, Next, Send, Read, Pass, Ask, Deny, Handle, Confirm,
         ConfirmEmpty, Dismiss, Reply, Wait, End

\* The initial states satisfy the invariant.
LEMMA InitServer == ServerInit => ServerInv
<1> SUFFICES ASSUME ServerInit PROVE ServerInv
  OBVIOUS
<1>1. SessionInv
  BY InitInv DEF ServerInit
<1>2. NoLine \in Line
  BY DEF NoLine, Line
<1>3. ServerTypeOK
  BY <1>1, <1>2 DEF SessionInv, ServerTypeOK, ServerInit, Init
<1> QED
  BY <1>1, <1>3 DEF ServerInit, ServerInv, PaidInv, LineInv, RangeInv,
                    AnsweredOnceInOrder, AnswersAreHonest

\* The type invariant is kept, given that the session keeps its own.
LEMMA TypesKept ==
    ServerInv /\ [ServerNext]_server /\ SessionInv' => ServerTypeOK'
<1> SUFFICES ASSUME ServerInv, [ServerNext]_server, SessionInv'
             PROVE  ServerTypeOK'
  OBVIOUS
<1> USE ServerAssumption
<1>1. ServerTypeOK /\ TypeOK'
  BY DEF ServerInv, SessionInv
<1>2. CASE Send
  BY <1>1, <1>2 DEF ServerTypeOK, Send, vars
<1>3. CASE Read
  <2>1. line' \in Requests /\ inbox' \in Seq(Requests) /\ read' \in Seq(Requests)
    BY <1>1, <1>3 DEF ServerTypeOK, Read
  <2>2. /\ at' \in {"idle", "gate", "handling", "replying", "ended"}
        /\ reply' = IF at' = "replying" THEN "answered" ELSE "none"
    BY <1>3 DEF Read, Reached
  <2> QED
    BY <1>1, <1>3, <2>1, <2>2 DEF ServerTypeOK, Read, vars
<1>4. CASE Pass
  BY <1>1, <1>4 DEF ServerTypeOK, Pass, TouchActive, UnlockGranted, NoPrompt
<1>5. CASE Ask
  BY <1>1, <1>5 DEF ServerTypeOK, Ask, TouchPrompt, NoPrompt, TypeOK
<1>6. CASE Deny
  BY <1>1, <1>6 DEF ServerTypeOK, Deny, UnlockDenied
<1>7. CASE Handle \/ Confirm \/ ConfirmEmpty \/ Dismiss
  <2>1. /\ UNCHANGED <<inbox, line, read, answers, granted, prompt>>
        /\ confirmed' \in Nat
    BY <1>1, <1>7 DEF ServerTypeOK, Handle, Confirm, ConfirmEmpty, Dismiss, vars
  <2>2. done' \in Nat
    BY <1>1, <1>7 DEF ServerTypeOK, Handle, Confirm, ConfirmEmpty, Dismiss, Act
  <2>3. /\ WindowsOf(line) \in Seq(Windows) /\ WindowsOf(line) # <<>>
        /\ windows # <<>> /\ ~Last(windows) => Tail(windows) \in Seq(Windows) /\ Tail(windows) # <<>>
    <3>1. WindowsOf(line) \in Seq(Windows) /\ WindowsOf(line) # <<>>
      <4>1. <<"biometric">> \in Seq(Windows) /\ <<"biometric">> # <<>>
        BY DEF Windows
      <4>2. Dialogs \in Seq(Windows) /\ Dialogs # <<>>
        OBVIOUS
      <4> QED
        BY <4>1, <4>2, Zenon DEF WindowsOf
    <3>2. ASSUME windows # <<>>, ~Last(windows)
          PROVE  Tail(windows) \in Seq(Windows) /\ Tail(windows) # <<>>
      <4>1. windows \in Seq(Windows) /\ Len(windows) # 1
        BY <1>1, <3>2 DEF ServerTypeOK, Last
      <4>2. /\ Tail(windows) \in Seq(Windows) /\ Len(Tail(windows)) = Len(windows) - 1
            /\ Len(windows) \in Nat /\ Len(windows) # 0
        BY <3>2, <4>1, HeadTailProperties, EmptySeq, LenProperties
      <4>3. Len(Tail(windows)) # 0
        BY <4>1, <4>2
      <4> QED
        BY <4>2, <4>3, EmptySeq
    <3> QED
      BY <3>1, <3>2
  <2>4. \/ at' = "replying" /\ reply' \in {"ok", "error"} /\ windows' = <<>>
        \/ /\ at' = "waiting" /\ reply' = "none"
           /\ windows' \in Seq(Windows) /\ windows' # <<>>
    <3>1. at \in {"handling", "waiting"} /\ reply = "none" /\ (at = "waiting" => windows # <<>>)
      BY <1>1, <1>7 DEF ServerTypeOK, Handle, Confirm, ConfirmEmpty, Dismiss
    <3>2. CASE Handle
      BY <2>3, <3>1, <3>2 DEF Handle, Act, Returns
    <3>3. CASE Confirm
      BY <3>3 DEF Confirm, Act, Returns
    <3>4. CASE ConfirmEmpty
      BY <3>4 DEF ConfirmEmpty, Returns
    <3>5. CASE Dismiss
      BY <2>3, <3>1, <3>5 DEF Dismiss, Returns, AfterDismissal
    <3> QED
      BY <1>7, <3>2, <3>3, <3>4, <3>5
  <2>5. at \in {"handling", "waiting"}
    BY <1>7 DEF Handle, Confirm, ConfirmEmpty, Dismiss
  <2>6. /\ inbox' \in Seq(Requests) /\ read' \in Seq(Requests)
        /\ line' \in Line /\ answers' \in Seq(Nat) /\ granted' \in Nat
    BY <1>1, <2>1 DEF ServerTypeOK
  <2>7. prompt' = NoPrompt
    BY <1>1, <2>1, <2>5 DEF ServerTypeOK, NoPrompt
  <2>8. windows' \in Seq(Windows)
    BY <2>4, EmptySeq
  <2>9. /\ at' \in {"replying", "waiting"} /\ at' # "prompt"
        /\ at' = "waiting" <=> windows' # <<>>
        /\ reply' \in {"none", "ok", "error"} /\ (at' = "replying" <=> reply' # "none")
    BY <2>4
  <2> QED
    BY <1>1, <2>1, <2>2, <2>6, <2>7, <2>8, <2>9 DEF ServerTypeOK
<1>8. CASE Reply
  BY <1>1, <1>8 DEF ServerTypeOK, Reply, vars
<1>9. CASE Wait
  BY <1>1, <1>9 DEF ServerTypeOK, Wait, Tick, loop
<1>10. CASE End
  BY <1>1, <1>10 DEF ServerTypeOK, End, Restart, NoLine, Line
<1>11. CASE UNCHANGED server
  BY <1>1, <1>11 DEF ServerTypeOK, server
<1> QED
  BY <1>2, <1>3, <1>4, <1>5, <1>6, <1>7, <1>8, <1>9, <1>10, <1>11 DEF ServerNext

\* What is known of the call being handled is kept.
LEMMA CallKept ==
    ServerInv /\ [ServerNext]_server => PaidInv' /\ LineInv' /\ AnswersAreHonest'
<1> SUFFICES ASSUME ServerInv, [ServerNext]_server
             PROVE  PaidInv' /\ LineInv' /\ AnswersAreHonest'
  OBVIOUS
<1> USE ServerAssumption
    DEF ServerInv, ServerTypeOK, PaidInv, LineInv, AnswersAreHonest
<1>1. CASE Send
  BY <1>1 DEF Send, vars
<1>2. CASE Read
  <2>1. line' \in Line /\ read' # <<>> /\ line' = read'[Len(read')] /\ done' = 0
    <3>1. line' = Head(inbox) /\ read' = Append(read, line') /\ done' = 0
      BY <1>2 DEF Read
    <3>2. line' \in Line
      BY <1>2, <3>1 DEF Read
    <3> HIDE DEF ServerInv, PaidInv, LineInv, AnswersAreHonest
    <3> QED
      BY <3>1, <3>2
  <2>2. /\ at' \in {"gate", "handling", "replying"} => line'.kind \in {"other", "call"}
        /\ at' = "handling" => line'.tool = "ping"
        /\ at' \in {"idle", "gate", "handling", "replying", "ended"}
        /\ at' = "replying" => reply' = "answered"
    BY <1>2, <2>1 DEF Read, Reached, Silent, EndsLoop, Gated, Line
  <2> QED
    BY <2>1, <2>2
<1>3. CASE Pass
  <2>1. proof' = "approved"
    BY <1>3 DEF Pass, TouchActive, UnlockGranted, SessionInv, ActiveInv
  <2> QED
    BY <1>3, <2>1 DEF Pass
<1>4. CASE Ask
  BY <1>4 DEF Ask
<1>5. CASE Deny
  BY <1>5 DEF Deny
<1>6. CASE Handle
  BY <1>6 DEF Handle, Returns, Act, vars
<1>7. CASE Confirm
  BY <1>7 DEF Confirm, Returns, Act, vars
<1>8. CASE ConfirmEmpty
  BY <1>8 DEF ConfirmEmpty, Returns, vars
<1>9. CASE Dismiss
  BY <1>9 DEF Dismiss, Returns, Last, AfterDismissal, vars
<1>10. CASE Reply
  BY <1>10 DEF Reply, vars
<1>11. CASE Wait
  BY <1>11 DEF Wait, Tick, loop, history
<1>12. CASE End
  BY <1>12 DEF End
<1>13. CASE UNCHANGED server
  BY <1>13 DEF server
<1> QED
  BY <1>1, <1>2, <1>3, <1>4, <1>5, <1>6, <1>7, <1>8, <1>9, <1>10, <1>11, <1>12, <1>13
  DEF ServerNext

\* So is what is known of the answers: the loop reads one line, or answers the one
\* it has read, or does neither.
LEMMA AnswersKept ==
    ServerInv /\ [ServerNext]_server => RangeInv' /\ AnsweredOnceInOrder'
<1> SUFFICES ASSUME ServerInv, [ServerNext]_server
             PROVE  RangeInv' /\ AnsweredOnceInOrder'
  OBVIOUS
<1> USE ServerAssumption DEF ServerInv, ServerTypeOK, RangeInv, AnsweredOnceInOrder
<1>1. CASE Read
  <2>1. /\ line' \in Line /\ Len(read') = Len(read) + 1 /\ read'[Len(read')] = line'
        /\ \A n \in 1..Len(read) : read'[n] = read[n]
        /\ answers' = answers /\ at = "idle"
    BY <1>1 DEF Read
  <2>2. at' = "idle" => Silent(line')
    BY <1>1 DEF Read, Reached
  <2>3. at' = "idle" => line'.kind \in {"blank", "garbled", "notification"}
    BY <2>2 DEF Silent
  <2>4. /\ Len(read) \in Nat /\ Len(answers) \in Nat
        /\ \A i \in 1..Len(answers) : answers[i] \in 1..Len(read)
        /\ \A i, j \in 1..Len(answers) : i < j => answers[i] < answers[j]
        /\ \A n \in 1..Len(read) :
              (\E i \in 1..Len(answers) : answers[i] = n) <=>
                 read[n].kind \notin {"blank", "garbled", "notification", "oversized"}
    BY <2>1
  <2> HIDE DEF ServerInv, ServerTypeOK
  <2>5. RangeInv'
    BY <2>1, <2>4
  <2>6. \A i, j \in 1..Len(answers') : i < j => answers'[i] < answers'[j]
    BY <2>1, <2>4
  <2>7. ASSUME NEW n \in 1..Len(read')
        PROVE  (\E i \in 1..Len(answers') : answers'[i] = n) <=>
                 /\ read'[n].kind \notin {"blank", "garbled", "notification", "oversized"}
                 /\ n = Len(read') => at' = "idle"
    <3>1. CASE n = Len(read')
      BY <2>1, <2>3, <2>4, <3>1
    <3>2. CASE n \in 1..Len(read)
      BY <2>1, <2>4, <3>2
    <3>3. n = Len(read') \/ n \in 1..Len(read)
      BY <2>1, <2>4
    <3> QED
      BY <3>1, <3>2, <3>3
  <2> QED
    BY <2>5, <2>6, <2>7
<1>2. CASE Reply
  <2>1. /\ Len(answers') = Len(answers) + 1 /\ answers'[Len(answers')] = Len(read)
        /\ \A i \in 1..Len(answers) : answers'[i] = answers[i]
        /\ read' = read /\ at = "replying" /\ at' = "idle"
    BY <1>2 DEF Reply
  <2>2. /\ Len(read) \in 1..Len(read)
        /\ read[Len(read)].kind \in {"other", "call"}
    BY <2>1 DEF LineInv
  <2>3. /\ \A i \in 1..Len(answers) : answers[i] \in 1..Len(read) /\ answers[i] < Len(read)
        /\ \A i, j \in 1..Len(answers) : i < j => answers[i] < answers[j]
        /\ \A n \in 1..Len(read) : n # Len(read) =>
              ((\E i \in 1..Len(answers) : answers[i] = n) <=>
                 read[n].kind \notin {"blank", "garbled", "notification", "oversized"})
        /\ Len(answers) \in Nat /\ Len(read) \in Nat
    BY <2>1, <2>2
  <2> HIDE DEF ServerInv, ServerTypeOK
  <2>4. RangeInv'
    BY <2>1, <2>2, <2>3
  <2>5. ASSUME NEW i \in 1..Len(answers'), NEW j \in 1..Len(answers'), i < j
        PROVE  answers'[i] < answers'[j]
    <3>1. i \in 1..Len(answers) /\ answers'[i] = answers[i]
      BY <2>1, <2>3, <2>5
    <3>2. CASE j = Len(answers')
      BY <2>1, <2>3, <3>1, <3>2
    <3>3. CASE j # Len(answers')
      <4>1. j \in 1..Len(answers) /\ answers'[j] = answers[j]
        BY <2>1, <2>3, <3>3
      <4> QED
        BY <2>3, <2>5, <3>1, <4>1
    <3> QED
      BY <3>2, <3>3
  <2>6. ASSUME NEW n \in 1..Len(read')
        PROVE  (\E i \in 1..Len(answers') : answers'[i] = n) <=>
                 /\ read'[n].kind \notin {"blank", "garbled", "notification", "oversized"}
                 /\ n = Len(read') => at' = "idle"
    <3>1. CASE n = Len(read)
      BY <2>1, <2>2, <2>3, <3>1
    <3>2. CASE n # Len(read)
      <4>1. (\E i \in 1..Len(answers') : answers'[i] = n) <=>
              \E i \in 1..Len(answers) : answers[i] = n
        <5>1. ASSUME NEW i \in 1..Len(answers'), answers'[i] = n
              PROVE  \E j \in 1..Len(answers) : answers[j] = n
          BY <2>1, <2>3, <3>2, <5>1
        <5>2. ASSUME NEW i \in 1..Len(answers), answers[i] = n
              PROVE  \E j \in 1..Len(answers') : answers'[j] = n
          BY <2>1, <2>3, <5>2
        <5> QED
          BY <5>1, <5>2
      <4>2. n \in 1..Len(read) /\ n # Len(read') /\ read'[n] = read[n]
        BY <2>1, <3>2
      <4> QED
        BY <2>3, <3>2, <4>1, <4>2
    <3> QED
      BY <3>1, <3>2
  <2> QED
    BY <2>4, <2>5, <2>6
<1>3. CASE End
  BY <1>3 DEF End
<1>4. CASE Send \/ Pass \/ Ask \/ Deny \/ Handle \/ Confirm \/ ConfirmEmpty \/ Dismiss
           \/ Wait \/ UNCHANGED server
  <2>1. /\ read' = read /\ answers' = answers
        /\ at # "idle" => at' # "idle"
        /\ at = "idle" => at' = "idle"
    BY <1>4 DEF Send, Pass, Ask, Deny, Handle, Confirm, ConfirmEmpty, Dismiss, Wait, Act,
                Returns, loop, server
  <2> QED
    BY <2>1
<1> QED
  BY <1>1, <1>2, <1>3, <1>4 DEF ServerNext

\* The invariant holds throughout.
THEOREM ServerInvariance == ServerSpec => []ServerInv
<1>1. ServerInv /\ [ServerNext]_server => ServerInv'
  BY StepOfSession, NextInv, TypesKept, CallKept, AnswersKept DEF ServerInv
<1> QED
  BY <1>1, InitServer, PTL DEF ServerSpec

\* Types, and at most one window, where it belongs (server.go:526, :788).
THEOREM ServerTypes == ServerSpec => []ServerTypeOK
  BY ServerInvariance, PTL DEF ServerInv

\* The server uses its session as module Session says: what is proved of Session
\* holds inside the server (server.go:526).
THEOREM ServerUsesTheSession == ServerSpec => Spec
<1>1. ServerInit => Init
  BY DEF ServerInit
<1> QED
  BY <1>1, StepOfSession, PTL DEF ServerSpec, Spec

\* So a call passes without a prompt only within both TTLs of a prompt the user
\* really passed, in the server as in the session (session.go:122-131).
THEOREM ServerGrantsAreRecent == ServerSpec => SilentGrantsAreRecent
  BY ServerUsesTheSession, SilentGrants, PTL

\* A tool takes effect only in the call that the session let pass, and that the
\* user confirmed where it asks him (server.go:520-530).
THEOREM EffectsPaid == ServerSpec => EffectsArePaid
<1>1. ServerInv /\ [ServerNext]_server =>
        [done' > done =>
           /\ proof = "approved"
           /\ granted = Len(read)
           /\ line.asks # "nobody" => confirmed' = Len(read)]_server
  <2> SUFFICES ASSUME ServerInv, ServerNext, done' > done
               PROVE  /\ proof = "approved"
                      /\ granted = Len(read)
                      /\ line.asks # "nobody" => confirmed' = Len(read)
    BY DEF server
  <2> USE DEF ServerInv, ServerTypeOK
  <2>1. Handle \/ Confirm
    BY DEF ServerNext, Send, Read, Pass, Ask, Deny, ConfirmEmpty, Dismiss, Reply, Wait,
           End, loop
  <2>2. at \in {"handling", "waiting"} /\ line.tool # "ping"
    BY <2>1 DEF Handle, Confirm, Act, Returns, LeavesTraces
  <2>3. line.asks # "nobody" => confirmed' = Len(read)
    BY <2>1 DEF Handle, Confirm
  <2> QED
    BY <2>2, <2>3 DEF PaidInv
<1> QED
  BY <1>1, ServerInvariance, PTL DEF ServerSpec, EffectsArePaid

\* Lines are answered in their order, once each (server.go:467-483).
THEOREM AnsweredOnce == ServerSpec => []AnsweredOnceInOrder
  BY ServerInvariance, PTL DEF ServerInv

\* An answer tells what the call did (server.go:526-530, :572-588).
THEOREM HonestAnswers == ServerSpec => []AnswersAreHonest
  BY ServerInvariance, PTL DEF ServerInv

(***************************************************************************)
(* The refinement of CallService.                                          *)
(***************************************************************************)
\* No consent is for a line that is still to be read.
CountInv == granted <= Len(read) /\ confirmed <= Len(read)

LEMMA NextCount == ServerInv /\ CountInv /\ [ServerNext]_server => CountInv'
<1> SUFFICES ASSUME ServerInv, CountInv, [ServerNext]_server
             PROVE  CountInv'
  OBVIOUS
<1>0. read \in Seq(Requests) /\ granted \in Nat /\ confirmed \in Nat /\ Len(read) \in Nat
  BY LenProperties DEF ServerInv, ServerTypeOK
<1>1. CASE Read
  BY <1>0, <1>1, ServerAssumption DEF CountInv, Read, ServerInv, ServerTypeOK
<1>2. CASE End
  BY <1>2 DEF CountInv, End
<1>3. CASE ~(Read \/ End)
  <2>1. /\ read' = read
        /\ granted' \in {granted, Len(read)} /\ confirmed' \in {confirmed, Len(read)}
    BY <1>3 DEF ServerNext, Send, Pass, Ask, Deny, Handle, Confirm, ConfirmEmpty, Dismiss,
                Reply, Wait, loop, server
  <2> QED
    BY <1>0, <2>1 DEF CountInv
<1> QED
  BY <1>1, <1>2, <1>3

\* A call comes to its end: with an effect only if everyone consented to it.
LEMMA DecideRefines ==
  ASSUME ServerInv, CountInv,
         at \in {"prompt", "handling", "waiting"}, at' = "replying",
         UNCHANGED <<inbox, read, answers, granted>>,
         confirmed' \in {confirmed, Len(read)},
         \/ reply' = "denied" /\ done' = done
         \/ reply' = "error" /\ (done' = done \/ (line.tool \in LeavesTraces /\ done' = done + 1))
         \/ reply' = "ok" /\ done' = IF line.tool = "ping" THEN done ELSE done + 1,
         done' > done => /\ at # "prompt"
                         /\ line.asks # "nobody" => confirmed' = Len(read)
  PROVE  Service!Decide(line)
<1>1. /\ done = 0 /\ done' \in {0, 1}
      /\ line = read[Len(read)] /\ read # <<>>
      /\ at # "prompt" /\ line.tool # "ping" => granted = Len(read)
  BY DEF ServerInv, ServerTypeOK, PaidInv, LineInv
<1>2. line \in Requests
  <2>1. read \in Seq(Requests) /\ Len(read) \in 1..Len(read)
    BY <1>1 DEF ServerInv, ServerTypeOK
  <2> QED
    BY <1>1, <2>1
<1>3. Phase = "serving" /\ Phase' = "answering" /\ InService /\ InService'
  BY DEF Phase, InService
<1>4. Effects' = done'
  BY <1>3 DEF Effects
<1>5. Consent' = {who \in {"session", "user"} :
                    IF who = "session" THEN granted = Len(read) ELSE confirmed' = Len(read)}
  BY <1>3 DEF Consent
<1>6. Consent' \in {Consent, Consent \cup {"user"}}
  BY <1>3, <1>5 DEF Consent
<1>7. ASSUME Effects' = 1
      PROVE  Needed[line] \subseteq Consent' /\ line \notin OfTool({"ping"})
  <2>1. done' > done /\ line.tool # "ping"
    BY <1>1, <1>4, <1>7 DEF LeavesTraces, VaultTools
  <2>2. granted = Len(read) /\ (line.asks # "nobody" => confirmed' = Len(read))
    BY <1>1, <2>1
  <2> QED
    BY <1>2, <1>5, <2>1, <2>2 DEF Needed, OfTool
<1>8. \/ reply' = "ok" /\ (Effects' = 1 \/ line \in OfTool({"ping"}))
      \/ reply' = "error" /\ (Effects' = 0 \/ line \in OfTool(LeavesTraces))
      \/ reply' = "denied" /\ Effects' = 0
  BY <1>1, <1>2, <1>4 DEF OfTool
<1> QED
  BY <1>1, <1>3, <1>4, <1>6, <1>7, <1>8 DEF Service!Decide

\* The loop reads a line, and knows how far it gets.
LEMMA ReadRefines ==
  ASSUME ServerInv, CountInv, Read
  PROVE  line' \in Requests /\ Service!Take(line')
<1>1. /\ inbox # <<>> /\ line' = Head(inbox) /\ inbox' = Tail(inbox)
      /\ read' = Append(read, line') /\ at = "idle" /\ at' = Reached(line')
      /\ reply' = IF at' = "replying" THEN "answered" ELSE "none"
      /\ done' = 0 /\ UNCHANGED <<answers, granted, confirmed>>
  BY DEF Read
<1>2. line' \in Requests /\ line' \in Line
  BY <1>1, ServerAssumption DEF ServerInv, ServerTypeOK
<1>3. granted # Len(read') /\ confirmed # Len(read')
  BY <1>1, <1>2 DEF CountInv, ServerInv, ServerTypeOK
<1>4. Consent' = {} /\ Effects' = 0
  BY <1>1, <1>3 DEF Consent, Effects
<1>5. Phase = "free"
  BY <1>1 DEF Phase
<1>6. \/ line' \in OfKind({"oversized"}) /\ Phase' = "closed" /\ reply' = "none"
      \/ /\ line' \in OfKind({"blank", "garbled", "notification"})
         /\ Phase' = "free" /\ reply' = "none"
      \/ line' \in OfKind({"other"}) /\ Phase' = "answering" /\ reply' = "answered"
      \/ /\ line' \notin OfKind({"oversized"}) \cup
                         OfKind({"blank", "garbled", "notification"}) \cup OfKind({"other"})
         /\ Phase' = "serving" /\ reply' = "none"
  BY <1>1, <1>2 DEF OfKind, Phase, Reached, EndsLoop, Silent, Line
<1> QED
  BY <1>1, <1>2, <1>4, <1>5, <1>6 DEF Service!Take

\* Each step of the loop is one of the service, or none.
LEMMA ServiceStep ==
  ServerInv /\ CountInv /\ [ServerNext]_server => [Service!ServiceNext]_(Service!service)
<1> SUFFICES ASSUME ServerInv, CountInv, [ServerNext]_server
             PROVE  Service!ServiceNext \/ UNCHANGED Service!service
  OBVIOUS
<1>1. ASSUME UNCHANGED <<inbox, read, reply, answers, Phase>>,
             UNCHANGED <<granted, confirmed, done>>
      PROVE  UNCHANGED Service!service
  BY <1>1 DEF Service!service, InService, Consent, Effects
<1>2. CASE Send
  <2>1. PICK l \in Requests : inbox' = Append(inbox, l)
    BY <1>2 DEF Send
  <2>2. UNCHANGED <<read, reply, answers, Phase, Consent, Effects>>
    BY <1>2 DEF Send, Phase, InService, Consent, Effects
  <2> QED
    BY <2>1, <2>2 DEF Service!ServiceNext, Service!Write
<1>3. CASE Read
  BY <1>3, ReadRefines DEF Service!ServiceNext
<1>4. CASE Pass
  <2>1. /\ UNCHANGED <<inbox, read, reply, answers, confirmed, done>> /\ granted' = Len(read)
        /\ at \in {"gate", "prompt"} /\ at' = "handling"
    BY <1>4 DEF Pass
  <2>2. Phase = "serving" /\ Phase' = "serving" /\ InService /\ InService'
    BY <2>1 DEF Phase, InService
  <2>3. Consent' = Consent \cup {"session"} /\ Effects' = Effects
    BY <2>1, <2>2 DEF Consent, Effects
  <2> QED
    BY <2>1, <2>2, <2>3 DEF Service!ServiceNext, Service!Admit
<1>5. CASE Ask
  BY <1>1, <1>5 DEF Ask, Phase
<1>6. CASE Wait \/ UNCHANGED server
  BY <1>1, <1>6 DEF Wait, loop, server, Phase
<1>7. line \in Requests \/ at \notin {"prompt", "handling", "waiting"}
  <2> SUFFICES ASSUME at \in {"prompt", "handling", "waiting"} PROVE line \in Requests
    OBVIOUS
  <2>1. line = read[Len(read)] /\ read # <<>> /\ read \in Seq(Requests)
    BY DEF ServerInv, ServerTypeOK, LineInv
  <2>2. Len(read) \in 1..Len(read)
    BY <2>1
  <2> QED
    BY <2>1, <2>2
<1>8. CASE Deny
  <2>1. Service!Decide(line)
    BY <1>8, DecideRefines DEF Deny, ServerInv, ServerTypeOK
  <2> QED
    BY <1>7, <1>8, <2>1 DEF Deny, Service!ServiceNext
<1>9. CASE Handle \/ Confirm \/ ConfirmEmpty \/ Dismiss
  <2>1. at \in {"handling", "waiting"} /\ UNCHANGED <<inbox, read, answers, granted>>
    BY <1>9 DEF Handle, Confirm, ConfirmEmpty, Dismiss
  <2>2. /\ confirmed' \in {confirmed, Len(read)}
        /\ done \in Nat
    BY <1>9 DEF Handle, Confirm, ConfirmEmpty, Dismiss, ServerInv, ServerTypeOK
  <2>3. CASE at' = "waiting"
    BY <1>1, <1>9, <2>1, <2>3 DEF Handle, Confirm, ConfirmEmpty, Dismiss, Act, Returns, Phase
  <2>4. CASE at' = "replying"
    <3>1. \/ reply' = "error" /\ (done' = done \/ (line.tool \in LeavesTraces /\ done' = done + 1))
          \/ reply' = "ok" /\ done' = IF line.tool = "ping" THEN done ELSE done + 1
      BY <1>9, <2>1, <2>4 DEF Handle, Confirm, ConfirmEmpty, Dismiss, Act, Returns, AfterDismissal
    <3>2. done' > done /\ line.asks # "nobody" => confirmed' = Len(read)
      BY <1>9, <2>2 DEF Handle, Confirm, ConfirmEmpty, Dismiss, Returns
    <3>3. Service!Decide(line)
      BY <2>1, <2>2, <2>4, <3>1, <3>2, DecideRefines
    <3> QED
      BY <1>7, <2>1, <3>3 DEF Service!ServiceNext
  <2>5. at' \in {"waiting", "replying"}
    BY <1>9, <2>1 DEF Handle, Confirm, ConfirmEmpty, Dismiss, Act, Returns
  <2> QED
    BY <2>3, <2>4, <2>5
<1>10. CASE Reply
  <2>1. /\ at = "replying" /\ answers' = Append(answers, Len(read))
        /\ at' = "idle" /\ reply' = "none" /\ UNCHANGED <<inbox, read>>
    BY <1>10 DEF Reply
  <2>2. Phase = "answering" /\ Phase' = "free" /\ Consent' = {} /\ Effects' = 0
    BY <2>1 DEF Phase, InService, Consent, Effects
  <2> QED
    BY <2>1, <2>2 DEF Service!ServiceNext, Service!Answer
<1>11. CASE End
  <2>1. Phase' = "free" /\ Consent' = {} /\ Effects' = 0
    BY <1>11 DEF End, Phase, InService, Consent, Effects
  <2> QED
    BY <1>11, <2>1 DEF End, Service!ServiceNext, Service!Stop
<1> QED
  BY <1>2, <1>3, <1>4, <1>5, <1>6, <1>8, <1>9, <1>10, <1>11 DEF ServerNext

\* The server implements the service: lines are taken in their order, an effect
\* happens once at most and after session and user consented to that very line, and
\* the answer, which follows it, is true (server.go:467-530).
THEOREM ServiceImplementation == ServerSpec => ImplementsService
<1>1. ServerInit => Service!ServiceInit /\ CountInv
  BY DEF ServerInit, Service!ServiceInit, CountInv, Phase, InService, Consent, Effects
<1> QED
  BY <1>1, NextCount, ServiceStep, ServerInvariance, PTL
     DEF ServerSpec, ImplementsService, Service!ServiceSpec

(***************************************************************************)
(* Why a line comes to its end, for every chain of dialogs: the safety     *)
(* half of RequestsAreAnswered.                                            *)
(***************************************************************************)
\* The steps the loop may still take with the line it has read.
LineLeft ==
    IF at \in {"idle", "ended"} THEN 0
    ELSE IF at = "replying" THEN 1
    ELSE IF at = "waiting" THEN 1 + Len(windows)
    ELSE Len(Dialogs) + (IF at = "handling" THEN 2 ELSE IF at = "prompt" THEN 3 ELSE 4)

\* Each step of the loop, and each answer of a user, brings a line nearer to its
\* end, and nothing puts it back: it passes the gate once, opens each window once
\* and is not handled again (server.go:467-530, dialog.go:32-47).
THEOREM LinesRunDown ==
  ServerSpec => [][\/ at \in {"idle", "ended"}
                   \/ LineLeft' < LineLeft
                   \/ UNCHANGED <<at, windows>>]_server
<1>1. ServerInv /\ [ServerNext]_server =>
        [\/ at \in {"idle", "ended"}
         \/ LineLeft' < LineLeft
         \/ UNCHANGED <<at, windows>>]_server
  <2> SUFFICES ASSUME ServerInv, ServerNext, at \notin {"idle", "ended"},
                      ~UNCHANGED <<at, windows>>
               PROVE  LineLeft' < LineLeft
    OBVIOUS
  <2> DEFINE D == Len(Dialogs)
             W == Len(windows)
  <2>1. D \in Nat \ {0}
    BY ServerAssumption, LenProperties, EmptySeq
  <2>2. W \in Nat /\ (at = "waiting" => W # 0) /\ windows \in Seq(Windows)
    BY LenProperties, EmptySeq DEF ServerInv, ServerTypeOK
  <2>3. /\ at' = "replying" => LineLeft' = 1
        /\ at' = "idle" => LineLeft' = 0
        /\ at' = "waiting" => LineLeft' = 1 + Len(windows')
        /\ at' = "handling" => LineLeft' = D + 2
        /\ at' = "prompt" => LineLeft' = D + 3
    BY DEF LineLeft
  <2>4. /\ at = "replying" => LineLeft = 1
        /\ at = "waiting" => LineLeft = 1 + W
        /\ at = "handling" => LineLeft = D + 2
        /\ at = "prompt" => LineLeft = D + 3
        /\ at = "gate" => LineLeft = D + 4
    BY DEF LineLeft
  <2> HIDE DEF D, W
  <2>5. CASE Pass
    BY <2>1, <2>3, <2>4, <2>5 DEF Pass
  <2>6. CASE Ask \/ Deny
    BY <2>1, <2>3, <2>4, <2>6 DEF Ask, Deny
  <2>7. CASE Handle
    <3>1. at = "handling" /\ (at' = "replying" \/ (at' = "waiting" /\ windows' = WindowsOf(line)))
      BY <2>7 DEF Handle, Act, Returns
    <3>2. Len(WindowsOf(line)) \in Nat /\ Len(WindowsOf(line)) <= D
      BY <2>1, <3>1 DEF WindowsOf, D
    <3> QED
      BY <2>1, <2>3, <2>4, <3>1, <3>2
  <2>8. CASE Confirm \/ ConfirmEmpty
    BY <2>2, <2>3, <2>4, <2>8 DEF Confirm, ConfirmEmpty, Act, Returns
  <2>9. CASE Dismiss
    <3>1. CASE at' = "replying"
      BY <2>2, <2>3, <2>4, <2>9, <3>1 DEF Dismiss
    <3>2. CASE at' # "replying"
      <4>1. at = "waiting" /\ at' = "waiting" /\ windows' = Tail(windows)
        BY <2>9, <3>2 DEF Dismiss, Returns
      <4>2. Len(windows') = W - 1
        BY <2>2, <4>1, HeadTailProperties, EmptySeq DEF W
      <4> QED
        BY <2>2, <2>3, <2>4, <4>1, <4>2
    <3> QED
      BY <3>1, <3>2
  <2>10. CASE Reply
    BY <2>3, <2>4, <2>10 DEF Reply
  <2>11. CASE End
    <3>1. LineLeft' = 0
      BY <2>11, <2>3 DEF End
    <3>2. at \in {"gate", "prompt", "handling", "waiting", "replying"}
      BY DEF ServerInv, ServerTypeOK
    <3> QED
      BY <2>1, <2>2, <2>4, <3>1, <3>2
  <2>12. ~(Send \/ Read \/ Wait)
    BY DEF Send, Read, Wait, loop
  <2> QED
    BY <2>5, <2>6, <2>7, <2>8, <2>9, <2>10, <2>11, <2>12 DEF ServerNext
<1> QED
  BY <1>1, ServerInvariance, PTL DEF ServerSpec
=============================================================================
