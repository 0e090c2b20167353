-------------------------- MODULE Clipboard_proofs --------------------------
(***************************************************************************)
(* Clipboard for any number of calls and processes, any texts and secrets. *)
(***************************************************************************)
EXTENDS Clipboard, TLAPS

LEMMA InitType == Init => TypeOK
  BY ClipboardAssumption DEF Init, TypeOK, Job, IdleJob, Active, Values

\* Every step of a call, its goroutine, a process or the user keeps the types.
LEMMA NextType == TypeOK /\ [Next]_vars => TypeOK'
<1> SUFFICES ASSUME TypeOK, [Next]_vars
             PROVE  TypeOK'
  OBVIOUS
<1> USE ClipboardAssumption DEF TypeOK, Job, IdleJob, Active, Values, Blames
<1>1. ASSUME NEW j \in Jobs, NEW s \in Secrets, Capture(j, s)
      PROVE  TypeOK'
  <2>1. PICK prev \in {board, Empty} :
          jobs' = [jobs EXCEPT ![j] = [pc |-> "captured", secret |-> s, prev |-> prev]]
    BY <1>1 DEF Capture
  <2>2. /\ board' = board /\ lastUser' = lastUser /\ owned' = owned /\ spoiled' = spoiled
        /\ blame' \subseteq blame \cup {"broken"} /\ MayCall(j)
    BY <1>1 DEF Capture
  <2>3. jobs' \in [Jobs -> Job]
    BY <2>1
  <2>4. \A k \in Jobs : jobs'[k] = IF k = j THEN [pc |-> "captured", secret |-> s, prev |-> prev]
                                  ELSE jobs[k]
    BY <2>1
  <2> QED
    BY <2>2, <2>3, <2>4 DEF MayCall
<1>2. ASSUME NEW j \in Jobs, Write(j)
      PROVE  TypeOK'
  <2>1. /\ board' \in Values
        /\ owned' = owned /\ lastUser' = lastUser /\ blame' = blame
        /\ spoiled' \subseteq Secrets
    BY <1>2 DEF Write
  <2>2. \/ jobs' = [jobs EXCEPT ![j].pc = "waiting"]
        \/ jobs' = [jobs EXCEPT ![j] = IdleJob]
    BY <1>2 DEF Write
  <2>3. jobs' \in [Jobs -> Job] /\ jobs[j].pc = "captured"
    BY <1>2, <2>2 DEF Write
  <2>4. /\ \A k \in Jobs : k # j => jobs'[k] = jobs[k]
        /\ jobs'[j].pc # "captured"
        /\ jobs'[j].pc # "idle" => jobs'[j].secret = jobs[j].secret
    BY <2>2
  <2> QED
    BY <2>1, <2>3, <2>4
<1>3. ASSUME NEW j \in Jobs, Check(j)
      PROVE  TypeOK'
  <2>1. /\ board' = board /\ owned' = owned /\ lastUser' = lastUser
        /\ spoiled' \subseteq Secrets /\ blame' \subseteq Blames
    BY <1>3 DEF Check, LeftBy, BlameIf
  <2>2. \/ jobs' = [jobs EXCEPT ![j].pc = "checked"]
        \/ jobs' = [jobs EXCEPT ![j] = IdleJob]
    BY <1>3 DEF Check
  <2>3. jobs' \in [Jobs -> Job] /\ jobs[j].pc = "waiting"
    BY <1>3, <2>2 DEF Check
  <2>4. /\ \A k \in Jobs : k # j => jobs'[k] = jobs[k]
        /\ jobs'[j].pc # "captured"
        /\ jobs'[j].pc # "idle" => jobs'[j].secret = jobs[j].secret
    BY <2>2
  <2> QED
    BY <2>1, <2>3, <2>4
<1>4. ASSUME NEW j \in Jobs, Restore(j)
      PROVE  TypeOK'
  <2>0. jobs[j].secret \in Secrets /\ jobs[j].prev \in Values /\ LeftBy(j) \subseteq Secrets
    BY <1>4 DEF Restore, LeftBy
  <2>1. board' \in Values /\ spoiled' \subseteq Secrets /\ blame' \subseteq Blames
    <3> HIDE DEF Values, Job, IdleJob
    <3> QED
      BY <1>4, <2>0 DEF Restore, Restored, BlameIf
  <2>2. jobs' = [jobs EXCEPT ![j] = IdleJob] /\ lastUser' = lastUser /\ owned' = owned
    BY <1>4 DEF Restore
  <2>3. \A k \in Jobs : jobs'[k] = IF k = j THEN IdleJob ELSE jobs[k]
    BY <2>2
  <2> QED
    BY <2>1, <2>2, <2>3
<1>5. ASSUME NEW j \in Jobs, Cancel(j)
      PROVE  TypeOK'
  BY <1>5 DEF Cancel
<1>6. ASSUME NEW p \in Processes, Exit(p)
      PROVE  TypeOK'
  BY <1>6 DEF Exit, Watches
<1>7. ASSUME NEW v \in Values, UserWrite(v)
      PROVE  TypeOK'
  BY <1>7 DEF UserWrite, BlameIf
<1>8. CASE UNCHANGED vars
  BY <1>8 DEF vars
<1> QED
  BY <1>1, <1>2, <1>3, <1>4, <1>5, <1>6, <1>7, <1>8 DEF Next, UserCopies, Clear

\* Types, and one handler at a time in a process (clipboard.go:75-117).
THEOREM TypeCorrectness == Spec => []TypeOK
  BY InitType, NextType, PTL DEF Spec

(***************************************************************************)
(* SecretsAreWatched is not inductive: a goroutine may restore a secret.   *)
(* What it restores must be watched too, by another call.                  *)
(***************************************************************************)

\* Secrets that must not stay, and that nothing has befallen.
Guarded == (Secrets \ owned) \ spoiled

BoardWatched(s) == board = s => \E j \in Jobs : WatchedBy(j, s)

PrevWatched(s) ==
    \A k \in Jobs : Active(k) /\ jobs[k].prev = s => \E j \in Jobs \ {k} : WatchedBy(j, s)

WatchInv == \A s \in Guarded : BoardWatched(s) /\ PrevWatched(s)

\* A call that ends without leaving a secret behind takes no watcher away from it.
LEMMA EndKeepsWatch ==
  ASSUME TypeOK, NEW s \in Secrets, BoardWatched(s), PrevWatched(s),
         NEW j \in Jobs, Active(j), s \notin LeftBy(j), jobs' = [jobs EXCEPT ![j] = IdleJob],
         \/ board' = board /\ board # jobs[j].secret
         \/ board' = jobs[j].prev
         \/ board' = board /\ s # jobs[j].secret
  PROVE  BoardWatched(s)' /\ PrevWatched(s)'
<1>1. \A k \in Jobs : k # j => jobs'[k] = jobs[k]
  BY DEF TypeOK
<1>2. ~Active(j)'
  BY DEF TypeOK, IdleJob, Active
<1>3. \A k \in Jobs : k # j => /\ WatchedBy(k, s)' <=> WatchedBy(k, s)
                               /\ Active(k)' <=> Active(k)
                               /\ jobs'[k].prev = jobs[k].prev
  BY <1>1 DEF WatchedBy, Watches, Active
<1>4. PrevWatched(s)'
  <2> SUFFICES ASSUME NEW k \in Jobs, Active(k)', jobs'[k].prev = s
               PROVE  \E i \in Jobs \ {k} : WatchedBy(i, s)'
    BY DEF PrevWatched
  <2>1. k # j /\ Active(k) /\ jobs[k].prev = s
    BY <1>2, <1>3
  <2>2. PICK i \in Jobs \ {k} : WatchedBy(i, s)
    BY <2>1 DEF PrevWatched
  <2>3. CASE s = jobs[j].secret
    <3>1. PICK m \in Jobs \ {j, k} : WatchedBy(m, s)
      BY <2>1, <2>3 DEF LeftBy
    <3> QED
      BY <1>3, <3>1
  <2>4. CASE s # jobs[j].secret
    <3>1. i # j
      BY <2>2, <2>4 DEF WatchedBy
    <3> QED
      BY <1>3, <2>2, <3>1
  <2> QED
    BY <2>3, <2>4
<1>5. BoardWatched(s)'
  <2> SUFFICES ASSUME board' = s
               PROVE  \E i \in Jobs : WatchedBy(i, s)'
    BY DEF BoardWatched
  <2>1. PICK i \in Jobs : i # j /\ WatchedBy(i, s)
    BY DEF BoardWatched, PrevWatched, WatchedBy
  <2> QED
    BY <1>3, <2>1
<1> QED
  BY <1>4, <1>5

\* A step that ends no call keeps every watcher.
LEMMA StayKeepsWatch ==
  ASSUME NEW s, PrevWatched(s),
         \A k \in Jobs : /\ WatchedBy(k, s) => WatchedBy(k, s)'
                         /\ Active(k)' => Active(k) /\ jobs'[k].prev = jobs[k].prev
  PROVE  PrevWatched(s)'
  BY DEF PrevWatched

LEMMA NextWatch == TypeOK /\ WatchInv /\ [Next]_vars => WatchInv'
<1> SUFFICES ASSUME TypeOK, WatchInv, [Next]_vars, NEW s \in Guarded'
             PROVE  BoardWatched(s)' /\ PrevWatched(s)'
  BY DEF WatchInv
<1>0. s \in Secrets /\ (s \in Guarded => BoardWatched(s) /\ PrevWatched(s))
  BY DEF Guarded, WatchInv
<1>1. ASSUME NEW j \in Jobs, NEW t \in Secrets, Capture(j, t)
      PROVE  BoardWatched(s)' /\ PrevWatched(s)'
  <2>1. PICK prev \in {board, Empty} :
          jobs' = [jobs EXCEPT ![j] = [pc |-> "captured", secret |-> t, prev |-> prev]]
    BY <1>1 DEF Capture
  <2>2. board' = board /\ ~Active(j) /\ BoardWatched(s) /\ PrevWatched(s)
    BY <1>0, <1>1 DEF Capture, Guarded
  <2>3. \A k \in Jobs : k # j => jobs'[k] = jobs[k]
    BY <2>1 DEF TypeOK
  <2>4. \A i \in Jobs : WatchedBy(i, s) => i # j /\ WatchedBy(i, s)'
    BY <2>2, <2>3 DEF WatchedBy, Watches, Active
  <2>5. jobs'[j].prev = prev /\ (prev = s => board = s)
    BY <1>0, <2>1, ClipboardAssumption DEF TypeOK
  <2> QED
    BY <2>2, <2>3, <2>4, <2>5 DEF BoardWatched, PrevWatched, Active
<1>2. ASSUME NEW j \in Jobs, Write(j)
      PROVE  BoardWatched(s)' /\ PrevWatched(s)'
  <2>1. ~Watches(j) /\ Active(j)
    BY <1>2 DEF Write, Watches, Active
  <2>2. CASE board' = jobs[j].secret /\ jobs' = [jobs EXCEPT ![j].pc = "waiting"]
    <3>1. /\ \A k \in Jobs : k # j => jobs'[k] = jobs[k]
          /\ jobs'[j].pc = "waiting" /\ jobs'[j].secret = jobs[j].secret
          /\ jobs'[j].prev = jobs[j].prev
      BY <2>2 DEF TypeOK, Job
    <3>2. \A i \in Jobs : WatchedBy(i, s) => WatchedBy(i, s)'
      BY <2>1, <3>1 DEF WatchedBy, Watches
    <3>3. s = jobs[j].secret => WatchedBy(j, s)'
      BY <3>1 DEF WatchedBy, Watches
    <3>4. BoardWatched(s)'
      BY <2>2, <3>3 DEF BoardWatched
    <3>5. CASE s \in Guarded
      <4>1. \A k \in Jobs : Active(k)' => Active(k) /\ jobs'[k].prev = jobs[k].prev
        BY <2>1, <3>1 DEF Active
      <4> QED
        BY <1>0, <3>2, <3>4, <3>5, <4>1, StayKeepsWatch
    <3>6. CASE s \notin Guarded
      <4>1. s = jobs[j].secret /\ s # jobs[j].prev
        BY <1>2, <3>6 DEF Write, Guarded
      <4> QED
        BY <3>1, <3>3, <3>4, <4>1 DEF PrevWatched
    <3> QED
      BY <3>5, <3>6
  <2>3. CASE board' = board /\ jobs' = [jobs EXCEPT ![j] = IdleJob] /\ spoiled' = spoiled
    <3>1. BoardWatched(s) /\ PrevWatched(s)
      BY <1>0, <1>2, <2>3 DEF Write, Guarded
    <3>2. /\ \A k \in Jobs : k # j => jobs'[k] = jobs[k]
          /\ jobs'[j].pc = "idle"
      BY <2>3 DEF TypeOK, IdleJob
    <3>3. \A i \in Jobs : /\ WatchedBy(i, s) => WatchedBy(i, s)'
                          /\ Active(i)' => Active(i) /\ jobs'[i].prev = jobs[i].prev
      BY <2>1, <3>2 DEF WatchedBy, Watches, Active
    <3> QED
      BY <2>3, <3>1, <3>3, StayKeepsWatch DEF BoardWatched
  <2> QED
    BY <1>2, <2>2, <2>3 DEF Write
<1>3. ASSUME NEW j \in Jobs, Check(j)
      PROVE  BoardWatched(s)' /\ PrevWatched(s)'
  <2>1. /\ board' = board /\ BoardWatched(s) /\ PrevWatched(s)
        /\ jobs[j].pc = "waiting"
    BY <1>0, <1>3 DEF Check, Guarded
  <2>2. CASE jobs' = [jobs EXCEPT ![j].pc = "checked"]
    <3>1. \A k \in Jobs : jobs'[k] = IF k = j THEN [jobs[j] EXCEPT !.pc = "checked"]
                                     ELSE jobs[k]
      BY <2>2 DEF TypeOK
    <3>2. \A k \in Jobs : /\ WatchedBy(k, s) => WatchedBy(k, s)'
                          /\ Active(k)' => Active(k) /\ jobs'[k].prev = jobs[k].prev
      BY <2>1, <3>1 DEF TypeOK, Job, WatchedBy, Watches, Active
    <3> QED
      BY <2>1, <3>2, StayKeepsWatch DEF BoardWatched
  <2>3. CASE /\ ~StillOurs(j) /\ jobs' = [jobs EXCEPT ![j] = IdleJob]
             /\ spoiled' = spoiled \cup LeftBy(j)
    <3>1. s \notin LeftBy(j) /\ Active(j) /\ board # jobs[j].secret
      BY <2>1, <2>3 DEF Guarded, Active, StillOurs
    <3> QED
      BY <1>0, <2>1, <2>3, <3>1, EndKeepsWatch
  <2> QED
    BY <1>3, <2>2, <2>3 DEF Check
<1>4. ASSUME NEW j \in Jobs, Restore(j)
      PROVE  BoardWatched(s)' /\ PrevWatched(s)'
  <2>1. /\ BoardWatched(s) /\ PrevWatched(s) /\ Active(j)
        /\ jobs' = [jobs EXCEPT ![j] = IdleJob]
    BY <1>0, <1>4 DEF Restore, Guarded, Active
  <2>2. CASE board' = jobs[j].prev /\ spoiled' = spoiled \cup LeftBy(j)
    <3>1. s \notin LeftBy(j)
      BY <2>2 DEF Guarded
    <3> QED
      BY <1>0, <2>1, <2>2, <3>1, EndKeepsWatch
  <2>3. CASE board' = board /\ spoiled' = spoiled \cup {jobs[j].secret}
    <3>1. s # jobs[j].secret /\ s \notin LeftBy(j)
      BY <2>3 DEF Guarded, LeftBy
    <3> QED
      BY <1>0, <2>1, <2>3, <3>1, EndKeepsWatch
  <2> QED
    BY <1>4, <2>2, <2>3 DEF Restore, Restored
<1>5. ASSUME NEW j \in Jobs, Cancel(j)
      PROVE  BoardWatched(s)' /\ PrevWatched(s)'
  <2>1. /\ BoardWatched(s) /\ PrevWatched(s) /\ Active(j) /\ board' = board
        /\ jobs' = [jobs EXCEPT ![j] = IdleJob] /\ s # jobs[j].secret
    BY <1>0, <1>5 DEF Cancel, Guarded, Active
  <2>2. s \notin LeftBy(j)
    BY <2>1 DEF LeftBy
  <2> QED
    BY <1>0, <2>1, <2>2, EndKeepsWatch
<1>6. ASSUME NEW p \in Processes, Exit(p)
      PROVE  BoardWatched(s)' /\ PrevWatched(s)'
  <2>1. BoardWatched(s) /\ PrevWatched(s) /\ board' = board
    BY <1>0, <1>6 DEF Exit, Guarded
  <2>2. \A k \in Jobs : jobs'[k] = IF Owner[k] = p THEN IdleJob ELSE jobs[k]
    BY <1>6 DEF Exit
  <2>3. \A k \in Jobs : Owner[k] = p => ~WatchedBy(k, s)
    BY <1>6 DEF Exit, Guarded, WatchedBy
  <2>4. \A k \in Jobs : /\ WatchedBy(k, s) => WatchedBy(k, s)'
                        /\ Active(k)' => Active(k) /\ jobs'[k].prev = jobs[k].prev
    BY <2>2, <2>3 DEF WatchedBy, Watches, Active, IdleJob
  <2> QED
    BY <2>1, <2>4, StayKeepsWatch DEF BoardWatched
<1>7. ASSUME NEW v \in Values, UserWrite(v)
      PROVE  BoardWatched(s)' /\ PrevWatched(s)'
  <2>1. s \in Guarded /\ board' # s /\ jobs' = jobs
    BY <1>7 DEF UserWrite, Guarded
  <2>2. \A k \in Jobs : /\ WatchedBy(k, s) => WatchedBy(k, s)'
                        /\ Active(k)' => Active(k) /\ jobs'[k].prev = jobs[k].prev
    BY <2>1 DEF WatchedBy, Watches, Active
  <2> QED
    BY <1>0, <2>1, <2>2, StayKeepsWatch DEF BoardWatched
<1>8. CASE UNCHANGED vars
  BY <1>0, <1>8 DEF vars, Guarded, BoardWatched, PrevWatched, Active, WatchedBy, Watches
<1> QED
  BY <1>1, <1>2, <1>3, <1>4, <1>5, <1>6, <1>7, <1>8 DEF Next, UserCopies, Clear, Values

\* However many calls overlap, whatever the user writes in between and whichever
\* reads fail, a secret on the clipboard has a goroutine that will take it off,
\* unless its own call was cut short or ended before one that will put it back
\* (clipboard.go:60-117).
THEOREM Watched == Spec => []SecretsAreWatched
<1>1. Init => WatchInv
  BY ClipboardAssumption
     DEF Init, WatchInv, BoardWatched, PrevWatched, Guarded, Active, IdleJob, Values
<1>2. WatchInv => SecretsAreWatched
  BY DEF WatchInv, BoardWatched, Guarded, Exposed, SecretsAreWatched
<1> QED
  BY <1>1, <1>2, NextWatch, TypeCorrectness, PTL DEF Spec

(***************************************************************************)
(* UserContentKept is not inductive either: what a goroutine restores, and *)
(* what it restores in turn, must lead back to the user.  After the user   *)
(* has written, the calls that were outstanding will leave what he wrote   *)
(* alone; the others are live, and what each of them will put back is the  *)
(* user's or the secret of another live call.                              *)
(***************************************************************************)
Held(L, j, v) == \E k \in L \ {j} : WatchedBy(k, v)

BoardLive(L) == board = lastUser \/ \E k \in L : WatchedBy(k, board)

\* Calls whose end will bring the clipboard closer to what the user put there.
LiveCalls(L) ==
    \A j \in L : Active(j) /\ (jobs[j].prev = lastUser \/ Held(L, j, jobs[j].prev))

\* Calls the user has overtaken.  One whose secret a later call has copied again
\* may take it for its own.
DeadCalls(L) ==
    \A j \in Jobs \ L : Active(j) =>
        /\ jobs[j].pc # "captured" /\ jobs[j].secret # lastUser
        /\ jobs[j].pc = "checked" => Held(L, j, jobs[j].secret)

LiveSet(L) == BoardLive(L) /\ LiveCalls(L) /\ DeadCalls(L)

KeptInv == blame = {} => \E L \in SUBSET Jobs : LiveSet(L)

\* A live call nobody depends on ends: the others stay live.
LEMMA EndKeepsLive ==
  ASSUME TypeOK, NEW L \in SUBSET Jobs, LiveSet(L), NEW j \in Jobs, ~Entangled(j),
         Active(j), jobs' = [jobs EXCEPT ![j] = IdleJob], lastUser' = lastUser
  PROVE  LiveCalls(L \ {j})' /\ DeadCalls(L \ {j})'
<1> DEFINE M == L \ {j}
<1>1. \A k \in Jobs : k # j => jobs'[k] = jobs[k]
  BY DEF TypeOK
<1>2. jobs'[j] = IdleJob
  BY DEF TypeOK
<1>3. ASSUME NEW k \in Jobs \ {j}, NEW v, Held(L, k, v),
             Active(k), v \in {jobs[k].secret, jobs[k].prev}
      PROVE  Held(M, k, v)'
  <2>1. PICK i \in L \ {k} : WatchedBy(i, v)
    BY <1>3 DEF Held
  <2>2. i # j
    BY <1>3, <2>1 DEF Entangled, WatchedBy
  <2> QED
    BY <1>1, <2>1, <2>2 DEF Held, WatchedBy, Watches
<1>4. LiveCalls(M)'
  <2> SUFFICES ASSUME NEW k \in M
               PROVE  Active(k)' /\ ((jobs[k].prev)' = lastUser' \/ Held(M, k, jobs[k].prev)')
    BY DEF LiveCalls
  <2>1. k \in Jobs \ {j} /\ jobs'[k] = jobs[k] /\ Active(k)
    BY <1>1 DEF LiveSet, LiveCalls
  <2>2. jobs[k].prev = lastUser \/ Held(L, k, jobs[k].prev)
    BY DEF LiveSet, LiveCalls
  <2>3. CASE jobs[k].prev = lastUser
    BY <2>1, <2>3 DEF Active
  <2>4. CASE Held(L, k, jobs[k].prev)
    BY <1>3, <2>1, <2>4 DEF Active, Held, WatchedBy, Watches
  <2> QED
    BY <2>2, <2>3, <2>4
<1>5. DeadCalls(M)'
  <2> SUFFICES ASSUME NEW k \in Jobs \ M, Active(k)'
               PROVE  /\ (jobs[k].pc)' # "captured" /\ (jobs[k].secret)' # lastUser'
                      /\ (jobs[k].pc)' = "checked" => Held(M, k, jobs[k].secret)'
    BY DEF DeadCalls
  <2>1. k \in Jobs \ {j} /\ jobs'[k] = jobs[k] /\ Active(k) /\ k \notin L
    BY <1>1, <1>2 DEF Active, IdleJob
  <2>2. /\ jobs[k].pc # "captured" /\ jobs[k].secret # lastUser
        /\ jobs[k].pc = "checked" => Held(L, k, jobs[k].secret)
    BY <2>1 DEF LiveSet, DeadCalls
  <2> QED
    BY <1>3, <2>1, <2>2 DEF Held, WatchedBy, Watches
<1> QED
  BY <1>4, <1>5

\* Every step after which nothing is to blame leaves a set of live calls.
LEMMA NextKept == TypeOK /\ KeptInv /\ [Next]_vars => KeptInv'
<1> SUFFICES ASSUME TypeOK, KeptInv, [Next]_vars, blame' = {}
             PROVE  \E L \in SUBSET Jobs : LiveSet(L)'
  BY DEF KeptInv
<1>0. PICK L \in SUBSET Jobs : LiveSet(L)
  <2>1. ASSUME NEW v \in Values, UserWrite(v)
        PROVE  blame = {}
    BY <2>1 DEF UserWrite, BlameIf
  <2>2. ASSUME NEW j \in Jobs, \/ \E s \in Secrets : Capture(j, s)
                               \/ Write(j) \/ Check(j) \/ Restore(j) \/ Cancel(j)
        PROVE  blame = {}
    BY <2>2 DEF Capture, Write, Check, Restore, Cancel, BlameIf
  <2> QED
    BY <2>1, <2>2 DEF KeptInv, Next, Exit, UserCopies, Clear, Values, vars
<1> USE <1>0
<1>1. ASSUME NEW j \in Jobs, NEW s \in Secrets, Capture(j, s)
      PROVE  LiveSet(L \cup {j})'
  <2>1. /\ board' = board /\ lastUser' = lastUser /\ ~Active(j)
        /\ jobs' = [jobs EXCEPT ![j] = [pc |-> "captured", secret |-> s, prev |-> board]]
    BY <1>1 DEF Capture
  <2>2. /\ \A k \in Jobs : k # j => jobs'[k] = jobs[k]
        /\ jobs'[j] = [pc |-> "captured", secret |-> s, prev |-> board]
        /\ j \notin L
    BY <2>1 DEF TypeOK, LiveSet, LiveCalls
  <2>3. \A k \in L : Watches(k) <=> Watches(k)'
    BY <2>2 DEF Watches
  <2>4. BoardLive(L \cup {j})'
    BY <2>1, <2>2, <2>3 DEF LiveSet, BoardLive, WatchedBy
  <2>5. LiveCalls(L \cup {j})'
    BY <2>1, <2>2, <2>3 DEF LiveSet, LiveCalls, BoardLive, Held, WatchedBy, Active
  <2>6. DeadCalls(L \cup {j})'
    BY <2>1, <2>2, <2>3 DEF LiveSet, DeadCalls, Held, WatchedBy, Active
  <2> QED
    BY <2>4, <2>5, <2>6 DEF LiveSet
<1>2. ASSUME NEW j \in Jobs, Write(j)
      PROVE  LiveSet(L)' \/ LiveSet(L \ {j})'
  <2>1. jobs[j].pc = "captured" /\ j \in L /\ lastUser' = lastUser
    BY <1>2 DEF Write, LiveSet, DeadCalls, Active
  <2>2. CASE board' = jobs[j].secret /\ jobs' = [jobs EXCEPT ![j].pc = "waiting"]
    <3>1. /\ \A k \in Jobs : k # j => jobs'[k] = jobs[k]
          /\ jobs'[j] = [jobs[j] EXCEPT !.pc = "waiting"]
      BY <2>2 DEF TypeOK
    <3>2. /\ jobs'[j].pc = "waiting" /\ jobs'[j].secret = jobs[j].secret
          /\ jobs'[j].prev = jobs[j].prev
      BY <3>1 DEF TypeOK, Job
    <3>3. \A k \in L \ {j} : jobs'[k] = jobs[k] /\ (Watches(k) <=> Watches(k)')
      BY <3>1 DEF Watches
    <3>4. ~Watches(j)
      BY <2>1 DEF Watches
    <3>5. BoardLive(L)'
      BY <2>1, <2>2, <3>2 DEF BoardLive, WatchedBy, Watches
    <3>6. LiveCalls(L)'
      BY <2>1, <3>2, <3>3, <3>4 DEF LiveSet, LiveCalls, Held, WatchedBy, Active
    <3>7. DeadCalls(L)'
      BY <2>1, <3>1, <3>3, <3>4 DEF LiveSet, DeadCalls, Held, WatchedBy, Active
    <3> QED
      BY <3>5, <3>6, <3>7 DEF LiveSet
  <2>3. CASE board' = board /\ jobs' = [jobs EXCEPT ![j] = IdleJob]
    <3>1. /\ \A k \in Jobs : k # j => jobs'[k] = jobs[k]
          /\ jobs'[j] = IdleJob /\ ~Watches(j)
      BY <2>1, <2>3 DEF TypeOK, Watches
    <3>2. BoardLive(L \ {j})'
      BY <2>1, <2>3, <3>1 DEF LiveSet, BoardLive, WatchedBy, Watches
    <3>3. LiveCalls(L \ {j})'
      BY <2>1, <3>1 DEF LiveSet, LiveCalls, Held, WatchedBy, Watches, Active
    <3>4. DeadCalls(L \ {j})'
      BY <2>1, <3>1 DEF LiveSet, DeadCalls, Held, WatchedBy, Watches, Active, IdleJob
    <3> QED
      BY <3>2, <3>3, <3>4 DEF LiveSet
  <2> QED
    BY <1>2, <2>2, <2>3 DEF Write
<1>3. ASSUME NEW j \in Jobs, Check(j)
      PROVE  LiveSet(L)' \/ LiveSet(L \ {j})'
  <2>1. board' = board /\ lastUser' = lastUser /\ jobs[j].pc = "waiting"
    BY <1>3 DEF Check
  <2>2. CASE StillOurs(j) /\ jobs' = [jobs EXCEPT ![j].pc = "checked"]
    <3>1. /\ \A k \in Jobs : k # j => jobs'[k] = jobs[k]
          /\ jobs'[j] = [jobs[j] EXCEPT !.pc = "checked"]
      BY <2>2 DEF TypeOK
    <3>2. /\ jobs'[j].pc = "checked"
          /\ \A k \in Jobs : /\ jobs'[k].secret = jobs[k].secret
                             /\ jobs'[k].prev = jobs[k].prev
                             /\ Watches(k) <=> Watches(k)'
                             /\ Active(k) <=> Active(k)'
      BY <2>1, <3>1 DEF TypeOK, Job, Watches, Active
    <3>3. BoardLive(L)'
      BY <2>1, <3>2 DEF LiveSet, BoardLive, WatchedBy
    <3>4. LiveCalls(L)'
      BY <2>1, <3>2 DEF LiveSet, LiveCalls, Held, WatchedBy
    <3>5. j \notin L => jobs[j].secret # lastUser /\ Held(L, j, jobs[j].secret)
      BY <2>1, <2>2 DEF LiveSet, BoardLive, DeadCalls, Held, Active, StillOurs
    <3>6. \A k \in Jobs \ {j} : jobs'[k].pc = jobs[k].pc
      BY <3>1
    <3>7. DeadCalls(L)'
      BY <2>1, <3>2, <3>5, <3>6 DEF LiveSet, DeadCalls, Held, WatchedBy
    <3> QED
      BY <3>3, <3>4, <3>7 DEF LiveSet
  <2>3. CASE ~StillOurs(j) /\ jobs' = [jobs EXCEPT ![j] = IdleJob]
    <3>1. jobs'[j].pc = "idle"
      BY <2>3 DEF TypeOK, IdleJob
    <3>2. jobs' # [jobs EXCEPT ![j].pc = "checked"]
      BY <3>1 DEF TypeOK, Job
    <3>3. ~Entangled(j)
      BY <1>3, <2>3, <3>2 DEF Check, BlameIf
    <3>4. \A k \in Jobs : k # j => jobs'[k] = jobs[k]
      BY <2>3 DEF TypeOK
    <3>5. BoardLive(L \ {j})'
      BY <2>1, <2>3, <3>4 DEF LiveSet, BoardLive, WatchedBy, Watches, StillOurs
    <3> QED
      BY <2>1, <2>3, <3>3, <3>5, EndKeepsLive DEF LiveSet, Active
  <2> QED
    BY <1>3, <2>2, <2>3 DEF Check
<1>4. ASSUME NEW j \in Jobs, Restore(j)
      PROVE  LiveSet(L \ {j})'
  <2>1. /\ board' = jobs[j].prev /\ lastUser' = lastUser /\ ~Entangled(j)
        /\ jobs[j].pc = "checked" /\ jobs' = [jobs EXCEPT ![j] = IdleJob]
    BY <1>4 DEF Restore, Restored, BlameIf
  <2>2. j \in L
    BY <2>1 DEF LiveSet, DeadCalls, Held, WatchedBy, Watches, Entangled, Active
  <2>3. \A k \in Jobs : k # j => jobs'[k] = jobs[k]
    BY <2>1 DEF TypeOK
  <2>4. BoardLive(L \ {j})'
    BY <2>1, <2>2, <2>3 DEF LiveSet, LiveCalls, BoardLive, Held, WatchedBy, Watches
  <2> QED
    BY <2>1, <2>4, EndKeepsLive DEF LiveSet, Active
<1>5. ASSUME NEW v \in Values, UserWrite(v)
      PROVE  LiveSet({})'
  BY <1>5 DEF UserWrite, BlameIf, InWindow, TwinOf, LiveSet, BoardLive, LiveCalls,
              DeadCalls, Active
<1>6. CASE UNCHANGED vars
  BY <1>6 DEF vars, LiveSet, BoardLive, LiveCalls, DeadCalls, Held, WatchedBy,
                    Watches, Active
<1>7. ~(\E j \in Jobs : Cancel(j)) /\ ~(\E p \in Processes : Exit(p))
  BY DEF Cancel, Exit
<1>8. \A j \in Jobs : L \cup {j} \in SUBSET Jobs /\ L \ {j} \in SUBSET Jobs
  OBVIOUS
<1>9. CASE \E j \in Jobs : \/ \E s \in Secrets : Capture(j, s)
                           \/ Write(j) \/ Check(j) \/ Restore(j)
  BY <1>1, <1>2, <1>3, <1>4, <1>8, <1>9
<1>10. CASE UserCopies \/ Clear
  BY <1>5, <1>10 DEF UserCopies, Clear, Values
<1> QED
  BY <1>6, <1>7, <1>9, <1>10 DEF Next

\* At every moment the clipboard holds what the user last put there or the secret
\* of a call still to put it back, if he kept out of the windows of the calls, no
\* two calls of one secret or nested ones ended out of order, no process ended and
\* the clipboard never failed: his text is neither lost nor written over, and
\* save_stash reads no remains of a call that is over (clipboard.go:56-117,
\* server.go:654).
THEOREM ContentKept == Spec => []UserContentKept
<1>1. Init => KeptInv
  <2> SUFFICES ASSUME Init
               PROVE  LiveSet({})
    BY DEF KeptInv
  <2> QED
    BY DEF Init, IdleJob, LiveSet, BoardLive, LiveCalls, DeadCalls, Active
<1>2. KeptInv => UserContentKept
  BY DEF KeptInv, UserContentKept, LiveSet, BoardLive
<1> QED
  BY <1>1, <1>2, NextKept, TypeCorrectness, PTL DEF Spec

(***************************************************************************)
(* The overlap of two calls is the only cause of what the package comment  *)
(* does not foresee: with one call outstanding, no terminal to interrupt   *)
(* it, a process that lives and a clipboard that works, it is kept.        *)
(***************************************************************************)
NothingSpoiled == spoiled = {}

\* One call alone leaves nothing to an accident (clipboard.go:75-117).
LEMMA OneCallSpoilsNothing ==
  ASSUME \A j, k \in Jobs : j = k, Terminals = {}, ~MayExit, ~MayFail
  PROVE  NothingSpoiled /\ [Next]_vars => NothingSpoiled'
<1> SUFFICES ASSUME spoiled = {}, [Next]_vars
             PROVE  spoiled' = {}
  BY DEF NothingSpoiled
<1>1. \A j \in Jobs : LeftBy(j) = {}
  BY DEF LeftBy
<1>2. ASSUME NEW j \in Jobs, \/ \E s \in Secrets : Capture(j, s)
                             \/ Write(j) \/ Check(j) \/ Restore(j) \/ Cancel(j)
      PROVE  spoiled' = {}
  BY <1>1, <1>2 DEF Capture, Write, Check, Restore, Cancel
<1>3. ASSUME NEW v \in Values, UserWrite(v)
      PROVE  spoiled' = {}
  BY <1>3 DEF UserWrite
<1>4. CASE UNCHANGED vars
  BY <1>4 DEF vars
<1> QED
  BY <1>2, <1>3, <1>4 DEF Next, Exit, UserCopies, Clear, Values

\* One call at a time keeps the promise of the package: when its TTL is over no
\* secret is on the clipboard that the user did not copy himself
\* (clipboard.go:1-4).
THEOREM OneCallLeavesNothing ==
  ASSUME \A j, k \in Jobs : j = k, Terminals = {}, ~MayExit, ~MayFail
  PROVE  Spec => []NoSecretLeftBehind
<1>1. Init => NothingSpoiled
  BY DEF Init, NothingSpoiled
<1>2. NothingSpoiled /\ [Next]_vars => NothingSpoiled'
  BY OneCallSpoilsNothing
<1>3. NothingSpoiled /\ SecretsAreWatched => NoSecretLeftBehind
  BY DEF NothingSpoiled, SecretsAreWatched, NoSecretLeftBehind, Settled, Exposed, Active, WatchedBy, Watches
<1> QED
  BY <1>1, <1>2, <1>3, Watched, PTL DEF Spec
=============================================================================
