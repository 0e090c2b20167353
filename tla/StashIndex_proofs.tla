------------------------- MODULE StashIndex_proofs -------------------------
(***************************************************************************)
(* The properties of StashIndex for any number of processes and names.     *)
(***************************************************************************)
EXTENDS StashIndex, TLAPS

\* While no two saves met in the temporary file, a save owns it from its open on.
FilesInv ==
    collided = "never" =>
        /\ Readable
        /\ \A p \in Procs : pc[p] = "put" => file[p] = "tmp" /\ tmp = Empty
        /\ \A p \in Procs : pc[p] = "rename" => tmp = List(list[p])
        /\ \A p, q \in Procs :
             pc[p] \in {"put", "rename"} /\ pc[q] \in {"put", "rename"} => p = q

\* An error or a crash that changes neither store.
Failed(p) == GiveUp(p) /\ UNCHANGED <<keys, index, tmp, collided>>

\* A handler that met nobody is alone at its name, which is in the keychain just
\* as it left it.
AloneInv ==
    \A p \in Procs : Busy(p) /\ p \notin contested =>
        /\ on[p] \in keys <=> kind[p] = "save"
        /\ \A q \in Procs : Busy(q) /\ on[q] = on[p] => q = p

\* A handler whose list is current differs from the index at its name only.
LoadedInv ==
    collided = "never" =>
        \A p \in Holders : p \notin stale =>
            \A n \in Names : n # on[p] => (n \in list[p] <=> n \in Tracked)

StashInv == TypeOK /\ FilesInv /\ AloneInv /\ LoadedInv /\ StoresAgree

\* The keychain changes, and the handler is at work on its name.
LEMMA BeginInv ==
    ASSUME StashInv, NEW p \in Procs, NEW n \in Names,
           SaveStash(p, n) \/ DeleteStash(p, n)
    PROVE  StashInv'
<1> USE StashAssumption DEF StashInv, TypeOK, Steps, Kinds, Files, Contents, List, Missing,
        Empty, Garbled, Readable, Tracked, Busy, Holders, SaveStash,
        DeleteStash, Begin, Contest, Rivals
<1>1. TypeOK'
  OBVIOUS
<1>2. FilesInv'
  BY DEF FilesInv
<1>3. AloneInv'
  BY DEF AloneInv
<1>4. LoadedInv'
  BY DEF LoadedInv
<1>5. StoresAgree'
  BY DEF StoresAgree, FilesInv, AloneInv, LoadedInv
<1> QED
  BY <1>1, <1>2, <1>3, <1>4, <1>5

\* An error or a crash after the keychain was changed.
LEMMA GiveUpInv ==
    ASSUME StashInv, NEW p \in Procs, Failed(p), Busy(p)
    PROVE  StashInv'
<1> USE StashAssumption DEF StashInv, TypeOK, Steps, Kinds, Files, Contents, List, Missing,
        Empty, Garbled, Readable, Tracked, Busy, Holders, Failed,
        GiveUp, End
<1>1. TypeOK'
  OBVIOUS
<1>2. FilesInv'
  BY DEF FilesInv
<1>3. AloneInv'
  BY DEF AloneInv
<1>4. LoadedInv'
  BY DEF LoadedInv
<1>5. StoresAgree'
  BY DEF StoresAgree, FilesInv, AloneInv, LoadedInv
<1> QED
  BY <1>1, <1>2, <1>3, <1>4, <1>5

\* The list is loaded, and edited if there is need to.
LEMMA LoadInv ==
    ASSUME StashInv, NEW p \in Procs, Load(p), ~Failed(p)
    PROVE  StashInv'
<1> USE StashAssumption DEF StashInv, TypeOK, Steps, Kinds, Files, Contents, List, Missing,
        Empty, Garbled, Readable, Tracked, Busy, Holders, Failed,
        Load, Settle, NothingToDo, Edited, Without, End, DriftAfter
<1>1. TypeOK'
  OBVIOUS
<1>2. FilesInv'
  BY DEF FilesInv
<1>3. AloneInv'
  BY DEF AloneInv
<1>4. LoadedInv'
  BY DEF LoadedInv
<1>5. StoresAgree'
  BY DEF StoresAgree, FilesInv, AloneInv, LoadedInv
<1> QED
  BY <1>1, <1>2, <1>3, <1>4, <1>5

\* A save opens the temporary file.
LEMMA OpenInv ==
    ASSUME StashInv, NEW p \in Procs, Open(p), ~Failed(p)
    PROVE  StashInv'
<1> USE StashAssumption DEF StashInv, TypeOK, Steps, Kinds, Files, Contents, List, Missing,
        Empty, Garbled, Readable, Tracked, Busy, Holders, Failed,
        Open
<1>1. TypeOK'
  OBVIOUS
<1>2. FilesInv'
  BY DEF FilesInv
<1>3. AloneInv'
  BY DEF AloneInv
<1>4. LoadedInv'
  BY DEF LoadedInv
<1>5. StoresAgree'
  BY DEF StoresAgree, FilesInv, AloneInv, LoadedInv
<1> QED
  BY <1>1, <1>2, <1>3, <1>4, <1>5

\* Outside a collision a write goes to the temporary file, and nowhere else.
LEMMA WriteTarget ==
    ASSUME StashInv, NEW p \in Procs, pc[p] = "put",
           NEW content \in Contents, FillTarget(p, content)
    PROVE  /\ tmp' \in Contents /\ index' \in Contents
           /\ collided = "never" => tmp' = content /\ index' = index
  BY DEF StashInv, TypeOK, FilesInv, FillTarget

\* A save writes the temporary file, or a part of it.
LEMMA PutInv ==
    ASSUME StashInv, NEW p \in Procs, Put(p)
    PROVE  StashInv'
<1> USE StashAssumption DEF StashInv, TypeOK, Steps, Kinds, Files, Readable, Tracked, Busy,
        Holders
<1>1. PICK content \in Contents :
        /\ pc[p] = "put" /\ UNCHANGED <<keys, collided>>
        /\ FillTarget(p, content)
        /\ \/ /\ collided = "never" => content = List(list[p])
              /\ pc' = [pc EXCEPT ![p] = "rename"] /\ file' = [file EXCEPT ![p] = "none"]
              /\ UNCHANGED <<kind, on, list, stale, contested, drift>>
           \/ GiveUp(p)
  <2>1. Target(p) \in Contents /\ List(list[p]) \in Contents /\ Garbled \in Contents
    BY DEF Target, Contents, List, Empty, Put
  <2>2. collided = "never" /\ pc[p] = "put" => Target(p) = Empty
    BY DEF Target, FilesInv
  <2> QED
    BY <2>1, <2>2 DEF Put, Overlaid, AfterFailedWrite
<1>2. /\ tmp' \in Contents /\ index' \in Contents
      /\ collided = "never" => tmp' = content /\ index' = index
  BY <1>1, WriteTarget
<1>3. TypeOK'
  BY <1>1, <1>2 DEF GiveUp, End
<1>4. FilesInv'
  BY <1>1, <1>2 DEF FilesInv, GiveUp, End
<1>5. AloneInv'
  BY <1>1 DEF AloneInv, GiveUp, End
<1>6. LoadedInv'
  BY <1>1, <1>2 DEF LoadedInv, GiveUp, End
<1>7. StoresAgree'
  BY <1>1, <1>2 DEF StoresAgree, GiveUp, End
<1> QED
  BY <1>3, <1>4, <1>5, <1>6, <1>7

\* The temporary file becomes the index.
LEMMA RenameInv ==
    ASSUME StashInv, NEW p \in Procs, Rename(p), ~Failed(p)
    PROVE  StashInv'
<1> USE StashAssumption DEF StashInv, TypeOK, Steps, Kinds, Files, Contents, List, Missing,
        Empty, Garbled, Readable, Tracked, Busy, Holders, Failed,
        Rename, Moved, End, DriftAfter
<1>1. TypeOK'
  OBVIOUS
<1>2. FilesInv'
  BY DEF FilesInv
<1>3. AloneInv'
  BY DEF AloneInv
<1>4. LoadedInv'
  BY DEF LoadedInv
<1>5. StoresAgree'
  BY DEF StoresAgree, FilesInv, AloneInv, LoadedInv
<1> QED
  BY <1>1, <1>2, <1>3, <1>4, <1>5

\* The keychain changes behind the server's back.
LEMMA OutOfBandInv ==
    ASSUME StashInv, NEW n \in Names, DevSet(n) \/ DevDelete(n)
    PROVE  StashInv'
<1> USE StashAssumption DEF StashInv, TypeOK, Steps, Kinds, Files, Contents, List, Missing,
        Empty, Garbled, Readable, Tracked, Busy, Holders, DevSet,
        DevDelete, OutOfBand
<1>1. TypeOK'
  OBVIOUS
<1>2. FilesInv'
  BY DEF FilesInv
<1>3. AloneInv'
  BY DEF AloneInv
<1>4. LoadedInv'
  BY DEF LoadedInv
<1>5. StoresAgree'
  BY DEF StoresAgree, FilesInv, AloneInv, LoadedInv
<1> QED
  BY <1>1, <1>2, <1>3, <1>4, <1>5

\* The index is deleted.
LEMMA RemoveIndexInv ==
    ASSUME StashInv, RemoveIndex
    PROVE  StashInv'
<1> USE StashAssumption DEF StashInv, TypeOK, Steps, Kinds, Files, Contents, List, Missing,
        Empty, Garbled, Readable, Tracked, Busy, Holders, RemoveIndex,
        Unlinked
<1>1. TypeOK'
  OBVIOUS
<1>2. FilesInv'
  BY DEF FilesInv
<1>3. AloneInv'
  BY DEF AloneInv
<1>4. LoadedInv'
  BY DEF LoadedInv
<1>5. StoresAgree'
  BY DEF StoresAgree, FilesInv, AloneInv, LoadedInv
<1> QED
  BY <1>1, <1>2, <1>3, <1>4, <1>5

\* At the start nobody is at work, and the stores agree.
LEMMA InitInv == Init => StashInv
  BY StashAssumption
  DEF Init, StashInv, TypeOK, FilesInv, AloneInv, LoadedInv, StoresAgree, Steps, Kinds,
      Files, Contents, List, Missing, Readable, Tracked, Busy, Holders

\* Every step of the handlers, and what happens around them, keeps the invariant.
LEMMA NextInv == StashInv /\ [Next]_vars => StashInv'
<1> SUFFICES ASSUME StashInv, [Next]_vars
             PROVE  StashInv'
  OBVIOUS
<1>1. ASSUME NEW p \in Procs, NEW n \in Names, SaveStash(p, n) \/ DeleteStash(p, n)
      PROVE  StashInv'
  BY <1>1, BeginInv
<1>2. ASSUME NEW p \in Procs, Load(p) \/ Open(p) \/ Rename(p)
      PROVE  StashInv'
  <2>1. CASE Failed(p)
    BY <1>2, <2>1, GiveUpInv DEF Load, Open, Rename, Busy
  <2>2. CASE ~Failed(p)
    BY <1>2, <2>2, LoadInv, OpenInv, RenameInv
  <2> QED
    BY <2>1, <2>2
<1>3. ASSUME NEW p \in Procs, Put(p)
      PROVE  StashInv'
  BY <1>3, PutInv
<1>4. ASSUME NEW p \in Procs, Crash(p)
      PROVE  StashInv'
  BY <1>4, GiveUpInv DEF Crash, Failed
<1>5. ASSUME NEW n \in Names, DevSet(n) \/ DevDelete(n)
      PROVE  StashInv'
  BY <1>5, OutOfBandInv
<1>6. CASE RemoveIndex
  BY <1>6, RemoveIndexInv
<1>7. CASE UNCHANGED vars
  BY <1>7
  DEF vars, StashInv, TypeOK, FilesInv, AloneInv, LoadedInv, StoresAgree, Readable,
      Tracked, Busy, Holders
<1> QED
  BY <1>1, <1>2, <1>3, <1>4, <1>5, <1>6, <1>7 DEF Next

\* The invariant holds in every reachable state (server.go:643-721, index.go:98-195).
THEOREM Invariance == Spec => []StashInv
  BY InitInv, NextInv, PTL DEF Spec

\* Types, and a save (delete) never takes a list to the file that lacks (has) its
\* name (index.go:98-137).
THEOREM TypeCorrectness == Spec => []TypeOK
  BY Invariance, PTL DEF StashInv

\* With any number of processes, crashes and failures, the index parses as long as
\* no two saves have used the temporary file at once (index.go:175-195).
THEOREM IndexStaysReadable == Spec => []IndexReadable
<1>1. StashInv => IndexReadable
  BY DEF StashInv, FilesInv, IndexReadable
<1> QED
  BY <1>1, Invariance, PTL

\* Index and keychain agree at every name outside drift, and an undisturbed
\* handler takes its name out of drift (server.go:643-721).
THEOREM StoresStayInAgreement == Spec => []StoresAgree
  BY Invariance, PTL DEF StashInv

(***************************************************************************)
(* One process has no rival for the temporary file.                        *)
(***************************************************************************)
\* Its saves follow one another, so that a reader always finds a whole list, as
\* the comment on save says; sharing the file is what costs it (index.go:175-195).
THEOREM OneProcessSavesAtomically ==
  ASSUME \A p, q \in Procs : p = q
  PROVE  Spec => []SavesAreAtomic
<1> DEFINE Apart == collided = "never"
<1>1. Init => Apart
  BY DEF Init
<1>2. Apart /\ [Next]_vars => Apart'
  BY DEF Next, SaveStash, DeleteStash, Begin, Load, Open, Put, Rename, Crash,
         DevSet, DevDelete, OutOfBand, RemoveIndex, vars
<1>3. Apart /\ IndexReadable => SavesAreAtomic
  BY DEF IndexReadable, SavesAreAtomic
<1> HIDE DEF Apart
<1> QED
  BY <1>1, <1>2, <1>3, IndexStaysReadable, PTL DEF Spec

(***************************************************************************)
(* The refinement of AtomicIndex.                                          *)
(***************************************************************************)
\* What a reader finds, and what will be published, as a step leaves them.
Unseen == UNCHANGED <<Tracked, Readable, Saving, collided>>

LEMMA SavingAt ==
  ASSUME TypeOK, TypeOK', NEW p \in Procs,
         \A q \in Procs \ {p} : pc'[q] = pc[q] /\ list'[q] = list[q]
  PROVE  Saving' = [Saving EXCEPT ![p] = IF p \in Holders' THEN {list'[p]} ELSE {}]
  BY DEF Saving, Holders

\* A handler that gives up has published nothing.
LEMMA GiveUpRefines ==
  ASSUME TypeOK, TypeOK', NEW p \in Procs, GiveUp(p), UNCHANGED index
  PROVE  Atomic!Abandon(p)
<1>1. /\ \A q \in Procs \ {p} : pc'[q] = pc[q] /\ list'[q] = list[q]
      /\ p \notin Holders'
  BY DEF GiveUp, End, TypeOK, Holders
<1>2. Saving' = [Saving EXCEPT ![p] = {}]
  BY <1>1, SavingAt
<1> QED
  BY <1>2 DEF Atomic!Abandon, Tracked

\* Each step is one of the abstract index, or none that a reader could notice.
LEMMA StepRefines ==
  ASSUME StashInv, StashInv', [Next]_vars, collided = "never", collided' = "never"
  PROVE  \/ Unseen
         \/ Atomic!Delete
         \/ \E p \in Procs : Atomic!Prepare(p) \/ Atomic!Publish(p) \/ Atomic!Abandon(p)
<1> USE DEF StashInv
<1>1. ASSUME NEW p \in Procs, NEW n \in Names, SaveStash(p, n) \/ DeleteStash(p, n)
      PROVE  Unseen
  <2>1. /\ UNCHANGED <<index, list, collided>>
        /\ \A q \in Procs \ {p} : pc'[q] = pc[q]
        /\ p \notin Holders /\ p \notin Holders'
    BY <1>1 DEF SaveStash, DeleteStash, Begin, Busy, Holders, TypeOK
  <2>2. Saving' = Saving
    BY <2>1 DEF Saving, Holders
  <2> QED
    BY <2>1, <2>2 DEF Unseen, Tracked, Readable
<1>2. ASSUME NEW p \in Procs, GiveUp(p), UNCHANGED index
      PROVE  Atomic!Abandon(p)
  BY <1>2, GiveUpRefines
<1>3. ASSUME NEW p \in Procs, Load(p), ~GiveUp(p)
      PROVE  Unseen \/ Atomic!Prepare(p)
  <2>1. CASE Settle(p)
    <3>1. UNCHANGED <<index, collided>> /\ p \notin Holders /\ p \notin Holders'
      BY <1>3, <2>1 DEF Load, Settle, End, Holders, TypeOK
    <3>2. \A q \in Procs \ {p} : pc'[q] = pc[q] /\ list'[q] = list[q]
      BY <2>1 DEF Settle, End, TypeOK
    <3>3. Saving' = Saving
      BY <3>1, <3>2 DEF Saving, Holders
    <3> QED
      BY <3>1, <3>3 DEF Unseen, Tracked, Readable
  <2>2. CASE /\ pc' = [pc EXCEPT ![p] = "open"] /\ list' = [list EXCEPT ![p] = Edited(p)]
             /\ ~NothingToDo(p)
    <3>1. index' = index /\ p \notin Holders /\ p \in Holders' /\ list'[p] = Edited(p)
      BY <1>3, <2>2 DEF Load, Holders, TypeOK
    <3>2. Saving[p] = {} /\ Saving' = [Saving EXCEPT ![p] = {Edited(p)}]
      BY <2>2, <3>1, SavingAt DEF Saving, TypeOK
    <3>3. on[p] \in Names
      BY DEF TypeOK
    <3>4. Edited(p) \in Atomic!Edits(Tracked)
      BY <2>2, <3>3 DEF Edited, NothingToDo, Without, Atomic!Edits
    <3> QED
      BY <3>1, <3>2, <3>4 DEF Atomic!Prepare, Tracked
  <2> QED
    BY <1>3, <2>1, <2>2 DEF Load
<1>4. ASSUME NEW p \in Procs, Open(p) \/ Put(p), ~GiveUp(p)
      PROVE  Unseen
  <2>1. UNCHANGED index
    BY <1>4 DEF Open, Put, FillTarget, FilesInv, AfterFailedWrite
  <2>2. list' = list /\ \A q \in Procs : q \in Holders <=> q \in Holders'
    BY <1>4 DEF Open, Put, AfterFailedWrite, Holders, TypeOK
  <2>3. Saving' = Saving
    BY <2>2 DEF Saving
  <2> QED
    BY <2>1, <2>3 DEF Unseen, Tracked, Readable
<1>5. ASSUME NEW p \in Procs, Rename(p), index' = tmp, End(p)
      PROVE  Atomic!Publish(p)
  <2>1. index' = List(list[p]) /\ p \in Holders
    BY <1>5 DEF Rename, FilesInv, Holders
  <2>2. /\ \A q \in Procs \ {p} : pc'[q] = pc[q] /\ list'[q] = list[q]
        /\ p \notin Holders'
    BY <1>5 DEF Rename, End, Holders, TypeOK
  <2>3. Saving[p] = {Tracked'} /\ Saving' = [Saving EXCEPT ![p] = {}]
    BY <2>1, <2>2, SavingAt DEF Saving, Tracked, List
  <2> QED
    BY <2>3 DEF Atomic!Publish
<1>6. ASSUME NEW p \in Procs, GiveUp(p),
             Load(p) \/ Open(p) \/ Put(p) \/ Crash(p)
      PROVE  UNCHANGED index
  BY <1>6 DEF Load, Open, Put, Crash, FillTarget, FilesInv, GiveUp, End, TypeOK
<1>7. ASSUME NEW n \in Names, DevSet(n) \/ DevDelete(n)
      PROVE  Unseen
  BY <1>7 DEF DevSet, DevDelete, OutOfBand, Unseen, Tracked, Readable, Saving, Holders
<1>8. ASSUME RemoveIndex
      PROVE  Atomic!Delete
  BY <1>8 DEF RemoveIndex, Atomic!Delete, Tracked, Missing, Saving, Holders
<1>9. CASE UNCHANGED vars
  BY <1>9 DEF vars, Unseen, Tracked, Readable, Saving, Holders
<1>10. ASSUME NEW p \in Procs, Load(p) \/ Open(p) \/ Put(p) \/ Rename(p) \/ Crash(p)
       PROVE  Unseen \/ Atomic!Prepare(p) \/ Atomic!Publish(p) \/ Atomic!Abandon(p)
  <2>1. /\ Crash(p) => GiveUp(p)
        /\ Rename(p) => (GiveUp(p) /\ UNCHANGED index) \/ (End(p) /\ index' = tmp)
    BY DEF Crash, Rename
  <2> QED
    BY <1>2, <1>3, <1>4, <1>5, <1>6, <1>10, <2>1
<1> QED
  BY <1>1, <1>7, <1>8, <1>9, <1>10 DEF Next

\* Until two saves meet in the temporary file, the stash index is an atomic one:
\* every reader finds a whole list, which some process made of an earlier one by
\* adding or removing a name, and no failure or crash shows in between
\* (index.go:98-195).
THEOREM AtomicImplementation == Spec => ImplementsAtomicIndex
<1>1. Init => Atomic!AtomicInit
  <2>1. Init => Tracked \in SUBSET Names /\ Readable = TRUE
    BY DEF Init, Tracked, Readable, List, Missing
  <2>2. Init => Saving = [p \in Procs |-> {}]
    BY DEF Init, Saving, Holders
  <2> QED
    BY <2>1, <2>2 DEF Init, Atomic!AtomicInit
<1>2. StashInv /\ StashInv' /\ [Next]_vars => [Atomic!AtomicNext]_(Atomic!atomicVars)
  <2> SUFFICES ASSUME StashInv, StashInv', [Next]_vars
               PROVE  [Atomic!AtomicNext]_(Atomic!atomicVars)
    OBVIOUS
  <2>1. CASE collided' # "never"
    BY <2>1 DEF Atomic!AtomicNext
  <2>2. CASE collided' = "never"
    <3>1. collided = "never"
      BY <2>2 DEF Next, SaveStash, DeleteStash, Begin, Load, Open, Put, Rename, Crash,
                  DevSet, DevDelete, OutOfBand, RemoveIndex, vars
    <3>2. Readable'
      BY <2>2 DEF StashInv, FilesInv
    <3> QED
      BY <2>2, <3>1, <3>2, StepRefines DEF Unseen, Atomic!AtomicNext, Atomic!atomicVars
  <2> QED
    BY <2>1, <2>2
<1> QED
  BY <1>1, <1>2, Invariance, PTL DEF Spec, ImplementsAtomicIndex, Atomic!AtomicSpec
=============================================================================
