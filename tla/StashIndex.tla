----------------------------- MODULE StashIndex -----------------------------
(***************************************************************************)
(* The stash: secrets in the OS keychain, and the list of their names in   *)
(* index.json (internal/index), which the keychain cannot give.            *)
(* save_stash and delete_stash of each cred-mcp process change first the   *)
(* one, then the other.  The mutex of Index keeps the handlers of one      *)
(* process apart; the keychain, the file and its one temporary name are    *)
(* shared by all processes.                                                *)
(*                                                                         *)
(* A handler is cut at each system call that other processes can notice:   *)
(* the keychain, the read of the file, the open, the write and the rename  *)
(* of the temporary file.  An answer that leaves before the keychain is    *)
(* changed changes nothing and is no action.  Files are POSIX files: an    *)
(* open one can be renamed and replaced.                                   *)
(***************************************************************************)
CONSTANTS
    Procs, Names,
    MayFail    \* whether reads and writes of files may fail

ASSUME StashAssumption == MayFail \in BOOLEAN

VARIABLES
    keys,       \* the names in the keychain
    index,      \* index.json
    tmp,        \* index.json.tmp
    pc, kind, on,   \* the handler of each process: how far it is, what it does,
                    \* to which name
    list,       \* what it has loaded, from "open" on what it will save
    file,       \* the file its descriptor belongs to
    stale,      \* history: the processes that loaded a list since replaced
    contested,  \* history: the processes that met another one at their name
    collided,   \* history: whether two saves ever used the temporary file at once
    drift       \* history: the names at which the two stores may disagree

vars == <<keys, index, tmp, pc, kind, on, list, file, stale, contested, collided, drift>>

\* What a file may hold: a list of names, nothing (it was truncated), or the bytes
\* of two writes or of half a one.  The last two are not JSON.
List(names) == [kind |-> "list", names |-> names]
Missing == [kind |-> "missing", names |-> {}]
Empty == [kind |-> "empty", names |-> {}]
Garbled == [kind |-> "garbled", names |-> {}]
Contents == {List(names) : names \in SUBSET Names} \cup {Missing, Empty, Garbled}

Steps == {"idle", "load", "open", "put", "rename"}
Kinds == {"none", "save", "delete"}

\* The file a save has open: the one named tmp now, the one named index now, or
\* one whose name was taken.
Files == {"none", "tmp", "index", "orphan"}

Busy(p) == pc[p] # "idle"

Readable == index.kind \in {"list", "missing"}

\* What list_stash lists; a file it cannot parse is an error.
Tracked == index.names

Init ==
    /\ keys \in SUBSET Names
    /\ index = IF keys = {} THEN Missing ELSE List(keys)
    /\ tmp = Missing
    /\ pc = [p \in Procs |-> "idle"] /\ kind = [p \in Procs |-> "none"]
    /\ on \in [Procs -> Names]
    /\ list = [p \in Procs |-> {}] /\ file = [p \in Procs |-> "none"]
    /\ stale = {} /\ contested = {} /\ collided = "never" /\ drift = {}

(***************************************************************************)
(* What excuses a disagreement, recorded when it happens.                  *)
(***************************************************************************)

\* Others that are at work on a name.
Rivals(p, n) == {q \in Procs \ {p} : Busy(q) /\ on[q] = n}

\* p and its rivals disturb one another.
Contest(p, n) ==
    contested' = IF Rivals(p, n) = {} THEN contested
                 ELSE contested \cup Rivals(p, n) \cup {p}

\* Those who have loaded the index, and not yet replaced it.
Holders == {q \in Procs : pc[q] \in {"open", "put", "rename"}}

\* After a handler whose list is now the index (or was the same already): they
\* agree at its name again, if nobody came in between.
DriftAfter(p) == IF p \in stale THEN Names
                 ELSE IF p \in contested THEN drift \cup {on[p]}
                 ELSE drift \ {on[p]}

End(p) ==
    /\ pc' = [pc EXCEPT ![p] = "idle"] /\ kind' = [kind EXCEPT ![p] = "none"]
    /\ list' = [list EXCEPT ![p] = {}] /\ on' = on
    /\ contested' = contested \ {p}

\* The end of a handler that finds its name in the index.
Settle(p) ==
    /\ End(p) /\ UNCHANGED <<file, stale>>
    /\ drift' = DriftAfter(p)

\* The end of a handler that changed the keychain and not the index: an error of
\* the index is logged, the answer is "stored" or "deleted"; or a crash.
GiveUp(p) ==
    /\ End(p) /\ file' = [file EXCEPT ![p] = "none"]
    /\ stale' = stale \ {p}
    /\ drift' = drift \cup {on[p]}

(***************************************************************************)
(* save_stash and delete_stash.                                            *)
(***************************************************************************)
Begin(p, does, n) ==
    /\ ~Busy(p)
    /\ pc' = [pc EXCEPT ![p] = "load"] /\ kind' = [kind EXCEPT ![p] = does]
    /\ on' = [on EXCEPT ![p] = n]
    /\ Contest(p, n)
    /\ UNCHANGED <<index, tmp, list, file, stale, collided, drift>>

SaveStash(p, n) == Begin(p, "save", n) /\ keys' = keys \cup {n}

\* A name that the keychain does not have is swept from the index all the same.
DeleteStash(p, n) == Begin(p, "delete", n) /\ keys' = keys \ {n}

\* Mutant of Without: Remove keeps what it should leave out.
WithoutNothing(names, n) == names

Without(names, n) == names \ {n}

\* Mutant of Edited: Add saves the list without the new entry.
EditedEntryLost(p) == IF kind[p] = "save" THEN Tracked ELSE Without(Tracked, on[p])

\* The list that Add or Remove makes of the index.
Edited(p) == IF kind[p] = "save" THEN Tracked \cup {on[p]} ELSE Without(Tracked, on[p])

\* Add has nothing to do for a name that is tracked.
NothingToDo(p) == kind[p] = "save" /\ on[p] \in Tracked

\* load
Load(p) ==
    /\ pc[p] = "load"
    /\ UNCHANGED <<keys, index, tmp, collided>>
    /\ \/ Readable /\ NothingToDo(p) /\ Settle(p)
       \/ /\ Readable /\ ~NothingToDo(p)
          /\ pc' = [pc EXCEPT ![p] = "open"]
          /\ list' = [list EXCEPT ![p] = Edited(p)]
          /\ UNCHANGED <<kind, on, file, stale, contested, drift>>
       \/ (~Readable \/ MayFail) /\ GiveUp(p)

\* os.WriteFile opens the temporary file, which truncates one that is there.
Open(p) ==
    /\ pc[p] = "open"
    /\ UNCHANGED <<keys, index>>
    /\ \/ /\ tmp' = Empty
          /\ pc' = [pc EXCEPT ![p] = "put"] /\ file' = [file EXCEPT ![p] = "tmp"]
          /\ collided' = IF \E q \in Procs \ {p} : pc[q] \in {"put", "rename"}
                         THEN "once" ELSE collided
          /\ UNCHANGED <<kind, on, list, stale, contested, drift>>
       \/ /\ MayFail
          /\ GiveUp(p)
          /\ UNCHANGED <<tmp, collided>>

\* The file p's descriptor belongs to, by whichever name it has by now.
Target(p) == IF file[p] = "tmp" THEN tmp ELSE IF file[p] = "index" THEN index ELSE Empty

\* Mutant of FillTarget: save writes the index in place.
FillIndex(p, content) == index' = content /\ tmp' = tmp

FillTarget(p, content) ==
    /\ tmp' = IF file[p] = "tmp" THEN content ELSE tmp
    /\ index' = IF file[p] = "index" THEN content ELSE index

\* A write at the start of a file that was not truncated for it leaves the rest
\* of what is there; lengths are abstracted.
Overlaid(old, new) == IF old = Empty THEN {new} ELSE {new, Garbled}

\* Mutant of AfterFailedWrite: the error of os.WriteFile is not looked at.
AfterFailedWriteGoOn(p) ==
    /\ pc' = [pc EXCEPT ![p] = "rename"] /\ file' = [file EXCEPT ![p] = "none"]
    /\ UNCHANGED <<kind, on, list, stale, contested, drift>>

AfterFailedWrite(p) == GiveUp(p)

\* os.WriteFile writes and closes; a full disk takes a part.
Put(p) ==
    /\ pc[p] = "put"
    /\ UNCHANGED <<keys, collided>>
    /\ \/ /\ \E content \in Overlaid(Target(p), List(list[p])) : FillTarget(p, content)
          /\ pc' = [pc EXCEPT ![p] = "rename"] /\ file' = [file EXCEPT ![p] = "none"]
          /\ UNCHANGED <<kind, on, list, stale, contested, drift>>
       \/ /\ MayFail
          /\ \E content \in {Target(p), Garbled} : FillTarget(p, content)
          /\ AfterFailedWrite(p)

\* The files of the descriptors after tmp took the name of index.
Moved(f) == IF f = "tmp" THEN "index" ELSE IF f = "index" THEN "orphan" ELSE f

\* os.Rename moves whatever has the temporary name by now.
Rename(p) ==
    /\ pc[p] = "rename"
    /\ UNCHANGED <<keys, collided>>
    /\ \/ /\ tmp # Missing
          /\ index' = tmp /\ tmp' = Missing
          /\ End(p) /\ file' = [q \in Procs |-> Moved(file[q])]
          /\ stale' = (stale \cup Holders) \ {p}
          /\ drift' = DriftAfter(p)
       \/ /\ tmp = Missing \/ MayFail
          /\ GiveUp(p)
          /\ UNCHANGED <<index, tmp>>

(***************************************************************************)
(* Around the handlers.                                                    *)
(***************************************************************************)

\* The process ends in a handler; a half-written temporary file stays.
Crash(p) ==
    /\ Busy(p)
    /\ GiveUp(p)
    /\ UNCHANGED <<keys, index, tmp, collided>>

\* `cred-mcp dev keychain set` and `del`, and the desktop's own tools.
OutOfBand(n, changed) ==
    /\ keys' = changed
    /\ contested' = contested \cup {q \in Procs : Busy(q) /\ on[q] = n}
    /\ drift' = drift \cup {n}
    /\ UNCHANGED <<index, tmp, pc, kind, on, list, file, stale, collided>>

DevSet(n) == OutOfBand(n, keys \cup {n})
DevDelete(n) == OutOfBand(n, keys \ {n})

Unlinked(f) == IF f = "index" THEN "orphan" ELSE f

\* The user deletes index.json, as the parse error advises.
RemoveIndex ==
    /\ index # Missing
    /\ index' = Missing
    /\ file' = [q \in Procs |-> Unlinked(file[q])]
    /\ stale' = stale \cup Holders
    /\ drift' = Names
    /\ UNCHANGED <<keys, tmp, pc, kind, on, list, contested, collided>>

Next ==
    \/ \E p \in Procs :
         \/ \E n \in Names : SaveStash(p, n) \/ DeleteStash(p, n)
         \/ Load(p) \/ Open(p) \/ Put(p) \/ Rename(p) \/ Crash(p)
    \/ \E n \in Names : DevSet(n) \/ DevDelete(n)
    \/ RemoveIndex

Spec == Init /\ [][Next]_vars

(***************************************************************************)
(* Properties.                                                             *)
(***************************************************************************)

\* Types, and what a save has in hand at each of its steps (index.go:98-195).
TypeOK ==
    /\ keys \subseteq Names
    /\ index \in Contents /\ tmp \in Contents
    /\ pc \in [Procs -> Steps] /\ kind \in [Procs -> Kinds] /\ on \in [Procs -> Names]
    /\ list \in [Procs -> SUBSET Names] /\ file \in [Procs -> Files]
    /\ \A p \in Procs :
         /\ kind[p] = "none" <=> ~Busy(p)
         /\ file[p] = "none" <=> pc[p] # "put"
         /\ p \in Holders => (on[p] \in list[p] <=> kind[p] = "save")
    /\ stale \subseteq Procs /\ contested \subseteq Procs
    /\ collided \in {"never", "once"}
    /\ drift \subseteq Names

\* A crash or a failure at any step of a save leaves an index that still parses,
\* as long as no two saves have used the temporary file at once (index.go:175).
IndexReadable == collided = "never" => Readable

\* Index and keychain agree at every name nobody is at work on, except after a
\* crash or an error in the middle, a change behind cred-mcp's back, or a lost
\* race; and one undisturbed save_stash or delete_stash of that name repairs it,
\* whatever happened to it before (server.go:666-669, 703-706).
StoresAgree ==
    collided = "never" =>
        \A n \in Names \ drift :
            (\A p \in Procs : Busy(p) => on[p] # n) => (n \in keys <=> n \in Tracked)

\* What the comment on save says without excuse: the file is written atomically,
\* so that a reader always finds a whole one (index.go:175-176).
SavesAreAtomic == Readable

\* The mapping to the abstract index: what a process publishes is the list it has
\* made, from its load to its rename.
Saving == [p \in Procs |-> IF p \in Holders THEN {list[p]} ELSE {}]

Atomic == INSTANCE AtomicIndex WITH
    names <- Tracked, whole <- Readable, saving <- Saving, apart <- collided = "never"

\* Until two saves meet, the five steps of a save are one to a reader, whatever
\* fails or crashes in between (index.go:175-176).
ImplementsAtomicIndex == Atomic!AtomicSpec
=============================================================================
