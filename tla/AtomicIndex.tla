---------------------------- MODULE AtomicIndex ----------------------------
(***************************************************************************)
(* What the index file promises its readers, without temporary files,      *)
(* descriptors or keychain: it is always a whole list, and it goes in one  *)
(* step from a list to the next.  A list that is published was made of one *)
(* that was in the file, by adding or removing one name; a save may come   *)
(* to nothing, and the user may delete the file.  All this until two saves *)
(* meet: from then on nothing is promised.                                 *)
(***************************************************************************)
CONSTANTS Procs, Names

VARIABLES
    names,    \* the names a reader of the file finds
    whole,    \* whether it can be read
    saving,   \* what each process is about to publish: no list, or one
    apart     \* whether saves have kept apart so far

atomicVars == <<names, whole, saving, apart>>

AtomicInit ==
    /\ names \in SUBSET Names /\ whole = TRUE /\ apart = TRUE
    /\ saving = [p \in Procs |-> {}]

\* A list with one more name, or with one name left out (if it was there).
Edits(list) == {list \cup {n} : n \in Names \ list} \cup {list \ {n} : n \in Names}

\* A process reads the file and makes a new list of it.
Prepare(p) ==
    /\ saving[p] = {}
    /\ \E list \in Edits(names) : saving' = [saving EXCEPT ![p] = {list}]
    /\ names' = names

\* The whole list is there at once.
Publish(p) ==
    /\ saving[p] = {names'}
    /\ saving' = [saving EXCEPT ![p] = {}]

\* An error or a crash: the file is as it was.
Abandon(p) ==
    /\ saving' = [saving EXCEPT ![p] = {}]
    /\ names' = names

Delete == names' = {} /\ saving' = saving

AtomicNext ==
    \/ /\ whole' /\ apart /\ apart'
       /\ Delete \/ \E p \in Procs : Prepare(p) \/ Publish(p) \/ Abandon(p)
    \/ ~apart'

AtomicSpec == AtomicInit /\ [][AtomicNext]_atomicVars
=============================================================================
