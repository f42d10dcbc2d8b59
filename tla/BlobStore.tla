------------------------------- MODULE BlobStore -------------------------------
(***************************************************************************)
(* Media in the filesystem blob store.  A job writes the bytes to a        *)
(* temporary file beside the final one, syncs it, renames it into place    *)
(* and then commits the reference to its row.  Jobs fail and are killed at *)
(* any point, an item's job may run again beside one presumed dead, and    *)
(* the machine may lose power: what was not synced is then lost, also the  *)
(* rename, since the directory is not.                                     *)
(***************************************************************************)
EXTENDS Naturals

CONSTANTS
    Keys,        \* one per item
    Puts,        \* jobs that fetch media, each with a file of its own
    KeyOf,       \* [Puts -> Keys]
    Missing,
    Size,        \* chunks of a blob
    MaxLosses    \* bound: power losses

ASSUME BlobAssumption ==
    /\ KeyOf \in [Puts -> Keys]
    /\ Missing \notin Puts
    /\ Size \in Nat \ {0}
    /\ MaxLosses \in Nat

VARIABLES
    pc,        \* [Puts -> Steps]: how far the job has come
    written,   \* [Puts -> 0 .. Size]: chunks of its file
    synced,    \* [Puts -> 0 .. Size]: chunks that survive a power loss
    temp,      \* the files still under a temporary name
    final,     \* [Keys -> Puts \cup {Missing}]: the file under a key
    onDisk,    \* [Keys -> SUBSET (Puts \cup {Missing})]: what a power loss may
               \* leave under a key
    refs,      \* keys some committed items.raw_ref names
    losses

vars == <<pc, written, synced, temp, final, onDisk, refs, losses>>

Steps == {"ready", "write", "rename", "placed", "done", "failed", "dead"}

Running(p) == pc[p] \in {"write", "rename", "placed"}

Goto(p, step) == pc' = [pc EXCEPT ![p] = step]

(***************************************************************************)
(* A job: _fetch_media, fetch_media, put.                                  *)
(***************************************************************************)

\* Mutation of Begin: the file is written under its final name.
BeginInPlace(p) ==
    /\ pc[p] = "ready"
    /\ KeyOf[p] \notin refs
    /\ final' = [final EXCEPT ![KeyOf[p]] = p]
    /\ onDisk' = [onDisk EXCEPT ![KeyOf[p]] = @ \cup {p}]
    /\ Goto(p, "write")
    /\ UNCHANGED <<written, synced, temp, refs, losses>>

\* The row has no raw_ref yet and the whole media has been downloaded; mkstemp
\* in the directory of the key.
Begin(p) ==
    /\ pc[p] = "ready"
    /\ KeyOf[p] \notin refs
    /\ temp' = temp \cup {p}
    /\ Goto(p, "write")
    /\ UNCHANGED <<written, synced, final, onDisk, refs, losses>>

\* Mutation of WriteChunk: a chunk is written again.
WriteChunkAgain(p) ==
    /\ pc[p] = "write"
    /\ written' = [written EXCEPT ![p] = @ + 1]
    /\ UNCHANGED <<pc, synced, temp, final, onDisk, refs, losses>>

WriteChunk(p) ==
    /\ pc[p] = "write"
    /\ written[p] < Size
    /\ written' = [written EXCEPT ![p] = @ + 1]
    /\ UNCHANGED <<pc, synced, temp, final, onDisk, refs, losses>>

\* Mutation of Sync: the bytes are flushed, not synced.
FlushOnly(p) ==
    /\ pc[p] = "write"
    /\ written[p] = Size
    /\ Goto(p, "rename")
    /\ UNCHANGED <<written, synced, temp, final, onDisk, refs, losses>>

\* flush, fsync, close.
Sync(p) ==
    /\ pc[p] = "write"
    /\ written[p] = Size
    /\ synced' = [synced EXCEPT ![p] = Size]
    /\ Goto(p, "rename")
    /\ UNCHANGED <<written, temp, final, onDisk, refs, losses>>

\* os.replace: whatever the key had is replaced.
Replace(p) ==
    /\ pc[p] = "rename"
    /\ temp' = temp \ {p}
    /\ final' = [final EXCEPT ![KeyOf[p]] = p]
    /\ onDisk' = [onDisk EXCEPT ![KeyOf[p]] = @ \cup {p}]
    /\ Goto(p, "placed")
    /\ UNCHANGED <<written, synced, refs, losses>>

\* Mutation of CommitRef: committed before the file is in place.
CommitRefEarly(p) ==
    /\ pc[p] \in {"rename", "placed"}
    /\ refs' = refs \cup {KeyOf[p]}
    /\ IF pc[p] = "placed" THEN Goto(p, "done") ELSE UNCHANGED pc
    /\ UNCHANGED <<written, synced, temp, final, onDisk, losses>>

\* set_raw_ref, and the commit of the job.
CommitRef(p) ==
    /\ pc[p] = "placed"
    /\ refs' = refs \cup {KeyOf[p]}
    /\ Goto(p, "done")
    /\ UNCHANGED <<written, synced, temp, final, onDisk, losses>>

\* Mutation of Fail: the temporary file stays.
FailLeavesFile(p) ==
    /\ Running(p)
    /\ Goto(p, "failed")
    /\ UNCHANGED <<written, synced, temp, final, onDisk, refs, losses>>

\* An exception -- a full disk, the job's timeout: put removes the temporary
\* file; once that is in place, the blob is all that is left of the job.
Fail(p) ==
    /\ Running(p)
    /\ temp' = temp \ {p}
    /\ Goto(p, "failed")
    /\ UNCHANGED <<written, synced, final, onDisk, refs, losses>>

\* The process is killed, and nothing of it runs any more.
Kill(p) ==
    /\ Running(p)
    /\ Goto(p, "dead")
    /\ UNCHANGED <<written, synced, temp, final, onDisk, refs, losses>>

(***************************************************************************)
(* The machine.                                                            *)
(***************************************************************************)

\* The directory entry of a key gets written in its own time.
DirectoryWritten(k) ==
    /\ onDisk' = [onDisk EXCEPT ![k] = {final[k]}]
    /\ UNCHANGED <<pc, written, synced, temp, final, refs, losses>>

\* Files keep what was synced and maybe more, a key may keep a file an earlier
\* rename put there, and temporary names may survive or come back.  Postgres
\* has synced its commits.
PowerLoss ==
    /\ losses < MaxLosses
    /\ losses' = losses + 1
    /\ pc' = [p \in Puts |-> IF Running(p) THEN "dead" ELSE pc[p]]
    /\ written' \in [Puts -> 0 .. Size]
    /\ \A p \in Puts : written'[p] \in synced[p] .. written[p]
    /\ final' \in [Keys -> Puts \cup {Missing}]
    /\ \A k \in Keys : final'[k] \in onDisk[k]
    /\ onDisk' = [k \in Keys |-> {final'[k]}]
    /\ temp' \in SUBSET {p \in Puts : p \in temp \/ p \in onDisk[KeyOf[p]]}
    /\ UNCHANGED <<synced, refs>>

Init ==
    /\ pc = [p \in Puts |-> "ready"]
    /\ written = [p \in Puts |-> 0]
    /\ synced = [p \in Puts |-> 0]
    /\ temp = {}
    /\ final = [k \in Keys |-> Missing]
    /\ onDisk = [k \in Keys |-> {Missing}]
    /\ refs = {}
    /\ losses = 0

JobStep(p) ==
    \/ Begin(p)
    \/ WriteChunk(p)
    \/ Sync(p)
    \/ Replace(p)
    \/ CommitRef(p)
    \/ Fail(p)
    \/ Kill(p)

Next ==
    \/ \E p \in Puts : JobStep(p)
    \/ \E k \in Keys : DirectoryWritten(k)
    \/ PowerLoss

Spec == Init /\ [][Next]_vars

TypeOK ==
    /\ pc \in [Puts -> Steps]
    /\ written \in [Puts -> 0 .. Size]
    /\ synced \in [Puts -> 0 .. Size]
    /\ temp \subseteq Puts
    /\ final \in [Keys -> Puts \cup {Missing}]
    /\ onDisk \in [Keys -> SUBSET (Puts \cup {Missing})]
    /\ refs \subseteq Keys
    /\ losses \in 0 .. MaxLosses

(***************************************************************************)
(* Properties.                                                             *)
(***************************************************************************)

Whole(p) == written[p] = Size

\* "A torn file left at the final path would be handed to an extractor as
\* though it were complete": what is under a key is whole, whichever writers
\* failed, died or lost power half way.
FilesAreWhole == \A k \in Keys : final[k] # Missing => Whole(final[k])

\* A committed raw_ref names a blob; only a power loss soon after may undo the
\* rename under it.
RefsResolve == losses = 0 => \A k \in refs : final[k] # Missing

\* Writers that come to an end leave no temporary file: one that nobody is
\* writing is of a process that was killed, or of before a power loss.
TempsAreExplained ==
    losses = 0 => \A p \in temp : pc[p] \in {"write", "rename", "dead"}

\* Writing, syncing and renaming implement a store with atomic puts; a torn
\* file would be no value of it.
Torn == [torn |-> TRUE]

Atomic == INSTANCE AtomicBlobs WITH
    blob <- [k \in Keys |->
        IF final[k] \in Puts /\ ~Whole(final[k]) THEN Torn ELSE final[k]],
    fallback <- onDisk

ImplementsAtomicBlobs == Atomic!Spec

===============================================================================
