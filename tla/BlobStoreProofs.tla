---------------------------- MODULE BlobStoreProofs ----------------------------
(***************************************************************************)
(* The blob store is an atomic one, for every set of keys and jobs, every  *)
(* size of a blob and any number of power losses.                          *)
(***************************************************************************)
EXTENDS BlobStore, TLAPS

USE BlobAssumption DEF BlobAssumption

(***************************************************************************)
(* The invariant.  That what is under a key is whole is not inductive: a   *)
(* power loss shortens files to what was synced and brings back earlier    *)
(* ones.  So whatever may ever be under a key has been synced.             *)
(***************************************************************************)

Placeable(k) == (onDisk[k] \cup {final[k]}) \ {Missing}

SyncedFirst ==
    /\ \A p \in Puts : synced[p] <= written[p]
    /\ \A p \in Puts :
         pc[p] \in {"rename", "placed", "done"} => synced[p] = Size
    /\ \A k \in Keys : \A p \in Placeable(k) : synced[p] = Size

PlacedFirst ==
    losses = 0 =>
        \A p \in Puts : pc[p] \in {"placed", "done"} => final[KeyOf[p]] # Missing

IInv == TypeOK /\ SyncedFirst /\ PlacedFirst /\ RefsResolve /\ TempsAreExplained

\* The steps keep the types.
LEMMA StepKeepsTypes ==
    ASSUME TypeOK, [Next]_vars
    PROVE  TypeOK'
<1> USE DEF TypeOK, Steps
<1>1. CASE UNCHANGED vars
  BY <1>1 DEF vars
<1>2. ASSUME NEW p \in Puts, JobStep(p) PROVE TypeOK'
  <2>1. CASE Begin(p)
    BY <2>1 DEF Begin, Goto
  <2>2. CASE WriteChunk(p)
    <3>1. written[p] + 1 \in 0 .. Size
      BY <2>2 DEF WriteChunk
    <3> QED
      BY <2>2, <3>1 DEF WriteChunk
  <2>3. CASE Sync(p)
    BY <2>3 DEF Sync, Goto
  <2>4. CASE Replace(p)
    <3>1. onDisk[KeyOf[p]] \cup {p} \in SUBSET (Puts \cup {Missing})
      OBVIOUS
    <3> QED
      BY <2>4, <3>1 DEF Replace, Goto
  <2>5. CASE CommitRef(p)
    BY <2>5 DEF CommitRef, Goto
  <2>6. CASE Fail(p)
    BY <2>6 DEF Fail, Goto
  <2>7. CASE Kill(p)
    BY <2>7 DEF Kill, Goto
  <2> QED
    BY <1>2, <2>1, <2>2, <2>3, <2>4, <2>5, <2>6, <2>7 DEF JobStep
<1>3. ASSUME NEW k \in Keys, DirectoryWritten(k) PROVE TypeOK'
  BY <1>3 DEF DirectoryWritten
<1>4. CASE PowerLoss
  <2>1. /\ pc' \in [Puts -> Steps]
        /\ written' \in [Puts -> 0 .. Size]
        /\ synced' \in [Puts -> 0 .. Size]
    BY <1>4 DEF PowerLoss
  <2>2. /\ final' \in [Keys -> Puts \cup {Missing}]
        /\ onDisk' \in [Keys -> SUBSET (Puts \cup {Missing})]
    BY <1>4 DEF PowerLoss
  <2>3. temp' \subseteq Puts /\ refs' \subseteq Keys /\ losses' \in 0 .. MaxLosses
    BY <1>4 DEF PowerLoss
  <2> QED
    BY <2>1, <2>2, <2>3
<1> QED
  BY <1>1, <1>2, <1>3, <1>4 DEF Next

\* Nothing gets under a key, and nothing is committed, before it is synced; and
\* what was synced stays.
LEMMA StepKeepsSyncedFirst ==
    ASSUME TypeOK, SyncedFirst, [Next]_vars
    PROVE  SyncedFirst'
<1> USE DEF TypeOK, SyncedFirst, Placeable
<1>1. CASE UNCHANGED vars
  BY <1>1 DEF vars
<1>2. ASSUME NEW p \in Puts, JobStep(p) PROVE SyncedFirst'
  <2>1. CASE Begin(p)
    BY <2>1 DEF Begin, Goto
  <2>2. CASE WriteChunk(p)
    BY <2>2 DEF WriteChunk
  <2>3. CASE Sync(p)
    BY <2>3 DEF Sync, Goto
  <2>4. CASE Replace(p)
    BY <2>4 DEF Replace, Goto
  <2>5. CASE CommitRef(p)
    BY <2>5 DEF CommitRef, Goto
  <2>6. CASE Fail(p)
    BY <2>6 DEF Fail, Goto
  <2>7. CASE Kill(p)
    BY <2>7 DEF Kill, Goto
  <2> QED
    BY <1>2, <2>1, <2>2, <2>3, <2>4, <2>5, <2>6, <2>7 DEF JobStep
<1>3. ASSUME NEW k \in Keys, DirectoryWritten(k) PROVE SyncedFirst'
  BY <1>3 DEF DirectoryWritten
<1>4. CASE PowerLoss
  <2>1. \A p \in Puts : synced'[p] <= written'[p]
    BY <1>4 DEF PowerLoss
  <2>2. \A p \in Puts :
          pc'[p] \in {"rename", "placed", "done"} => synced'[p] = Size
    BY <1>4 DEF PowerLoss, Running
  <2>3. \A k \in Keys : \A p \in Placeable(k)' : synced'[p] = Size
    BY <1>4 DEF PowerLoss
  <2> QED
    BY <2>1, <2>2, <2>3
<1> QED
  BY <1>1, <1>2, <1>3, <1>4 DEF Next

\* A reference is committed after the blob is in place, where it stays but for
\* power losses.
LEMMA StepKeepsReferences ==
    ASSUME TypeOK, PlacedFirst, RefsResolve, [Next]_vars
    PROVE  PlacedFirst' /\ RefsResolve'
<1> USE DEF TypeOK, PlacedFirst, RefsResolve
<1>1. CASE UNCHANGED vars
  BY <1>1 DEF vars
<1>2. ASSUME NEW p \in Puts, JobStep(p) PROVE PlacedFirst' /\ RefsResolve'
  <2>1. CASE Begin(p)
    BY <2>1 DEF Begin, Goto
  <2>2. CASE WriteChunk(p)
    BY <2>2 DEF WriteChunk
  <2>3. CASE Sync(p)
    BY <2>3 DEF Sync, Goto
  <2>4. CASE Replace(p)
    BY <2>4 DEF Replace, Goto
  <2>5. CASE CommitRef(p)
    BY <2>5 DEF CommitRef, Goto
  <2>6. CASE Fail(p)
    BY <2>6 DEF Fail, Goto
  <2>7. CASE Kill(p)
    BY <2>7 DEF Kill, Goto
  <2> QED
    BY <1>2, <2>1, <2>2, <2>3, <2>4, <2>5, <2>6, <2>7 DEF JobStep
<1>3. ASSUME NEW k \in Keys, DirectoryWritten(k) PROVE PlacedFirst' /\ RefsResolve'
  BY <1>3 DEF DirectoryWritten
<1>4. CASE PowerLoss
  BY <1>4 DEF PowerLoss
<1> QED
  BY <1>1, <1>2, <1>3, <1>4 DEF Next

\* A temporary name goes when its job leaves the writing steps other than by
\* being killed.
LEMMA StepKeepsTemps ==
    ASSUME TypeOK, TempsAreExplained, [Next]_vars
    PROVE  TempsAreExplained'
<1> USE DEF TypeOK, TempsAreExplained
<1>1. CASE UNCHANGED vars
  BY <1>1 DEF vars
<1>2. ASSUME NEW p \in Puts, JobStep(p) PROVE TempsAreExplained'
  <2>1. CASE Begin(p)
    BY <2>1 DEF Begin, Goto
  <2>2. CASE WriteChunk(p)
    BY <2>2 DEF WriteChunk
  <2>3. CASE Sync(p)
    BY <2>3 DEF Sync, Goto
  <2>4. CASE Replace(p)
    BY <2>4 DEF Replace, Goto
  <2>5. CASE CommitRef(p)
    BY <2>5 DEF CommitRef, Goto
  <2>6. CASE Fail(p)
    BY <2>6 DEF Fail, Goto
  <2>7. CASE Kill(p)
    BY <2>7 DEF Kill, Goto
  <2> QED
    BY <1>2, <2>1, <2>2, <2>3, <2>4, <2>5, <2>6, <2>7 DEF JobStep
<1>3. ASSUME NEW k \in Keys, DirectoryWritten(k) PROVE TempsAreExplained'
  BY <1>3 DEF DirectoryWritten
<1>4. CASE PowerLoss
  BY <1>4 DEF PowerLoss
<1> QED
  BY <1>1, <1>2, <1>3, <1>4 DEF Next

\* The invariant holds in every reachable state.
THEOREM BlobInvariant == Spec => []IInv
<1>1. Init => IInv
  BY DEF Init, IInv, TypeOK, Steps, SyncedFirst, Placeable, PlacedFirst,
         RefsResolve, TempsAreExplained
<1>2. IInv /\ [Next]_vars => IInv'
  BY StepKeepsTypes, StepKeepsSyncedFirst, StepKeepsReferences, StepKeepsTemps
     DEF IInv
<1> QED
  BY <1>1, <1>2, PTL DEF Spec

\* Every writer is at a step of FilesystemBlobStore.put, has written and synced a
\* part of its content, and a key names the file of a put or nothing.
THEOREM BlobTypes == Spec => []TypeOK
<1>1. IInv => TypeOK
  BY DEF IInv
<1> QED
  BY <1>1, BlobInvariant, PTL

(***************************************************************************)
(* What follows from it.                                                   *)
(***************************************************************************)

\* What is under a key has been synced, hence written whole.
LEMMA SyncedIsWhole ==
    ASSUME IInv
    PROVE  FilesAreWhole
BY DEF IInv, TypeOK, SyncedFirst, Placeable, FilesAreWhole, Whole

\* Whatever is under a key is whole, wherever writers failed, were killed or
\* lost power.
THEOREM NoTornFiles == Spec => []FilesAreWhole
<1>1. IInv => FilesAreWhole
  BY SyncedIsWhole
<1> QED
  BY <1>1, BlobInvariant, PTL

\* While the machine keeps its power, a committed raw_ref names a blob.
THEOREM ReferencesResolve == Spec => []RefsResolve
<1>1. IInv => RefsResolve
  BY DEF IInv
<1> QED
  BY <1>1, BlobInvariant, PTL

\* While the machine keeps its power, a temporary file nobody writes is of a
\* process that was killed.
THEOREM TempsExplained == Spec => []TempsAreExplained
<1>1. IInv => TempsAreExplained
  BY DEF IInv
<1> QED
  BY <1>1, BlobInvariant, PTL

(***************************************************************************)
(* The refinement.                                                         *)
(***************************************************************************)

value ==
    [k \in Keys |->
        IF final[k] \in Puts /\ ~Whole(final[k]) THEN Torn ELSE final[k]]

\* With no torn file the value of a key is the file under it.
LEMMA ValueIsFinal ==
    ASSUME IInv
    PROVE  value = final
<1>1. \A k \in Keys : ~(final[k] \in Puts /\ ~Whole(final[k]))
  BY SyncedIsWhole DEF FilesAreWhole, IInv, TypeOK
<1> QED
  BY <1>1 DEF value, IInv, TypeOK

\* The steps that change what is under a key are steps of the atomic store: a
\* rename is a put, the write of a directory entry settles its key.
LEMMA StepRefines ==
    ASSUME TypeOK, TypeOK', value = final, value' = final', [Next]_vars
    PROVE  [Atomic!Next]_(Atomic!vars)
<1> DEFINE Same == value' = value /\ onDisk' = onDisk
<1>1. Same => [Atomic!Next]_(Atomic!vars)
  BY DEF Atomic!vars, value
<1>2. final' = final /\ onDisk' = onDisk => Same
  OBVIOUS
<1> HIDE DEF Same
<1>3. CASE UNCHANGED vars
  BY <1>1, <1>2, <1>3 DEF vars
<1>4. ASSUME NEW p \in Puts, JobStep(p) PROVE [Atomic!Next]_(Atomic!vars)
  <2>1. CASE Replace(p)
    <3>1. /\ value' = [value EXCEPT ![KeyOf[p]] = p]
          /\ onDisk' = [onDisk EXCEPT ![KeyOf[p]] = @ \cup {p}]
      BY <2>1 DEF Replace
    <3>2. Atomic!Put(p)
      BY <3>1 DEF Atomic!Put, value
    <3> QED
      BY <3>2 DEF Atomic!Next
  <2>2. CASE ~Replace(p)
    <3>1. final' = final /\ onDisk' = onDisk
      BY <1>4, <2>2
         DEF JobStep, Begin, WriteChunk, Sync, CommitRef, Fail, Kill
    <3> QED
      BY <1>1, <1>2, <3>1
  <2> QED
    BY <2>1, <2>2
<1>5. ASSUME NEW k \in Keys, DirectoryWritten(k) PROVE [Atomic!Next]_(Atomic!vars)
  <2>1. onDisk' = [onDisk EXCEPT ![k] = {value[k]}] /\ value' = value
    BY <1>5 DEF DirectoryWritten
  <2>2. Atomic!Settle(k)
    BY <2>1 DEF Atomic!Settle, value
  <2> QED
    BY <2>2 DEF Atomic!Next
<1>6. CASE PowerLoss
  <2>1. /\ \A k \in Keys : value'[k] \in onDisk[k]
        /\ onDisk' = [k \in Keys |-> {value'[k]}]
        /\ value' \in [Keys -> Puts \cup {Missing}]
    BY <1>6 DEF PowerLoss
  <2>2. Atomic!PowerLoss /\ value' \in [Keys -> Puts \cup {Missing}]
    BY <2>1 DEF Atomic!PowerLoss, value
  <2> QED
    BY <2>2 DEF Atomic!Next, value
<1> QED
  BY <1>3, <1>4, <1>5, <1>6 DEF Next

\* Writing, syncing and renaming implement a store with atomic puts.
THEOREM PutsAreAtomic == Spec => ImplementsAtomicBlobs
<1>1. Init => Atomic!Init
  BY DEF Init, Atomic!Init
<1>2. IInv => TypeOK /\ value = final
  BY ValueIsFinal DEF IInv
<1>3. /\ TypeOK /\ value = final
      /\ (TypeOK /\ value = final)'
      /\ [Next]_vars
      => [Atomic!Next]_(Atomic!vars)
  BY StepRefines
<1> QED
  BY <1>1, <1>2, <1>3, BlobInvariant, PTL DEF Spec, ImplementsAtomicBlobs, Atomic!Spec

===============================================================================
