------------------------------- MODULE FileMove -------------------------------
(***************************************************************************)
(* Rename and copy of files, beside the operations of FileStore.  Both     *)
(* lock the source, then the destination, and have the agents move or copy *)
(* each chunk within its container.                                        *)
(*                                                                         *)
(* of is the metadata of the source, wf that of the destination.  A rename *)
(* onto an existing file calls deleteFile for it first, with its own lock, *)
(* metadata and unlock; df is that call's copy of the metadata.            *)
(***************************************************************************)
EXTENDS FileStore

CONSTANT MoveOps    \* which of "rename" and "copy" are requested

ASSUME MoveAssumption == MoveOps \subseteq {"rename", "copy"}

VARIABLES
    dst,    \* the destination of the thread's rename or copy
    df      \* the file that the rename deletes

mvars == <<fileLock, meta, stubs, repairQ, store, pc, file, of, wf, todo, got, batch, dst, df>>

MInit ==
    /\ Init
    /\ dst = [t \in Threads |-> Nil]
    /\ df = [t \in Threads |-> NoFile]

MReturn(t) ==
    /\ Return(t)
    /\ dst' = [dst EXCEPT ![t] = Nil]
    /\ df' = [df EXCEPT ![t] = NoFile]

\* The chunks of m that their containers can move or copy.
Movable(f, m) == {i \in Stored(m) : store[KeyOf(f, m, i)] # Nil}

\* fullFileModify, at the containers: the chunks in done of file f get the name
\* of file g, those in del are deleted under that name.  A move takes the
\* chunks away from f.
Modified(f, m, g, ver, done, del, isCopy) ==
    [x \in Keys |->
        LET i == x[4] IN
        CASE i \in del /\ x = <<m.ids[i], g, ver, i>> -> Nil
          [] i \in done \ del /\ x = <<m.ids[i], g, ver, i>> -> store[KeyOf(f, m, i)]
          [] ~isCopy /\ i \in done /\ x = KeyOf(f, m, i) -> Nil
          [] OTHER -> store[x]]

-----------------------------------------------------------------------------
(* Locking of source and destination.                                      *)

\* renameFile: markFileAsRepaired before the source is locked.
RenameStart(t, s, d) ==
    /\ Begin(t, s, "mLock")
    /\ dst' = [dst EXCEPT ![t] = d]
    /\ MarkFileAsRepaired(s, -1)
    /\ UNCHANGED <<fileLock, meta, stubs, store, of, wf, todo, got, batch, df>>

CopyStart(t, s, d) ==
    /\ Begin(t, s, "cLock")
    /\ dst' = [dst EXCEPT ![t] = d]
    /\ UNCHANGED <<redis, store, of, wf, todo, got, batch, df>>

\* lockFileAndGetMeta of the source; a source that stays locked ends the operation.
SrcLock(t) ==
    /\ pc[t] \in {"mLock", "cLock"}
    /\ \/ /\ LockFile(file[t])
          /\ Goto(t, IF pc[t] = "mLock" THEN "mGet" ELSE "cGet")
          /\ UNCHANGED <<file, of, wf, todo, got, dst, df>>
       \/ /\ file[t] \in fileLock /\ MReturn(t)
          /\ UNCHANGED fileLock
    /\ UNCHANGED <<meta, stubs, repairQ, store, batch>>

SrcGetMeta(t) ==
    /\ pc[t] \in {"mGet", "cGet"}
    /\ \E m \in {meta[file[t]], NoFile} :
          /\ GetMeta(file[t], m)
          /\ of' = [of EXCEPT ![t] = m]
          /\ Goto(t, IF ~Exists(m) THEN "unlock" ELSE IF pc[t] = "mGet" THEN "mDst" ELSE "cLockDst")
    /\ UNCHANGED <<redis, store, file, wf, todo, got, batch, dst, df>>

\* Mutant: the destination is waited for while the source is locked.
DstLockWait(t) ==
    /\ pc[t] \in {"nLock", "mLockDst", "cLockDst"}
    /\ \/ /\ LockFile(dst[t])
          /\ Goto(t, CASE pc[t] = "nLock" -> "nGet" [] pc[t] = "mLockDst" -> "mMove" [] OTHER -> "cCopy")
       \/ dst[t] \in fileLock /\ UNCHANGED <<fileLock, pc>>
    /\ UNCHANGED <<meta, stubs, repairQ, store, file, of, wf, todo, got, batch, dst, df>>

\* The destination is locked, or, when it stays locked, the source unlocked.
DstLock(t) ==
    /\ pc[t] \in {"nLock", "mLockDst", "cLockDst"}
    /\ \/ /\ LockFile(dst[t])
          /\ Goto(t, CASE pc[t] = "nLock" -> "nGet" [] pc[t] = "mLockDst" -> "mMove" [] OTHER -> "cCopy")
       \/ /\ dst[t] \in fileLock
          /\ Goto(t, "unlock")
          /\ UNCHANGED fileLock
    /\ UNCHANGED <<meta, stubs, repairQ, store, file, of, wf, todo, got, batch, dst, df>>

UnlockSrc(t) ==
    /\ pc[t] = "mUnlock"
    /\ fileLock' = fileLock \ {file[t]}
    /\ Goto(t, "mUnlockDst")
    /\ UNCHANGED <<meta, stubs, repairQ, store, file, of, wf, todo, got, batch, dst, df>>

UnlockDst(t) ==
    /\ pc[t] = "mUnlockDst"
    /\ fileLock' = fileLock \ {dst[t]}
    /\ MReturn(t)
    /\ UNCHANGED <<meta, stubs, repairQ, store, batch>>

-----------------------------------------------------------------------------
(* The deletion of an existing destination before a rename.                *)

\* Mutant: a file with the new name is not deleted.
RenameKeepDst(t) ==
    /\ pc[t] = "mDst"
    /\ Goto(t, "mLockDst")
    /\ UNCHANGED <<redis, store, file, of, wf, todo, got, batch, dst, df>>

RenameGetDst(t) ==
    /\ pc[t] = "mDst"
    /\ \E m \in {meta[dst[t]], NoFile} :
          /\ GetMeta(dst[t], m)
          /\ wf' = [wf EXCEPT ![t] = m]
          /\ Goto(t, IF Exists(m) THEN "nLock" ELSE "mLockDst")
    /\ UNCHANGED <<redis, store, file, of, todo, got, batch, dst, df>>

\* The deletion asks for the version found before.
NestedGetMeta(t) ==
    /\ pc[t] = "nGet"
    /\ \E m \in {meta[dst[t]], NoFile} :
          /\ GetMeta(dst[t], m)
          /\ IF Exists(m) /\ m.ver = wf[t].ver
             THEN df' = [df EXCEPT ![t] = m] /\ Goto(t, "nMeta")
             ELSE Goto(t, "nFail") /\ UNCHANGED df
    /\ UNCHANGED <<redis, store, file, of, wf, todo, got, batch, dst>>

NestedDeleteMeta(t) ==
    /\ pc[t] = "nMeta"
    /\ \E okay \in BOOLEAN :
          /\ RemoveMeta(dst[t], okay)
          /\ IF okay THEN MarkFileAsRepaired(dst[t], df[t].ver) ELSE UNCHANGED repairQ
          /\ Goto(t, IF ~okay THEN "nFail" ELSE IF df[t].data # Empty THEN "nDel" ELSE "nUnlock")
    /\ UNCHANGED <<fileLock, store, file, of, wf, todo, got, batch, dst, df>>

NestedDeleteChunks(t) ==
    /\ pc[t] = "nDel"
    /\ \E alive \in Alive(df[t]) : \E done \in SUBSET alive : \E ack \in Acked(df[t].ids, alive, done) :
          /\ store' = Updated({}, Nil, KeysOf(dst[t], df[t], done))
          /\ IF ack = alive THEN MarkFileAsRepaired(dst[t], df[t].ver) ELSE UNCHANGED repairQ
          /\ Goto(t, IF ack = alive THEN "nUnlock" ELSE "nFail")
    /\ UNCHANGED <<fileLock, meta, stubs, file, of, wf, todo, got, batch, dst, df>>

\* Mutant: after a failed deletion the source stays locked.
NestedUnlockOnly(t) ==
    /\ pc[t] \in {"nUnlock", "nFail"}
    /\ fileLock' = fileLock \ {dst[t]}
    /\ IF pc[t] = "nFail"
       THEN MReturn(t)
       ELSE /\ Goto(t, "mLockDst")
            /\ df' = [df EXCEPT ![t] = NoFile]
            /\ UNCHANGED <<file, of, wf, todo, got, dst>>
    /\ UNCHANGED <<meta, stubs, repairQ, store, batch>>

NestedUnlock(t) ==
    /\ pc[t] \in {"nUnlock", "nFail"}
    /\ fileLock' = fileLock \ {dst[t]}
    /\ df' = [df EXCEPT ![t] = NoFile]
    /\ Goto(t, IF pc[t] = "nUnlock" THEN "mLockDst" ELSE "unlock")
    /\ UNCHANGED <<meta, stubs, repairQ, store, file, of, wf, todo, got, batch, dst>>

-----------------------------------------------------------------------------
(* Proxy::renameFile                                                       *)

\* moveFile.  The destination takes over the version of the source.  With
\* fewer than K chunks moved the operation fails; the moved chunks are deleted
\* only if the destination had chunks before, since numChunks is set on success.
RenameMove(t) ==
    /\ pc[t] = "mMove"
    /\ \E done \in SUBSET Movable(file[t], of[t]) :
       \E ack \in Acked(of[t].ids, Movable(file[t], of[t]), done) :
          IF ack \in KSets \/ of[t].data = Empty
          THEN /\ store' = Modified(file[t], of[t], dst[t], of[t].ver, done, {}, FALSE)
               /\ wf' = [wf EXCEPT ![t] = [of[t] EXCEPT
                            !.ids = [i \in Idx |-> IF i \in ack THEN @[i] ELSE INVALID_CONTAINER_ID]]]
               /\ Goto(t, "mMeta")
          ELSE /\ \E del \in SUBSET ack :
                     /\ IF wf[t].data = Empty THEN del = {} ELSE Acked(of[t].ids, ack, del) # {}
                     /\ store' = Modified(file[t], of[t], dst[t], of[t].ver, done, del, FALSE)
               /\ Goto(t, "mUnlock")
               /\ UNCHANGED wf
    /\ UNCHANGED <<redis, file, of, todo, got, batch, dst, df>>

\* Mutant: the metadata of the source stays.
RenameMetaCopied(t) ==
    /\ pc[t] = "mMeta"
    /\ meta' = [meta EXCEPT ![dst[t]] = meta[file[t]]]
    /\ repairQ' = repairQ \cup {<<dst[t], -1>>}
    /\ Goto(t, "mUnlock")
    /\ UNCHANGED <<fileLock, stubs, store, file, of, wf, todo, got, batch, dst, df>>

\* renameMeta: RENAMENX moves the hash of the source, container ids included,
\* to the new name unless that is taken, be it by a hash of timestamps only.
\* After a success the destination is marked as to be repaired.
RenameMeta(t) ==
    /\ pc[t] = "mMeta"
    /\ \E okay \in BOOLEAN, moved \in BOOLEAN :
          /\ moved => ~Exists(meta[dst[t]]) /\ dst[t] \notin stubs
          /\ okay => moved
          /\ moved /\ ~okay => "putMeta" \in Faults
          /\ ~moved => "putMeta" \in Faults \/ Exists(meta[dst[t]]) \/ dst[t] \in stubs
          /\ meta' = IF moved THEN [meta EXCEPT ![dst[t]] = meta[file[t]], ![file[t]] = NoFile] ELSE meta
          /\ IF okay THEN MarkFileAsNeedsRepair(dst[t], -1) ELSE UNCHANGED repairQ
          /\ Goto(t, IF okay THEN "mUnlock" ELSE "mRevert")
    /\ UNCHANGED <<fileLock, stubs, store, file, of, wf, todo, got, batch, dst, df>>

\* moveFile from the destination back to the source, for the chunks that were
\* reported as moved.  If fewer than K come back, those are deleted.
RenameRevert(t) ==
    /\ pc[t] = "mRevert"
    /\ \E done \in SUBSET Movable(dst[t], wf[t]) :
       \E ack \in Acked(wf[t].ids, Movable(dst[t], wf[t]), done) :
       \E del \in SUBSET ack :
          /\ IF ack \in KSets THEN del = {} ELSE Acked(wf[t].ids, ack, del) # {}
          /\ store' = Modified(dst[t], wf[t], file[t], wf[t].ver, done, del, FALSE)
    /\ Goto(t, "mUnlock")
    /\ UNCHANGED <<redis, file, of, wf, todo, got, batch, dst, df>>

-----------------------------------------------------------------------------
(* Proxy::copyFile                                                         *)

\* The chunks of the copy have version 0.  Nothing is removed on failure, as
\* numChunks of the destination is set on success only.
CopyChunks(t) ==
    /\ pc[t] = "cCopy"
    /\ \E done \in SUBSET Movable(file[t], of[t]) :
       \E ack \in Acked(of[t].ids, Movable(file[t], of[t]), done) :
          /\ store' = Modified(file[t], of[t], dst[t], 0, done, {}, TRUE)
          /\ IF ack \in KSets \/ of[t].data = Empty
             THEN /\ wf' = [wf EXCEPT ![t] = [of[t] EXCEPT !.ver = 0,
                               !.ids = [i \in Idx |-> IF i \in ack THEN @[i] ELSE INVALID_CONTAINER_ID]]]
                  /\ Goto(t, "cMeta")
             ELSE Goto(t, "mUnlock") /\ UNCHANGED wf
    /\ UNCHANGED <<redis, file, of, todo, got, batch, dst, df>>

CopyPutMeta(t) ==
    /\ pc[t] = "cMeta"
    /\ \E okay \in BOOLEAN : PutMeta(dst[t], wf[t], okay)
    /\ Goto(t, "mUnlock")
    /\ UNCHANGED <<fileLock, repairQ, store, file, of, wf, todo, got, batch, dst, df>>

-----------------------------------------------------------------------------
MStart(t) ==
    /\ t \in Workers
    /\ \E s, d \in Names :
          \/ "rename" \in MoveOps /\ RenameStart(t, s, d)
          \/ "copy" \in MoveOps /\ CopyStart(t, s, d)

MStep(t) ==
    \/ SrcLock(t) \/ SrcGetMeta(t) \/ DstLock(t) \/ UnlockSrc(t) \/ UnlockDst(t)
    \/ RenameGetDst(t) \/ NestedGetMeta(t) \/ NestedDeleteMeta(t) \/ NestedDeleteChunks(t)
    \/ NestedUnlock(t) \/ RenameMove(t) \/ RenameMeta(t) \/ RenameRevert(t)
    \/ CopyChunks(t) \/ CopyPutMeta(t)

\* The steps of FileStore; on return the destination is forgotten.
StoreStep(t) ==
    /\ Start(t) \/ Step(t)
    /\ dst' = [dst EXCEPT ![t] = IF pc'[t] = "idle" THEN Nil ELSE @]
    /\ UNCHANGED df

MCrash ==
    /\ Crash
    /\ dst' = [t \in Threads |-> Nil]
    /\ df' = [t \in Threads |-> NoFile]

MNext ==
    \/ \E t \in Threads : MStart(t) \/ MStep(t) \/ StoreStep(t)
    \/ \E f \in Names : ScanMark(f) /\ UNCHANGED <<dst, df>>
    \/ MCrash

MSpec == MInit /\ [][MNext]_mvars

\* The operating system schedules every thread, and every Redis and agent
\* request returns or times out: an operation under way goes on.
MFairSpec == MSpec /\ \A t \in Threads : WF_mvars(MStep(t)) /\ WF_mvars(Step(t) /\ StoreStep(t))

-----------------------------------------------------------------------------
(* Properties.                                                             *)

LockedSrc == Locked \cup {"mGet", "cGet", "mDst", "nLock", "nGet", "nMeta", "nDel", "nUnlock", "nFail",
                          "mLockDst", "mMove", "mMeta", "mRevert", "cLockDst", "cCopy", "cMeta", "mUnlock"}
LockedDst == {"nGet", "nMeta", "nDel", "nUnlock", "nFail", "mMove", "mMeta", "mRevert",
              "cCopy", "cMeta", "mUnlock", "mUnlockDst"}
MHolds(t, f) ==
    \/ file[t] = f /\ pc[t] \in LockedSrc
    \/ dst[t] = f /\ pc[t] \in LockedDst

\* The two locks of a rename or copy and the one of its nested delete exclude
\* every other operation, and every way out of them releases what was locked:
\* the locked files are those that some thread holds, each by one thread only.
LocksHeld ==
    /\ fileLock = {f \in Names : \E t \in Threads : MHolds(t, f)}
    /\ \A t, u \in Threads : \A f \in Names : MHolds(t, f) /\ MHolds(u, f) => t = u

\* The chunks of the metadata of f that hold what f stands for.
Good(f) == {i \in Stored(meta[f]) : store[KeyOf(f, meta[f], i)] = meta[f].data}

\* The metadata of a file that no operation has locked names chunks of that
\* file only: the move of a rename is seen as a whole, or not at all.
SettledDurable ==
    \A f \in Names \ fileLock : Exists(meta[f]) /\ meta[f].data # Empty =>
        Good(f) = Stored(meta[f]) /\ Good(f) \in KSets

\* "When Nexoedge stores each chunk in an independent storage container, data in
\* Nexoedge remains available even when up to n-k chunks fail."  A file that no
\* operation has locked keeps enough of its chunks to be decoded.
SettledAvailable ==
    \A f \in Names \ fileLock : Exists(meta[f]) /\ meta[f].data # Empty => Good(f) \in KSets

\* A proxy that died has left f locked.
LeftLocked(f) == f \in fileLock /\ \A t \in Threads : ~MHolds(t, f)

\* Chunks are, or were when the proxy died, moved away from f or copied over its own.
Moving(f) ==
    \/ LeftLocked(f)
    \/ \E t \in Threads :
        \/ pc[t] \in {"mMeta", "mRevert"} /\ file[t] = f
        \/ pc[t] = "cMeta" /\ dst[t] = f
Mover == INSTANCE MoveService WITH
    content <- [f \in Names |-> IF Moving(f) /\ Exists(meta[f]) THEN meta[f].data ELSE Content(f)]

\* With one request at a time, renameFile and copyFile are atomic between writes,
\* deletes and repairs, also when the proxy dies: the payload of the source goes
\* to the destination in one step.  While chunks are moved away from a file or
\* copied over its own, and on a file that a dead proxy left locked, the file is
\* taken for what its metadata stands for.
MoveServiceSpec == Mover!MSpec

=============================================================================
