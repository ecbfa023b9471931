--------------------------- MODULE FileMoveProofs ---------------------------
(***************************************************************************)
(* Proofs about FileMove, for any number of files, threads, containers and *)
(* versions and any coding parameters: types and locks.                    *)
(***************************************************************************)
EXTENDS FileMove, FileStoreProofs

MoveLabels == {"mLock", "cLock", "mGet", "cGet", "mDst", "nLock", "nGet", "nMeta", "nDel", "nUnlock",
               "nFail", "mLockDst", "mMove", "mMeta", "mRevert", "cLockDst", "cCopy", "cMeta",
               "mUnlock", "mUnlockDst"}

\* Where a rename or copy has the metadata of its source.
SrcKnown == {"mDst", "nLock", "nGet", "nMeta", "nDel", "nUnlock", "nFail", "mLockDst", "mMove",
             "mMeta", "mRevert", "cLockDst", "cCopy", "cMeta"}

\* The types of the variables that locks, metadata and chunks depend on.
MTypeOK ==
    /\ fileLock \subseteq Names /\ stubs \subseteq Names
    /\ meta \in [Names -> Meta \cup {NoFile}]
    /\ repairQ \subseteq Names \X (Versions \cup {-1})
    /\ store \in [Keys -> Data \cup {Garbage, Nil}]
    /\ pc \in [Threads -> Labels \cup MoveLabels]
    /\ file \in [Threads -> Names \cup {Nil}] /\ dst \in [Threads -> Names \cup {Nil}]
    /\ of \in [Threads -> File] /\ wf \in [Threads -> File] /\ df \in [Threads -> File]
    /\ batch \in [Threads -> SUBSET (Names \X (Versions \cup {-1}))]

\* What a thread has at hand at each place.  That source and destination differ
\* from the lock of the second on is what makes two unlocks right.
MPlaces(t) ==
    /\ pc[t] \notin {"idle", "pLock"} => file[t] \in Names
    /\ pc[t] \in MoveLabels => dst[t] \in Names
    /\ pc[t] \in LockedDst => file[t] # dst[t]
    /\ pc[t] = "wGet" => meta[file[t]].ver < MaxVersion
    /\ pc[t] \in {"wPut", "wMeta"} => wf[t].ver \in Versions
    /\ pc[t] = "wPut" => wf[t].data \in Data
    /\ pc[t] \in {"pFix", "pMeta"} => of[t] \in Meta /\ wf[t] \in Meta
    /\ pc[t] \in SrcKnown => of[t] \in Meta
    /\ pc[t] \in {"mMeta", "mRevert", "cMeta"} => wf[t] \in Meta

\* What a thread holds is locked, and no other thread holds it.
MExclusive ==
    \A t \in Threads : \A f \in Names : MHolds(t, f) =>
        f \in fileLock /\ \A u \in Threads \ {t} : ~MHolds(u, f)

MLockInv == MTypeOK /\ MExclusive /\ \A t \in Threads : MPlaces(t)

\* A step of t leaves the other threads as they are, locks what t did not hold
\* only if it was free, and unlocks only what t held, which t then gives up.
MOthers(t) ==
    \A u \in Threads \ {t} :
        /\ pc'[u] = pc[u] /\ file'[u] = file[u] /\ dst'[u] = dst[u]
        /\ of'[u] = of[u] /\ wf'[u] = wf[u] /\ df'[u] = df[u]
LockStep(t) ==
    \A f \in Names :
        /\ MHolds(t, f)' => f \in fileLock' /\ (MHolds(t, f) \/ f \notin fileLock)
        /\ f \in fileLock /\ ~MHolds(t, f) => f \in fileLock'
        /\ f \in fileLock' => MHolds(t, f)' \/ (f \in fileLock /\ ~MHolds(t, f))

\* Metadata is changed under a lock.
MetaFrame(t) == \A g \in Names : ~MHolds(t, g) => meta'[g] = meta[g]

Sound(t) == MTypeOK' /\ MPlaces(t)' /\ MOthers(t) /\ LockStep(t) /\ MetaFrame(t)

\* Such a step keeps what all threads rely on.
LEMMA SoundStep ==
  ASSUME MLockInv, NEW t \in Threads, Sound(t)
  PROVE  MLockInv'
  <1>1. MExclusive'
    <2> SUFFICES ASSUME NEW u \in Threads, NEW f \in Names, MHolds(u, f)'
                 PROVE  f \in fileLock' /\ \A v \in Threads \ {u} : ~MHolds(v, f)'
      BY Zenon DEF MExclusive
    <2>1. \A v \in Threads \ {t} : MHolds(v, f)' <=> MHolds(v, f)
      BY Zenon DEF Sound, MOthers, MHolds
    <2> QED BY <2>1, Zenon DEF MLockInv, MExclusive, Sound, LockStep
  <1>2. ASSUME NEW u \in Threads \ {t} PROVE MPlaces(u)'
    <2>1. MPlaces(u)
      BY Zenon DEF MLockInv
    <2>2. pc[u] = "wGet" => meta'[file[u]] = meta[file[u]]
      <3> SUFFICES ASSUME pc[u] = "wGet" PROVE meta'[file[u]] = meta[file[u]]
        BY Zenon
      <3>1. file[u] \in Names /\ MHolds(u, file[u])
        BY <2>1, Zenon DEF MPlaces, MHolds, LockedSrc, Locked
      <3> QED BY <3>1, Zenon DEF MLockInv, MExclusive, Sound, MetaFrame
    <2> QED BY <2>1, <2>2, ZenonT(30) DEF MPlaces, Sound, MOthers
  <1> QED BY <1>1, <1>2, Zenon DEF MLockInv, Sound

\* A step between two places where the same is locked.
LEMMA SameLocks ==
  ASSUME MTypeOK, MExclusive, NEW t \in Threads, NEW l \in Labels \cup MoveLabels,
         pc' = [pc EXCEPT ![t] = l], UNCHANGED <<fileLock, file, dst>>,
         pc[t] \in LockedSrc <=> l \in LockedSrc,
         pc[t] \in LockedDst <=> l \in LockedDst
  PROVE  LockStep(t)
  <1>1. \A f \in Names : MHolds(t, f)' <=> MHolds(t, f)
    BY Zenon DEF MTypeOK, MHolds
  <1> QED BY <1>1, Zenon DEF LockStep, MExclusive

\* What getMeta returns, what putMeta leaves and what the containers hold after a
\* round of requests, in terms of MTypeOK.
LEMMA MGetMetaType ==
  ASSUME MTypeOK, NEW f \in Names, NEW m \in {meta[f], NoFile}
  PROVE  m \in File /\ (Exists(m) => m \in Meta)
  BY NoFileType, MetaFile, Zenon DEF MTypeOK

\* What putMeta leaves in Redis.
LEMMA MPutMetaType ==
  ASSUME MTypeOK, NEW f \in Names, NEW m \in Meta \cup {NoFile}, NEW okay \in BOOLEAN, PutMeta(f, m, okay)
  PROVE  /\ meta' \in [Names -> Meta \cup {NoFile}] /\ stubs' \subseteq Names
         /\ \A g \in Names \ {f} : meta'[g] = meta[g]
         /\ meta'[f] \in {meta[f], m} /\ (okay => meta'[f] = m)
  BY Zenon DEF MTypeOK, PutMeta

\* What is in the containers after chunks are put and deleted.
LEMMA MUpdatedType ==
  ASSUME MTypeOK, NEW put, NEW del, NEW d \in Data \cup {Garbage, Nil}
  PROVE  Updated(put, d, del) \in [Keys -> Data \cup {Garbage, Nil}]
  BY Zenon DEF Updated, MTypeOK

\* What StoreStep does beside the step of FileStore.
DstKept(t) == dst' = [dst EXCEPT ![t] = IF pc'[t] = "idle" THEN Nil ELSE @] /\ UNCHANGED df

\* The steps of writeFile keep Sound.
LEMMA WriteSound ==
  ASSUME MLockInv, NEW t \in Threads, DstKept(t),
         \/ \E f \in Names, d \in Data \cup {Empty} : WriteLock(t, f, d)
         \/ WriteGetMeta(t) \/ WriteStripes(t) \/ WriteNoSpace(t) \/ WritePutMeta(t) \/ WriteDeleteOld(t)
  PROVE  Sound(t)
  <1>0. MTypeOK /\ MExclusive /\ MPlaces(t) /\ DstKept(t)
    BY Zenon DEF MLockInv
  <1>a. pc'[t] # "idle" => UNCHANGED <<dst, df>>
    BY <1>0, Zenon DEF DstKept, MTypeOK
  <1>b. dst' \in [Threads -> Names \cup {Nil}] /\ df' = df /\ \A u \in Threads \ {t} : dst'[u] = dst[u]
    BY <1>0, Zenon DEF DstKept, MTypeOK
  <1>1. ASSUME NEW f \in Names, NEW d \in Data \cup {Empty}, WriteLock(t, f, d) PROVE Sound(t)
    <2>1. MTypeOK'
      BY <1>0, <1>1, <1>b, NoFileType, FileFields, ZenonT(30) DEF WriteLock, LockFile, Begin, MTypeOK, Labels, Locked
    <2>2. MOthers(t) /\ MetaFrame(t)
      BY <1>0, <1>1, <1>b, Zenon DEF WriteLock, LockFile, Begin, MTypeOK, MOthers, MetaFrame
    <2>3. LockStep(t)
      BY <1>0, <1>1, ZenonT(30) DEF WriteLock, LockFile, Begin, MTypeOK, LockStep, MHolds, MExclusive, LockedSrc, LockedDst, Locked
    <2>4. MPlaces(t)'
      BY <1>0, <1>1, NoFileType, FileFields, SMTT(60) DEF WriteLock, LockFile, Begin, MTypeOK, MPlaces, MoveLabels, LockedDst, SrcKnown
    <2> QED BY <2>1, <2>2, <2>3, <2>4, Zenon DEF Sound
  <1>2. ASSUME WriteGetMeta(t) PROVE Sound(t)
    <2> PICK m \in {meta[file[t]], NoFile} :
             /\ of' = [of EXCEPT ![t] = m]
             /\ wf' = [wf EXCEPT ![t].ver = m.ver + 1]
      BY <1>2, ZenonT(30) DEF WriteGetMeta
    <2>0. file[t] \in Names /\ m \in File /\ m.ver + 1 \in Versions
      <3>1. file[t] \in Names /\ meta[file[t]].ver < MaxVersion
        BY <1>0, <1>2, Zenon DEF WriteGetMeta, MPlaces
      <3>2. m \in File /\ m.ver \in Versions \cup {-1} /\ m.ver < MaxVersion
        BY <1>0, <3>1, MGetMetaType, NoFileType, FileFields, VersionAssumption, SMTT(30)
      <3> QED BY <3>1, <3>2, VersionAssumption, SMTT(30) DEF Versions
    <2>1. wf[t] \in File /\ wf'[t] \in File /\ wf'[t].ver \in Versions /\ wf'[t].data = wf[t].data
      BY <1>0, <2>0, FileFields, SMTT(30) DEF MTypeOK
    <2>l. PICK l \in {"wMeta", "wPut"} : pc' = [pc EXCEPT ![t] = l] /\ pc[t] = "wGet" /\ (l = "wPut" => wf[t].data # Empty)
      BY <1>2, ZenonT(30) DEF WriteGetMeta, Goto
    <2>2. MTypeOK'
      BY <1>0, <1>2, <1>b, <2>0, <2>1, <2>l, Zenon DEF WriteGetMeta, MTypeOK, Labels, Locked, redis
    <2>3. MOthers(t) /\ MetaFrame(t) /\ UNCHANGED <<fileLock, file, dst>>
      BY <1>0, <1>2, <1>a, <2>l, ZenonT(30) DEF WriteGetMeta, MTypeOK, MOthers, MetaFrame, redis
    <2>4. LockStep(t)
      BY <1>0, <2>3, <2>l, SameLocks, ZenonT(30) DEF LockedSrc, LockedDst, Locked, Labels
    <2>5. MPlaces(t)'
      BY <1>0, <2>0, <2>1, <2>3, <2>l, FileFields, SMTT(60) DEF MTypeOK, MPlaces, MoveLabels, LockedDst, SrcKnown
    <2> QED BY <2>2, <2>3, <2>4, <2>5, Zenon DEF Sound
  <1>3. ASSUME WriteStripes(t) PROVE Sound(t)
    <2>1. wf[t] \in File /\ wf[t].data \in Data /\ wf[t].ver \in Versions /\ pc[t] = "wPut"
      BY <1>0, <1>3, Zenon DEF WriteStripes, MTypeOK, MPlaces
    <2>2. PICK numSpare \in K .. N : \E p \in Placements(0 .. numSpare - 1, {}) :
             \E done \in SUBSET DOMAIN p : \E ack \in Acked(p, DOMAIN p, done) : WriteOutcome(t, p, done, ack)
      BY <1>3, Zenon DEF WriteStripes
    <2>3. PICK p, done, ack :
             /\ p \in Placements(0 .. numSpare - 1, {}) /\ ack \in SUBSET (0 .. numSpare - 1)
             /\ WriteOutcome(t, p, done, ack)
      BY <2>2, ZenonT(30) DEF Placements, Acked
    <2> DEFINE q == [i \in Idx |-> IF i \in ack THEN p[i] ELSE INVALID_CONTAINER_ID]
    <2>4. q \in Ids
      BY <2>3, ZenonT(30) DEF Placements, Ids
    <2>5. wf' = wf \/ wf' = [wf EXCEPT ![t] = [wf[t] EXCEPT !.ids = q]]
      BY <2>3, Zenon DEF WriteOutcome
    <2>6. store' \in [Keys -> Data \cup {Garbage, Nil}]
      <3>1. \E put, del : store' = Updated(put, wf[t].data, del)
        BY <2>3, ZenonT(30) DEF WriteOutcome
      <3> QED BY <1>0, <2>1, <3>1, MUpdatedType, SMTT(30)
    <2> HIDE DEF q
    <2>7. wf'[t] \in File /\ wf'[t].ver \in Versions /\ wf' \in [Threads -> File] /\ \A u \in Threads \ {t} : wf'[u] = wf[u]
      <3>1. [wf[t] EXCEPT !.ids = q] \in File /\ [wf[t] EXCEPT !.ids = q].ver = wf[t].ver
        BY <2>1, <2>4, FileFields, Zenon
      <3> QED BY <1>0, <2>1, <2>5, <3>1, ZenonT(30) DEF MTypeOK
    <2>8. PICK l \in {"wMeta", "unlock"} : pc' = [pc EXCEPT ![t] = l]
      BY <2>3, Zenon DEF WriteOutcome, Goto
    <2>9. UNCHANGED <<fileLock, meta, file, dst, of, df>>
      BY <1>0, <1>3, <1>a, <2>8, Zenon DEF WriteStripes, MTypeOK, redis
    <2>10. MTypeOK'
      BY <1>0, <1>3, <2>6, <2>7, <2>8, <2>9, ZenonT(30) DEF WriteStripes, MTypeOK, Labels, Locked, redis
    <2>11. LockStep(t)
      BY <1>0, <2>1, <2>8, <2>9, SameLocks, ZenonT(30) DEF LockedSrc, LockedDst, Locked, Labels
    <2>12. MPlaces(t)' /\ MOthers(t) /\ MetaFrame(t)
      BY <1>0, <2>1, <2>7, <2>8, <2>9, Zenon DEF MTypeOK, MPlaces, MOthers, MetaFrame, MoveLabels, LockedDst, SrcKnown
    <2> QED BY <2>10, <2>11, <2>12, Zenon DEF Sound
  <1>4. ASSUME WriteNoSpace(t) PROVE Sound(t)
    <2>1. pc' = [pc EXCEPT ![t] = "unlock"] /\ pc[t] = "wPut" /\ UNCHANGED <<fileLock, meta, file, dst, of, wf, df>>
      BY <1>0, <1>4, <1>a, Zenon DEF WriteNoSpace, Goto, MTypeOK, redis
    <2>2. MTypeOK'
      BY <1>0, <1>4, <2>1, Zenon DEF WriteNoSpace, MTypeOK, Labels, Locked, redis
    <2>3. LockStep(t)
      BY <1>0, <2>1, SameLocks, ZenonT(30) DEF LockedSrc, LockedDst, Locked, Labels
    <2>4. MPlaces(t)' /\ MOthers(t) /\ MetaFrame(t)
      BY <1>0, <2>1, Zenon DEF MTypeOK, MPlaces, MOthers, MetaFrame, MoveLabels, LockedDst, SrcKnown
    <2> QED BY <2>2, <2>3, <2>4, Zenon DEF Sound
  <1>5. ASSUME WritePutMeta(t) PROVE Sound(t)
    <2>1. file[t] \in Names /\ wf[t] \in Meta /\ pc[t] = "wMeta"
      BY <1>0, <1>5, MetaFile, Zenon DEF WritePutMeta, MTypeOK, MPlaces
    <2>2. PICK okay \in BOOLEAN : PutMeta(file[t], wf[t], okay)
      BY <1>5, Zenon DEF WritePutMeta
    <2>3. /\ meta' \in [Names -> Meta \cup {NoFile}] /\ stubs' \subseteq Names
          /\ \A g \in Names \ {file[t]} : meta'[g] = meta[g]
      BY <1>0, <2>1, <2>2, MPutMetaType
    <2>4. PICK l \in {"wDel", "unlock"} : pc' = [pc EXCEPT ![t] = l]
      BY <1>5, ZenonT(30) DEF WritePutMeta, Goto
    <2>5. UNCHANGED <<fileLock, file, dst, of, wf, df, store>>
      BY <1>0, <1>5, <1>a, <2>4, ZenonT(30) DEF WritePutMeta, MTypeOK
    <2>6. MTypeOK'
      BY <1>0, <1>5, <2>3, <2>4, <2>5, ZenonT(30) DEF WritePutMeta, MTypeOK, Labels, Locked
    <2>7. LockStep(t)
      BY <1>0, <2>1, <2>4, <2>5, SameLocks, ZenonT(30) DEF LockedSrc, LockedDst, Locked, Labels
    <2>8. MPlaces(t)' /\ MOthers(t)
      BY <1>0, <2>1, <2>4, <2>5, Zenon DEF MTypeOK, MPlaces, MOthers, MoveLabels, LockedDst, SrcKnown
    <2>9. MetaFrame(t)
      BY <2>1, <2>3, Zenon DEF MetaFrame, MHolds, LockedSrc, Locked
    <2> QED BY <2>6, <2>7, <2>8, <2>9, Zenon DEF Sound
  <1>6. ASSUME WriteDeleteOld(t) PROVE Sound(t)
    <2>1. pc' = [pc EXCEPT ![t] = "unlock"] /\ pc[t] = "wDel" /\ UNCHANGED <<fileLock, meta, file, dst, of, wf, df>>
      BY <1>0, <1>6, <1>a, ZenonT(30) DEF WriteDeleteOld, Goto, MTypeOK, redis
    <2>2. store' \in [Keys -> Data \cup {Garbage, Nil}]
      BY <1>0, <1>6, MUpdatedType, SMTT(60) DEF WriteDeleteOld
    <2>3. MTypeOK'
      BY <1>0, <1>6, <2>1, <2>2, ZenonT(30) DEF WriteDeleteOld, MTypeOK, Labels, Locked, redis
    <2>4. LockStep(t)
      BY <1>0, <2>1, SameLocks, ZenonT(30) DEF LockedSrc, LockedDst, Locked, Labels
    <2>5. MPlaces(t)' /\ MOthers(t) /\ MetaFrame(t)
      BY <1>0, <2>1, Zenon DEF MTypeOK, MPlaces, MOthers, MetaFrame, MoveLabels, LockedDst, SrcKnown
    <2> QED BY <2>3, <2>4, <2>5, Zenon DEF Sound
  <1> QED BY <1>1, <1>2, <1>3, <1>4, <1>5, <1>6, ZenonT(30)

\* The steps of deleteFile keep Sound.
LEMMA DeleteSound ==
  ASSUME MLockInv, NEW t \in Threads, DstKept(t),
         \/ \E f \in Names : DeleteLock(t, f)
         \/ DeleteGetMeta(t) \/ DeleteMeta(t) \/ DeleteChunks(t) \/ Unlock(t)
  PROVE  Sound(t)
  <1>0. MTypeOK /\ MExclusive /\ MPlaces(t) /\ DstKept(t)
    BY Zenon DEF MLockInv
  <1>a. pc'[t] # "idle" => UNCHANGED <<dst, df>>
    BY <1>0, Zenon DEF DstKept, MTypeOK
  <1>b. dst' \in [Threads -> Names \cup {Nil}] /\ df' = df /\ \A u \in Threads \ {t} : dst'[u] = dst[u]
    BY <1>0, Zenon DEF DstKept, MTypeOK
  <1>1. ASSUME NEW f \in Names, DeleteLock(t, f) PROVE Sound(t)
    <2>1. MTypeOK'
      BY <1>0, <1>1, <1>b, ZenonT(30) DEF DeleteLock, LockFile, Begin, MTypeOK, Labels, Locked
    <2>2. MOthers(t) /\ MetaFrame(t)
      BY <1>0, <1>1, <1>b, Zenon DEF DeleteLock, LockFile, Begin, MTypeOK, MOthers, MetaFrame
    <2>3. LockStep(t)
      BY <1>0, <1>1, ZenonT(30) DEF DeleteLock, LockFile, Begin, MTypeOK, LockStep, MHolds, MExclusive, LockedSrc, LockedDst, Locked
    <2>4. MPlaces(t)'
      BY <1>0, <1>1, SMTT(60) DEF DeleteLock, LockFile, Begin, MTypeOK, MPlaces, MoveLabels, LockedDst, SrcKnown
    <2> QED BY <2>1, <2>2, <2>3, <2>4, Zenon DEF Sound
  <1>2. ASSUME DeleteGetMeta(t) PROVE Sound(t)
    <2>1. PICK m \in {meta[file[t]], NoFile} :
             /\ of' = [of EXCEPT ![t] = m]
             /\ Goto(t, IF Exists(m) THEN "dMeta" ELSE "unlock")
      BY <1>2, ZenonT(30) DEF DeleteGetMeta
    <2>2. PICK l \in {"dMeta", "unlock"} : pc' = [pc EXCEPT ![t] = l] /\ pc[t] = "dGet" /\ file[t] \in Names
      BY <1>0, <1>2, <2>1, ZenonT(30) DEF DeleteGetMeta, Goto, MPlaces
    <2>3. UNCHANGED <<fileLock, meta, file, dst, wf, df>>
      BY <1>0, <1>2, <1>a, <2>2, Zenon DEF DeleteGetMeta, MTypeOK, redis
    <2>4. MTypeOK'
      BY <1>0, <1>2, <2>1, <2>2, <2>3, MGetMetaType, ZenonT(30) DEF DeleteGetMeta, MTypeOK, Labels, Locked, redis
    <2>5. LockStep(t)
      BY <1>0, <2>2, <2>3, SameLocks, ZenonT(30) DEF LockedSrc, LockedDst, Locked, Labels
    <2>6. MPlaces(t)' /\ MOthers(t) /\ MetaFrame(t)
      BY <1>0, <2>1, <2>2, <2>3, Zenon DEF MTypeOK, MPlaces, MOthers, MetaFrame, MoveLabels, LockedDst, SrcKnown
    <2> QED BY <2>4, <2>5, <2>6, Zenon DEF Sound
  <1>3. ASSUME DeleteMeta(t) PROVE Sound(t)
    <2>1. file[t] \in Names /\ of[t].ver \in Versions \cup {-1} /\ pc[t] = "dMeta"
      BY <1>0, <1>3, FileFields, Zenon DEF DeleteMeta, MTypeOK, MPlaces
    <2>2. PICK okay \in BOOLEAN : PutMeta(file[t], NoFile, okay)
      BY <1>3, Zenon DEF DeleteMeta, RemoveMeta
    <2>3. /\ meta' \in [Names -> Meta \cup {NoFile}] /\ stubs' \subseteq Names
          /\ \A g \in Names \ {file[t]} : meta'[g] = meta[g]
      BY <1>0, <2>1, <2>2, MPutMetaType, ZenonT(60)
    <2>4. PICK l \in {"dDel", "unlock"} : pc' = [pc EXCEPT ![t] = l]
      BY <1>3, ZenonT(30) DEF DeleteMeta, Goto
    <2>5. UNCHANGED <<fileLock, file, dst, of, wf, df, store>> /\ repairQ' \subseteq repairQ
      BY <1>0, <1>3, <1>a, <2>4, ZenonT(30) DEF DeleteMeta, MarkFileAsRepaired, MTypeOK
    <2>6. MTypeOK'
      BY <1>0, <1>3, <2>3, <2>4, <2>5, ZenonT(30) DEF DeleteMeta, MTypeOK, Labels, Locked
    <2>7. LockStep(t)
      BY <1>0, <2>1, <2>4, <2>5, SameLocks, ZenonT(30) DEF LockedSrc, LockedDst, Locked, Labels
    <2>8. MPlaces(t)' /\ MOthers(t)
      BY <1>0, <2>1, <2>4, <2>5, Zenon DEF MTypeOK, MPlaces, MOthers, MoveLabels, LockedDst, SrcKnown
    <2>9. MetaFrame(t)
      BY <2>1, <2>3, Zenon DEF MetaFrame, MHolds, LockedSrc, Locked
    <2> QED BY <2>6, <2>7, <2>8, <2>9, Zenon DEF Sound
  <1>4. ASSUME DeleteChunks(t) PROVE Sound(t)
    <2>1. /\ pc' = [pc EXCEPT ![t] = "unlock"] /\ pc[t] = "dDel"
          /\ UNCHANGED <<fileLock, meta, file, dst, of, wf, df>>
      BY <1>0, <1>4, <1>a, ZenonT(30) DEF DeleteChunks, Goto, MTypeOK
    <2>2. store' \in [Keys -> Data \cup {Garbage, Nil}] /\ repairQ' \subseteq repairQ
      <3>1. store' \in [Keys -> Data \cup {Garbage, Nil}]
        BY <1>0, <1>4, MUpdatedType, SMTT(60) DEF DeleteChunks
      <3>2. repairQ' \subseteq repairQ
        BY <1>4, ZenonT(30) DEF DeleteChunks, MarkFileAsRepaired
      <3> QED BY <3>1, <3>2, Zenon
    <2>3. MTypeOK'
      BY <1>0, <1>4, <2>1, <2>2, ZenonT(30) DEF DeleteChunks, MTypeOK, Labels, Locked
    <2>4. LockStep(t)
      BY <1>0, <2>1, SameLocks, ZenonT(30) DEF LockedSrc, LockedDst, Locked, Labels
    <2>5. MPlaces(t)' /\ MOthers(t) /\ MetaFrame(t)
      BY <1>0, <2>1, Zenon DEF MTypeOK, MPlaces, MOthers, MetaFrame, MoveLabels, LockedDst, SrcKnown
    <2> QED BY <2>3, <2>4, <2>5, Zenon DEF Sound
  <1>5. ASSUME Unlock(t) PROVE Sound(t)
    <2>1. MTypeOK'
      BY <1>0, <1>5, <1>b, NoFileType, ZenonT(30) DEF Unlock, Return, MTypeOK, Labels
    <2>2. MOthers(t) /\ MetaFrame(t)
      BY <1>0, <1>5, <1>b, ZenonT(30) DEF Unlock, Return, MTypeOK, MOthers, MetaFrame
    <2>3. LockStep(t)
      BY <1>0, <1>5, Zenon DEF Unlock, Return, MTypeOK, LockStep, MHolds, MExclusive, LockedSrc, LockedDst, Locked
    <2>4. MPlaces(t)'
      BY <1>0, <1>5, ZenonT(30) DEF Unlock, Return, MTypeOK, MPlaces, MoveLabels, LockedDst, SrcKnown
    <2> QED BY <2>1, <2>2, <2>3, <2>4, Zenon DEF Sound
  <1> QED BY <1>1, <1>2, <1>3, <1>4, <1>5, ZenonT(30)

\* The steps of backgroundRepair and repairFile keep Sound.
LEMMA RepairSound ==
  ASSUME MLockInv, NEW t \in Threads, DstKept(t),
         \/ RepairPop(t) \/ RepairLock(t) \/ RepairBusy(t) \/ RepairDone(t) \/ RepairGetMeta(t)
         \/ RepairFix(t) \/ RepairPutMeta(t) \/ RepairUnlock(t)
  PROVE  Sound(t)
  <1>0. MTypeOK /\ MExclusive /\ MPlaces(t) /\ DstKept(t)
    BY Zenon DEF MLockInv
  <1>a. pc'[t] # "idle" => UNCHANGED <<dst, df>>
    BY <1>0, Zenon DEF DstKept, MTypeOK
  <1>b. dst' \in [Threads -> Names \cup {Nil}] /\ df' = df /\ \A u \in Threads \ {t} : dst'[u] = dst[u]
    BY <1>0, Zenon DEF DstKept, MTypeOK
  <1>1. ASSUME RepairPop(t) PROVE Sound(t)
    <2>1. pc' = [pc EXCEPT ![t] = "pLock"] /\ pc[t] = "idle" /\ UNCHANGED <<fileLock, meta, file, dst, of, wf, df>>
      BY <1>0, <1>1, <1>a, ZenonT(30) DEF RepairPop, Goto, MTypeOK
    <2>2. MTypeOK'
      <3>1. PICK b \in SUBSET repairQ : batch' = [batch EXCEPT ![t] = b] /\ repairQ' = repairQ \ b
        BY <1>1, ZenonT(30) DEF RepairPop
      <3> QED BY <1>0, <1>1, <2>1, <3>1, SMTT(60) DEF RepairPop, MTypeOK, Labels
    <2>3. LockStep(t)
      BY <1>0, <2>1, SameLocks, ZenonT(30) DEF LockedSrc, LockedDst, Locked, Labels
    <2>4. MPlaces(t)' /\ MOthers(t) /\ MetaFrame(t)
      BY <1>0, <2>1, Zenon DEF MTypeOK, MPlaces, MOthers, MetaFrame, MoveLabels, LockedDst, SrcKnown
    <2> QED BY <2>2, <2>3, <2>4, Zenon DEF Sound
  <1>2. ASSUME RepairLock(t) PROVE Sound(t)
    <2>1. PICK e \in batch[t] :
             /\ LockFile(e[1])
             /\ file' = [file EXCEPT ![t] = e[1]]
             /\ of' = [of EXCEPT ![t].ver = e[2]]
             /\ batch' = [batch EXCEPT ![t] = @ \ {e}]
      BY <1>2, ZenonT(30) DEF RepairLock
    <2>2. e[1] \in Names /\ e[2] \in Versions \cup {-1}
      BY <1>0, <2>1 DEF MTypeOK
    <2>3. of' \in [Threads -> File]
      BY <1>0, <2>1, <2>2, FileFields, ZenonT(30) DEF MTypeOK
    <2>4. pc' = [pc EXCEPT ![t] = "pGet"] /\ pc[t] = "pLock" /\ UNCHANGED <<meta, dst, wf, df>>
      BY <1>0, <1>2, <1>a, Zenon DEF RepairLock, Goto, MTypeOK
    <2>5. MTypeOK'
      BY <1>0, <1>2, <2>1, <2>2, <2>3, <2>4, ZenonT(30) DEF RepairLock, LockFile, MTypeOK, Labels, Locked
    <2>6. LockStep(t)
      BY <1>0, <2>1, <2>2, <2>4, ZenonT(30) DEF LockFile, MTypeOK, LockStep, MHolds, MExclusive, LockedSrc, LockedDst, Locked
    <2>7. MPlaces(t)' /\ MOthers(t) /\ MetaFrame(t)
      BY <1>0, <2>1, <2>2, <2>4, Zenon DEF MTypeOK, MPlaces, MOthers, MetaFrame, MoveLabels, LockedDst, SrcKnown
    <2> QED BY <2>5, <2>6, <2>7, Zenon DEF Sound
  <1>3. ASSUME RepairBusy(t) \/ RepairDone(t) PROVE Sound(t)
    <2>1. /\ Return(t) /\ pc[t] = "pLock" /\ UNCHANGED <<fileLock, meta, stubs, repairQ, store>>
          /\ batch' \in {batch, [batch EXCEPT ![t] = {}]}
      BY <1>3, ZenonT(30) DEF RepairBusy, RepairDone, redis
    <2>2. MTypeOK'
      BY <1>0, <1>b, <2>1, NoFileType, ZenonT(30) DEF Return, MTypeOK, Labels
    <2>3. MOthers(t) /\ MetaFrame(t)
      BY <1>0, <1>b, <2>1, ZenonT(30) DEF Return, MTypeOK, MOthers, MetaFrame
    <2>4. LockStep(t)
      BY <1>0, <2>1, Zenon DEF Return, MTypeOK, LockStep, MHolds, MExclusive, LockedSrc, LockedDst, Locked
    <2>5. MPlaces(t)'
      BY <1>0, <2>1, ZenonT(30) DEF Return, MTypeOK, MPlaces, MoveLabels, LockedDst, SrcKnown
    <2> QED BY <2>2, <2>3, <2>4, <2>5, Zenon DEF Sound
  <1>4. ASSUME RepairGetMeta(t) PROVE Sound(t)
    <2>1. PICK m \in {meta[file[t]], NoFile} :
             IF Exists(m) /\ of[t].ver \in {-1, m.ver}
             THEN /\ of' = [of EXCEPT ![t] = m]
                  /\ wf' = [wf EXCEPT ![t] = m]
                  /\ Goto(t, IF m.data = Empty THEN "pUnlock" ELSE "pFix")
             ELSE Goto(t, "pFail") /\ UNCHANGED <<of, wf>>
      BY <1>4, ZenonT(30) DEF RepairGetMeta
    <2>2. pc[t] = "pGet" /\ file[t] \in Names /\ m \in File /\ (Exists(m) => m \in Meta)
      BY <1>0, <1>4, <2>1, MGetMetaType, ZenonT(30) DEF RepairGetMeta, MPlaces
    <2>3. PICK l \in {"pUnlock", "pFix", "pFail"} :
             /\ pc' = [pc EXCEPT ![t] = l]
             /\ \/ l # "pFix" /\ of' \in {of, [of EXCEPT ![t] = m]} /\ wf' \in {wf, [wf EXCEPT ![t] = m]}
                \/ m \in Meta /\ of' = [of EXCEPT ![t] = m] /\ wf' = [wf EXCEPT ![t] = m]
      BY <2>1, <2>2, Zenon DEF Goto
    <2>4. UNCHANGED <<fileLock, meta, file, dst, df>>
      BY <1>0, <1>4, <1>a, <2>3, ZenonT(30) DEF RepairGetMeta, MTypeOK, redis
    <2>5. MTypeOK'
      <3>1. of' \in [Threads -> File] /\ wf' \in [Threads -> File]
        BY <1>0, <2>2, <2>3, ZenonT(60) DEF MTypeOK
      <3>2. pc' \in [Threads -> Labels \cup MoveLabels]
        BY <1>0, <2>3, Zenon DEF MTypeOK, Labels, Locked
      <3> QED BY <1>0, <1>4, <2>4, <3>1, <3>2, ZenonT(30) DEF RepairGetMeta, MTypeOK, redis
    <2>6. LockStep(t)
      BY <1>0, <2>2, <2>3, <2>4, SameLocks, ZenonT(30) DEF LockedSrc, LockedDst, Locked, Labels
    <2>7. MPlaces(t)' /\ MOthers(t) /\ MetaFrame(t)
      BY <1>0, <2>2, <2>3, <2>4, ZenonT(30) DEF MTypeOK, MPlaces, MOthers, MetaFrame, MoveLabels, LockedDst, SrcKnown
    <2> QED BY <2>5, <2>6, <2>7, Zenon DEF Sound
  <1>5. ASSUME RepairFix(t) PROVE Sound(t)
    <2>1. file[t] \in Names /\ of[t] \in Meta /\ wf[t] \in Meta /\ pc[t] = "pFix"
      BY <1>0, <1>5, ZenonT(30) DEF RepairFix, MPlaces
    <2>2. PICK alive \in Alive(of[t]) : RepairOutcome(t, alive)
      BY <1>5, Zenon DEF RepairFix
    <2> DEFINE input == KeysOf(file[t], of[t], FirstK(alive))
    <2>3. Decode({store[x] : x \in input}) \in Data \cup {Garbage, Nil}
      <3>1. input \subseteq Keys
        BY <2>1, <2>2, KeyType, ZenonT(30) DEF KeysOf, FirstK, Alive
      <3>2. {store[x] : x \in input} \subseteq Data \cup {Garbage, Nil}
        BY <1>0, <3>1, Zenon DEF MTypeOK
      <3> QED BY <3>2, DecodeType, ZenonT(30)
    <2>4. store' = store \/ \E put : store' = Updated(put, Decode({store[x] : x \in input}), {})
      BY <2>2, ZenonT(30) DEF RepairOutcome
    <2>5. store' \in [Keys -> Data \cup {Garbage, Nil}]
      <3>1. store \in [Keys -> Data \cup {Garbage, Nil}]
        BY <1>0, ZenonT(30) DEF MTypeOK
      <3> DEFINE d == Decode({store[x] : x \in input})
      <3>2. d \in Data \cup {Garbage, Nil}
        BY <2>3, ZenonT(30)
      <3>3. store' = store \/ \E put : store' = Updated(put, d, {})
        BY <2>4, ZenonT(30)
      <3> HIDE DEF d
      <3>4. ASSUME NEW put, store' = Updated(put, d, {}) PROVE store' \in [Keys -> Data \cup {Garbage, Nil}]
        BY <3>2, <3>4, <1>0, MUpdatedType, ZenonT(30)
      <3> QED BY <3>1, <3>3, <3>4, ZenonT(30)
    <2>6. wf' = wf \/ \E q \in Ids : wf' = [wf EXCEPT ![t].ids = q]
      <3>1. CASE wf' # wf
        <4>1. PICK p \in Placements(Idx \ alive, {of[t].ids[i] : i \in alive}) :
                 wf' = [wf EXCEPT ![t].ids = [i \in Idx |-> IF i \in Idx \ alive THEN p[i] ELSE @[i]]]
          BY <2>2, <3>1, ZenonT(30) DEF RepairOutcome
        <4>2. wf[t].ids \in Ids /\ wf[t] \in File
          BY <2>1, FileFields, MetaFile, Zenon
        <4>3. [i \in Idx |-> IF i \in Idx \ alive THEN p[i] ELSE wf[t].ids[i]] \in Ids
          BY <4>1, <4>2, Zenon DEF Placements, Ids
        <4> QED BY <1>0, <4>1, <4>3, ZenonT(30) DEF MTypeOK
      <3> QED BY <3>1, Zenon
    <2>7. wf'[t] \in Meta /\ wf' \in [Threads -> File] /\ \A u \in Threads \ {t} : wf'[u] = wf[u]
      <3>1. ASSUME NEW q \in Ids, wf' = [wf EXCEPT ![t].ids = q]
            PROVE  wf'[t] = [wf[t] EXCEPT !.ids = q] /\ wf' = [wf EXCEPT ![t] = [wf[t] EXCEPT !.ids = q]]
        BY <1>0, <3>1 DEF MTypeOK
      <3>2. \A q \in Ids : [wf[t] EXCEPT !.ids = q] \in Meta
        BY <2>1 DEF Meta
      <3>3. PICK n \in Meta : wf' = wf \/ wf' = [wf EXCEPT ![t] = n]
        BY <2>1, <2>6, <3>1, <3>2, Zenon
      <3>4. n \in File
        BY MetaFile, Zenon
      <3> QED BY <1>0, <2>1, <3>3, <3>4, ZenonT(30) DEF MTypeOK
    <2>8. PICK l \in {"pMeta", "pFail"} : pc' = [pc EXCEPT ![t] = l]
      BY <2>2, ZenonT(30) DEF RepairOutcome, Goto
    <2>9. UNCHANGED <<fileLock, meta, file, dst, of, df>>
      BY <1>0, <1>5, <1>a, <2>8, ZenonT(30) DEF RepairFix, MTypeOK, redis
    <2>10. MTypeOK'
      BY <1>0, <1>5, <2>5, <2>7, <2>8, <2>9, ZenonT(30) DEF RepairFix, MTypeOK, Labels, Locked, redis
    <2>11. LockStep(t)
      BY <1>0, <2>1, <2>8, <2>9, SameLocks, ZenonT(30) DEF LockedSrc, LockedDst, Locked, Labels
    <2>12. MPlaces(t)' /\ MOthers(t) /\ MetaFrame(t)
      BY <1>0, <2>1, <2>7, <2>8, <2>9, Zenon DEF MTypeOK, MPlaces, MOthers, MetaFrame, MoveLabels, LockedDst, SrcKnown
    <2> QED BY <2>10, <2>11, <2>12, Zenon DEF Sound
  <1>6. ASSUME RepairPutMeta(t) PROVE Sound(t)
    <2>1. file[t] \in Names /\ wf[t] \in Meta /\ pc[t] = "pMeta"
      BY <1>0, <1>6, Zenon DEF RepairPutMeta, MTypeOK, MPlaces
    <2>2. PICK okay \in BOOLEAN : PutMeta(file[t], wf[t], okay)
      BY <1>6, Zenon DEF RepairPutMeta
    <2>3. /\ meta' \in [Names -> Meta \cup {NoFile}] /\ stubs' \subseteq Names
          /\ \A g \in Names \ {file[t]} : meta'[g] = meta[g]
      BY <1>0, <2>1, <2>2, MPutMetaType, SMTT(30)
    <2>4. PICK l \in {"pUnlock", "pFail"} : pc' = [pc EXCEPT ![t] = l]
      BY <1>6, ZenonT(30) DEF RepairPutMeta, Goto
    <2>5. UNCHANGED <<fileLock, file, dst, of, wf, df, store>>
      BY <1>0, <1>6, <1>a, <2>4, ZenonT(30) DEF RepairPutMeta, MTypeOK
    <2>6. MTypeOK'
      BY <1>0, <1>6, <2>3, <2>4, <2>5, ZenonT(30) DEF RepairPutMeta, MTypeOK, Labels, Locked
    <2>7. LockStep(t)
      BY <1>0, <2>1, <2>4, <2>5, SameLocks, ZenonT(30) DEF LockedSrc, LockedDst, Locked, Labels
    <2>8. MPlaces(t)' /\ MOthers(t)
      BY <1>0, <2>1, <2>4, <2>5, Zenon DEF MTypeOK, MPlaces, MOthers, MoveLabels, LockedDst, SrcKnown
    <2>9. MetaFrame(t)
      BY <2>1, <2>3, Zenon DEF MetaFrame, MHolds, LockedSrc, Locked
    <2> QED BY <2>6, <2>7, <2>8, <2>9, Zenon DEF Sound
  <1>7. ASSUME RepairUnlock(t) PROVE Sound(t)
    <2>1. /\ fileLock' = fileLock \ {file[t]} /\ pc[t] \in {"pUnlock", "pFail"}
          /\ pc' = [pc EXCEPT ![t] = IF pc[t] = "pFail" THEN "idle" ELSE "pLock"]
          /\ file' = [file EXCEPT ![t] = Nil]
          /\ of' = [of EXCEPT ![t] = NoFile]
          /\ wf' = [wf EXCEPT ![t] = NoFile]
          /\ batch' \in {batch, [batch EXCEPT ![t] = {}]}
          /\ UNCHANGED <<meta, stubs, repairQ, store>>
      BY <1>7, Zenon DEF RepairUnlock, Goto, Return
    <2>2. MTypeOK'
      BY <1>0, <1>b, <2>1, NoFileType, ZenonT(30) DEF MTypeOK, Labels
    <2>3. MOthers(t) /\ MetaFrame(t)
      BY <1>0, <1>b, <2>1, ZenonT(30) DEF MTypeOK, MOthers, MetaFrame
    <2>4. LockStep(t)
      BY <1>0, <2>1, SMTT(60) DEF MTypeOK, LockStep, MHolds, MExclusive, LockedSrc, LockedDst, Locked
    <2>5. MPlaces(t)'
      BY <1>0, <2>1, Zenon DEF MTypeOK, MPlaces, MoveLabels, LockedDst, SrcKnown
    <2> QED BY <2>2, <2>3, <2>4, <2>5, Zenon DEF Sound
  <1> QED BY <1>1, <1>2, <1>3, <1>4, <1>5, <1>6, <1>7, ZenonT(30)

\* The steps of readFile keep Sound.
LEMMA ReadSound ==
  ASSUME MLockInv, NEW t \in Threads, DstKept(t),
         (\E f \in Names : ReadGetMeta(t, f)) \/ ReadChunk(t) \/ ReadEnd(t)
  PROVE  Sound(t)
  <1>0. MTypeOK /\ MExclusive /\ MPlaces(t) /\ DstKept(t)
    BY Zenon DEF MLockInv
  <1>a. pc'[t] # "idle" => UNCHANGED <<dst, df>>
    BY <1>0, Zenon DEF DstKept, MTypeOK
  <1>b. dst' \in [Threads -> Names \cup {Nil}] /\ df' = df /\ \A u \in Threads \ {t} : dst'[u] = dst[u]
    BY <1>0, Zenon DEF DstKept, MTypeOK
  <1>1. ASSUME NEW f \in Names, ReadGetMeta(t, f) PROVE Sound(t)
    <2>1. /\ pc' = [pc EXCEPT ![t] = "gChk"] /\ pc[t] = "idle" /\ UNCHANGED <<fileLock, meta, stubs, repairQ, store, dst, wf, df, batch>>
          /\ file' = [file EXCEPT ![t] = f] /\ of' = [of EXCEPT ![t] = meta[f]] /\ meta[f] \in File
      BY <1>0, <1>1, <1>a, MGetMetaType, Zenon DEF ReadGetMeta, Begin, MTypeOK, redis
    <2>2. MTypeOK'
      BY <1>0, <2>1, ZenonT(30) DEF MTypeOK, Labels
    <2>3. LockStep(t)
      BY <1>0, <2>1, Zenon DEF MTypeOK, LockStep, MHolds, MExclusive, LockedSrc, LockedDst, Locked
    <2>4. MPlaces(t)' /\ MOthers(t) /\ MetaFrame(t)
      BY <1>0, <2>1, Zenon DEF MTypeOK, MPlaces, MOthers, MetaFrame, MoveLabels, LockedDst, SrcKnown
    <2> QED BY <2>2, <2>3, <2>4, Zenon DEF Sound
  <1>2. ASSUME ReadChunk(t) \/ ReadEnd(t) PROVE Sound(t)
    <2>1. /\ pc[t] \in {"gChk", "gEnd"} /\ UNCHANGED <<fileLock, meta, repairQ, store, batch>> /\ stubs' \subseteq Names
      BY <1>0, <1>2, ZenonT(30) DEF ReadChunk, ReadEnd, UpdateTimestamps, MTypeOK, MPlaces, redis
    <2>2. \/ Return(t)
          \/ UNCHANGED <<file, of, wf>> /\ pc' \in {pc, [pc EXCEPT ![t] = "gEnd"], [pc EXCEPT ![t] = "gChk"]}
      BY <1>2, ZenonT(30) DEF ReadChunk, ReadReply, ReadEnd, Goto
    <2>3. CASE Return(t)
      <3>1. MTypeOK'
        BY <1>0, <1>b, <2>1, <2>3, NoFileType, ZenonT(30) DEF Return, MTypeOK, Labels
      <3>2. MOthers(t) /\ MetaFrame(t)
        BY <1>0, <1>b, <2>1, <2>3, ZenonT(30) DEF Return, MTypeOK, MOthers, MetaFrame
      <3>3. LockStep(t)
        BY <1>0, <2>1, <2>3, Zenon DEF Return, MTypeOK, LockStep, MHolds, MExclusive, LockedSrc, LockedDst, Locked
      <3>4. MPlaces(t)'
        BY <1>0, <2>1, <2>3, ZenonT(30) DEF Return, MTypeOK, MPlaces, MoveLabels, LockedDst, SrcKnown
      <3> QED BY <3>1, <3>2, <3>3, <3>4, Zenon DEF Sound
    <2>4. CASE UNCHANGED <<file, of, wf>> /\ pc' \in {pc, [pc EXCEPT ![t] = "gEnd"], [pc EXCEPT ![t] = "gChk"]}
      <3>1. PICK l \in {"gChk", "gEnd"} : pc' = [pc EXCEPT ![t] = l]
        BY <1>0, <2>1, <2>4, Zenon DEF MTypeOK
      <3>2. UNCHANGED <<dst, df>>
        BY <1>0, <1>a, <3>1, Zenon DEF MTypeOK
      <3>3. MTypeOK'
        BY <1>0, <2>1, <2>4, <3>1, <3>2, ZenonT(30) DEF MTypeOK, Labels
      <3>4. LockStep(t)
        BY <1>0, <2>1, <2>4, <3>1, <3>2, SameLocks, ZenonT(30) DEF LockedSrc, LockedDst, Locked, Labels
      <3>5. MPlaces(t)' /\ MOthers(t) /\ MetaFrame(t)
        BY <1>0, <2>1, <2>4, <3>1, <3>2, Zenon DEF MTypeOK, MPlaces, MOthers, MetaFrame, MoveLabels, LockedDst, SrcKnown
      <3> QED BY <3>3, <3>4, <3>5, Zenon DEF Sound
    <2> QED BY <2>2, <2>3, <2>4, Zenon
  <1> QED BY <1>1, <1>2, ZenonT(30)

\* The steps of FileStore, beside renames and copies, keep types and locks.
LEMMA StoreStepSound ==
  ASSUME MLockInv, NEW t \in Threads, StoreStep(t)
  PROVE  Sound(t)
  <1>1. DstKept(t) /\ (Start(t) \/ Step(t))
    BY Zenon DEF StoreStep, DstKept
  <1> QED BY <1>1, WriteSound, DeleteSound, RepairSound, ReadSound, ZenonT(30) DEF Start, Step

\* The containers after chunks were moved or copied.
LEMMA ModifiedType ==
  ASSUME MTypeOK, NEW f \in Names, NEW m \in Meta, NEW g, NEW ver, NEW done \in SUBSET Stored(m), NEW del, NEW isCopy
  PROVE  Modified(f, m, g, ver, done, del, isCopy) \in [Keys -> Data \cup {Garbage, Nil}]
  <1>1. \A i \in done : store[KeyOf(f, m, i)] \in Data \cup {Garbage, Nil}
    BY KeyType, ZenonT(30) DEF MTypeOK
  <1>2. \A x \in Keys : store[x] \in Data \cup {Garbage, Nil}
    BY Zenon DEF MTypeOK
  <1> DEFINE val(x) == CASE x[4] \in del /\ x = <<m.ids[x[4]], g, ver, x[4]>> -> Nil
          [] x[4] \in done \ del /\ x = <<m.ids[x[4]], g, ver, x[4]>> -> store[KeyOf(f, m, x[4])]
          [] ~isCopy /\ x[4] \in done /\ x = KeyOf(f, m, x[4]) -> Nil
          [] OTHER -> store[x]
  <1>3. \A x \in Keys : val(x) \in Data \cup {Garbage, Nil}
    BY <1>1, <1>2, SMTT(30)
  <1>4. Modified(f, m, g, ver, done, del, isCopy) = [x \in Keys |-> val(x)]
    BY Zenon DEF Modified
  <1> HIDE DEF val
  <1> QED BY <1>3, <1>4, Zenon

\* The metadata of the destination: that of the source with other ids.
LEMMA MovedMeta ==
  ASSUME NEW m \in Meta, NEW ack
  PROVE  LET q == [i \in Idx |-> IF i \in ack THEN m.ids[i] ELSE INVALID_CONTAINER_ID]
             w == [m EXCEPT !.ids = q]
             z == [m EXCEPT !.ver = 0, !.ids = q]
         IN  /\ q \in Ids /\ w \in Meta /\ w.ids = q /\ w.ver = m.ver /\ w.data = m.data
             /\ z \in Meta /\ z.ids = q /\ z.ver = 0 /\ z.data = m.data
  <1> DEFINE q == [i \in Idx |-> IF i \in ack THEN m.ids[i] ELSE INVALID_CONTAINER_ID]
  <1>1. q \in Ids
    BY Zenon DEF Meta, Ids
  <1>2. 0 \in Versions
    BY VersionAssumption DEF Versions
  <1> HIDE DEF q
  <1>3. /\ [m EXCEPT !.ids = q] \in Meta /\ [m EXCEPT !.ids = q].ids = q /\ [m EXCEPT !.ids = q].ver = m.ver
        /\ [m EXCEPT !.ids = q].data = m.data
    BY <1>1, Zenon DEF Meta
  <1>4. /\ [m EXCEPT !.ver = 0, !.ids = q] \in Meta /\ [m EXCEPT !.ver = 0, !.ids = q].ids = q
        /\ [m EXCEPT !.ver = 0, !.ids = q].ver = 0 /\ [m EXCEPT !.ver = 0, !.ids = q].data = m.data
    BY <1>1, <1>2, ZenonT(30) DEF Meta
  <1> QED BY <1>1, <1>3, <1>4, Zenon DEF q

\* The steps of renameFile and copyFile keep Sound.
LEMMA MoveStepSound ==
  ASSUME MLockInv, NEW t \in Threads, MStart(t) \/ MStep(t)
  PROVE  Sound(t)
  <1>0. MTypeOK /\ MExclusive /\ MPlaces(t)
    BY Zenon DEF MLockInv
  <1>1. ASSUME NEW s \in Names, NEW d \in Names, RenameStart(t, s, d) \/ CopyStart(t, s, d) PROVE Sound(t)
    <2>1. PICK l \in {"mLock", "cLock"} :
             /\ pc' = [pc EXCEPT ![t] = l] /\ pc[t] = "idle" /\ file' = [file EXCEPT ![t] = s] /\ dst' = [dst EXCEPT ![t] = d]
             /\ UNCHANGED <<fileLock, meta, stubs, store, of, wf, df, batch>> /\ repairQ' \subseteq repairQ
      BY <1>1, Zenon DEF RenameStart, CopyStart, Begin, MarkFileAsRepaired, redis
    <2>2. MTypeOK'
      BY <1>0, <2>1, ZenonT(30) DEF MTypeOK, MoveLabels
    <2>3. LockStep(t)
      BY <1>0, <2>1, Zenon DEF MTypeOK, LockStep, MHolds, MExclusive, LockedSrc, LockedDst, Locked
    <2>4. MPlaces(t)' /\ MOthers(t) /\ MetaFrame(t)
      BY <1>0, <2>1, Zenon DEF MTypeOK, MPlaces, MOthers, MetaFrame, MoveLabels, LockedDst, SrcKnown
    <2> QED BY <2>2, <2>3, <2>4, Zenon DEF Sound
  <1>2. ASSUME SrcLock(t) PROVE Sound(t)
    <2>1. pc[t] \in {"mLock", "cLock"} /\ file[t] \in Names /\ dst[t] \in Names /\ UNCHANGED <<meta, stubs, repairQ, store, batch>>
      BY <1>0, <1>2, Zenon DEF SrcLock, MPlaces, MoveLabels
    <2>2. CASE LockFile(file[t])
      <3>1. PICK l \in {"mGet", "cGet"} : pc' = [pc EXCEPT ![t] = l] /\ UNCHANGED <<file, of, wf, dst, df>>
        BY <1>2, <2>2, Zenon DEF SrcLock, LockFile, Goto
      <3>2. MTypeOK'
        BY <1>0, <2>1, <2>2, <3>1, ZenonT(30) DEF LockFile, MTypeOK, MoveLabels
      <3>3. LockStep(t)
        BY <1>0, <2>1, <2>2, <3>1, ZenonT(30) DEF LockFile, MTypeOK, LockStep, MHolds, MExclusive, LockedSrc, LockedDst, Locked
      <3>4. MPlaces(t)' /\ MOthers(t) /\ MetaFrame(t)
        BY <1>0, <2>1, <3>1, Zenon DEF MTypeOK, MPlaces, MOthers, MetaFrame, MoveLabels, LockedDst, SrcKnown
      <3> QED BY <3>2, <3>3, <3>4, Zenon DEF Sound
    <2>3. CASE MReturn(t) /\ UNCHANGED fileLock
      <3>2. MTypeOK'
        BY <1>0, <2>1, <2>3, NoFileType, ZenonT(30) DEF MReturn, Return, MTypeOK, Labels
      <3>3. LockStep(t)
        BY <1>0, <2>1, <2>3, Zenon DEF MReturn, Return, MTypeOK, LockStep, MHolds, MExclusive, LockedSrc, LockedDst, Locked
      <3>4. MPlaces(t)' /\ MOthers(t) /\ MetaFrame(t)
        BY <1>0, <2>1, <2>3, ZenonT(30) DEF MReturn, Return, MTypeOK, MPlaces, MOthers, MetaFrame, MoveLabels, LockedDst, SrcKnown
      <3> QED BY <3>2, <3>3, <3>4, Zenon DEF Sound
    <2> QED BY <1>2, <2>2, <2>3, Zenon DEF SrcLock
  <1>3. ASSUME SrcGetMeta(t) PROVE Sound(t)
    <2>1. PICK m \in {meta[file[t]], NoFile} :
             /\ of' = [of EXCEPT ![t] = m]
             /\ Goto(t, IF ~Exists(m) THEN "unlock" ELSE IF pc[t] = "mGet" THEN "mDst" ELSE "cLockDst")
      BY <1>3, ZenonT(30) DEF SrcGetMeta
    <2>2. pc[t] \in {"mGet", "cGet"} /\ file[t] \in Names /\ dst[t] \in Names /\ m \in File /\ (Exists(m) => m \in Meta)
      BY <1>0, <1>3, <2>1, MGetMetaType, ZenonT(30) DEF SrcGetMeta, MPlaces, MoveLabels
    <2>3. PICK l \in {"unlock", "mDst", "cLockDst"} : pc' = [pc EXCEPT ![t] = l] /\ (l # "unlock" => m \in Meta)
      BY <2>1, <2>2, ZenonT(30) DEF Goto
    <2>4. UNCHANGED <<fileLock, meta, stubs, repairQ, store, file, wf, batch, dst, df>>
      BY <1>3, ZenonT(30) DEF SrcGetMeta, redis
    <2>5. MTypeOK'
      BY <1>0, <2>1, <2>2, <2>3, <2>4, ZenonT(30) DEF MTypeOK, Labels, Locked, MoveLabels
    <2>6. LockStep(t)
      BY <1>0, <2>2, <2>3, <2>4, SameLocks, ZenonT(30) DEF LockedSrc, LockedDst, Locked, Labels, MoveLabels
    <2>7. MPlaces(t)' /\ MOthers(t) /\ MetaFrame(t)
      BY <1>0, <2>1, <2>2, <2>3, <2>4, Zenon DEF MTypeOK, MPlaces, MOthers, MetaFrame, MoveLabels, LockedDst, SrcKnown
    <2> QED BY <2>5, <2>6, <2>7, Zenon DEF Sound
  <1>4. ASSUME DstLock(t) PROVE Sound(t)
    <2>1. /\ pc[t] \in {"nLock", "mLockDst", "cLockDst"} /\ file[t] \in Names /\ dst[t] \in Names /\ of[t] \in Meta
          /\ UNCHANGED <<meta, stubs, repairQ, store, file, of, wf, batch, dst, df>>
      BY <1>0, <1>4, Zenon DEF DstLock, MPlaces, MoveLabels, SrcKnown
    <2>2. MHolds(t, file[t])
      BY <2>1, Zenon DEF MHolds, LockedSrc
    <2>3. CASE LockFile(dst[t])
      <3>1. PICK l \in {"nGet", "mMove", "cCopy"} : pc' = [pc EXCEPT ![t] = l]
        BY <1>4, <2>3, Zenon DEF DstLock, LockFile, Goto
      <3>2. file[t] # dst[t]
        BY <1>0, <2>1, <2>2, <2>3, Zenon DEF LockFile, MExclusive
      <3>3. MTypeOK'
        BY <1>0, <2>1, <2>3, <3>1, ZenonT(30) DEF LockFile, MTypeOK, MoveLabels
      <3>4. LockStep(t)
        BY <1>0, <2>1, <2>3, <3>1, ZenonT(30) DEF LockFile, MTypeOK, LockStep, MHolds, MExclusive, LockedSrc, LockedDst, Locked
      <3>5. MPlaces(t)' /\ MOthers(t) /\ MetaFrame(t)
        BY <1>0, <2>1, <3>1, <3>2, Zenon DEF MTypeOK, MPlaces, MOthers, MetaFrame, MoveLabels, LockedDst, SrcKnown
      <3> QED BY <3>3, <3>4, <3>5, Zenon DEF Sound
    <2>4. CASE UNCHANGED fileLock /\ pc' = [pc EXCEPT ![t] = "unlock"]
      <3>3. MTypeOK'
        BY <1>0, <2>1, <2>4, ZenonT(30) DEF MTypeOK, Labels, Locked
      <3>4. LockStep(t)
        BY <1>0, <2>1, <2>4, SameLocks, ZenonT(30) DEF LockedSrc, LockedDst, Locked, Labels
      <3>5. MPlaces(t)' /\ MOthers(t) /\ MetaFrame(t)
        BY <1>0, <2>1, <2>4, Zenon DEF MTypeOK, MPlaces, MOthers, MetaFrame, MoveLabels, LockedDst, SrcKnown
      <3> QED BY <3>3, <3>4, <3>5, Zenon DEF Sound
    <2> QED BY <1>4, <2>3, <2>4, Zenon DEF DstLock, Goto
  <1>5. ASSUME UnlockSrc(t) PROVE Sound(t)
    <2>1. /\ pc[t] = "mUnlock" /\ file[t] \in Names /\ dst[t] \in Names /\ file[t] # dst[t]
          /\ pc' = [pc EXCEPT ![t] = "mUnlockDst"] /\ fileLock' = fileLock \ {file[t]}
          /\ UNCHANGED <<meta, stubs, repairQ, store, file, of, wf, batch, dst, df>>
      BY <1>0, <1>5, Zenon DEF UnlockSrc, Goto, MPlaces, MoveLabels, LockedDst
    <2>2. MTypeOK'
      BY <1>0, <2>1, ZenonT(30) DEF MTypeOK, MoveLabels
    <2>3. LockStep(t)
      BY <1>0, <2>1, ZenonT(30) DEF MTypeOK, LockStep, MHolds, MExclusive, LockedSrc, LockedDst, Locked
    <2>4. MPlaces(t)' /\ MOthers(t) /\ MetaFrame(t)
      BY <1>0, <2>1, Zenon DEF MTypeOK, MPlaces, MOthers, MetaFrame, MoveLabels, LockedDst, SrcKnown
    <2> QED BY <2>2, <2>3, <2>4, Zenon DEF Sound
  <1>6. ASSUME UnlockDst(t) PROVE Sound(t)
    <2>1. /\ pc[t] = "mUnlockDst" /\ dst[t] \in Names /\ fileLock' = fileLock \ {dst[t]}
          /\ MReturn(t) /\ UNCHANGED <<meta, stubs, repairQ, store, batch>>
      BY <1>0, <1>6, Zenon DEF UnlockDst, MPlaces, MoveLabels
    <2>2. MTypeOK'
      BY <1>0, <2>1, NoFileType, ZenonT(30) DEF MReturn, Return, MTypeOK, Labels
    <2>3. LockStep(t)
      BY <1>0, <2>1, Zenon DEF MReturn, Return, MTypeOK, LockStep, MHolds, MExclusive, LockedSrc, LockedDst, Locked
    <2>4. MPlaces(t)' /\ MOthers(t) /\ MetaFrame(t)
      BY <1>0, <2>1, ZenonT(30) DEF MReturn, Return, MTypeOK, MPlaces, MOthers, MetaFrame, MoveLabels, LockedDst, SrcKnown
    <2> QED BY <2>2, <2>3, <2>4, Zenon DEF Sound
  <1>7. ASSUME RenameGetDst(t) PROVE Sound(t)
    <2>1. PICK m \in {meta[dst[t]], NoFile} :
             wf' = [wf EXCEPT ![t] = m] /\ Goto(t, IF Exists(m) THEN "nLock" ELSE "mLockDst")
      BY <1>7, ZenonT(30) DEF RenameGetDst
    <2>2. pc[t] = "mDst" /\ file[t] \in Names /\ dst[t] \in Names /\ of[t] \in Meta /\ m \in File
      BY <1>0, <1>7, <2>1, MGetMetaType, ZenonT(30) DEF RenameGetDst, MPlaces, MoveLabels, SrcKnown
    <2>3. PICK l \in {"nLock", "mLockDst"} : pc' = [pc EXCEPT ![t] = l]
      BY <2>1, ZenonT(30) DEF Goto
    <2>4. UNCHANGED <<fileLock, meta, stubs, repairQ, store, file, of, batch, dst, df>>
      BY <1>7, ZenonT(30) DEF RenameGetDst, redis
    <2>5. MTypeOK'
      BY <1>0, <2>1, <2>2, <2>3, <2>4, ZenonT(30) DEF MTypeOK, MoveLabels
    <2>6. LockStep(t)
      BY <1>0, <2>2, <2>3, <2>4, SameLocks, ZenonT(30) DEF LockedSrc, LockedDst, Locked, MoveLabels
    <2>7. MPlaces(t)' /\ MOthers(t) /\ MetaFrame(t)
      BY <1>0, <2>1, <2>2, <2>3, <2>4, Zenon DEF MTypeOK, MPlaces, MOthers, MetaFrame, MoveLabels, LockedDst, SrcKnown
    <2> QED BY <2>5, <2>6, <2>7, Zenon DEF Sound
  <1>8. ASSUME NestedGetMeta(t) PROVE Sound(t)
    <2>1. PICK m \in {meta[dst[t]], NoFile}, l \in {"nMeta", "nFail"} :
             pc' = [pc EXCEPT ![t] = l] /\ df' \in {df, [df EXCEPT ![t] = m]}
      BY <1>8, ZenonT(30) DEF NestedGetMeta, Goto
    <2>2. pc[t] = "nGet" /\ file[t] \in Names /\ dst[t] \in Names /\ file[t] # dst[t] /\ of[t] \in Meta /\ m \in File
      BY <1>0, <1>8, <2>1, MGetMetaType, ZenonT(30) DEF NestedGetMeta, MPlaces, MoveLabels, LockedDst, SrcKnown
    <2>4. UNCHANGED <<fileLock, meta, stubs, repairQ, store, file, of, wf, batch, dst>>
      BY <1>8, ZenonT(30) DEF NestedGetMeta, redis
    <2>5. MTypeOK'
      BY <1>0, <2>1, <2>2, <2>4, ZenonT(60) DEF MTypeOK, MoveLabels
    <2>6. LockStep(t)
      BY <1>0, <2>1, <2>2, <2>4, SameLocks, ZenonT(30) DEF LockedSrc, LockedDst, Locked, MoveLabels
    <2>7. MPlaces(t)' /\ MOthers(t) /\ MetaFrame(t)
      BY <1>0, <2>1, <2>2, <2>4, Zenon DEF MTypeOK, MPlaces, MOthers, MetaFrame, MoveLabels, LockedDst, SrcKnown
    <2> QED BY <2>5, <2>6, <2>7, Zenon DEF Sound
  <1>9. ASSUME NestedDeleteMeta(t) PROVE Sound(t)
    <2>1. pc[t] = "nMeta" /\ file[t] \in Names /\ dst[t] \in Names /\ file[t] # dst[t] /\ of[t] \in Meta
      BY <1>0, <1>9, Zenon DEF NestedDeleteMeta, MPlaces, MoveLabels, LockedDst, SrcKnown
    <2>2. PICK okay \in BOOLEAN : PutMeta(dst[t], NoFile, okay)
      BY <1>9, Zenon DEF NestedDeleteMeta, RemoveMeta
    <2>3. /\ meta' \in [Names -> Meta \cup {NoFile}] /\ stubs' \subseteq Names
          /\ \A g \in Names \ {dst[t]} : meta'[g] = meta[g]
      BY <1>0, <2>1, <2>2, MPutMetaType, SMTT(30)
    <2>4. PICK l \in {"nFail", "nDel", "nUnlock"} : pc' = [pc EXCEPT ![t] = l]
      BY <1>9, ZenonT(30) DEF NestedDeleteMeta, Goto
    <2>5. UNCHANGED <<fileLock, file, dst, of, wf, df, store, batch>> /\ repairQ' \subseteq repairQ
      BY <1>9, ZenonT(30) DEF NestedDeleteMeta, MarkFileAsRepaired
    <2>6. MTypeOK'
      BY <1>0, <2>3, <2>4, <2>5, ZenonT(30) DEF MTypeOK, MoveLabels
    <2>7. LockStep(t)
      BY <1>0, <2>1, <2>4, <2>5, SameLocks, ZenonT(30) DEF LockedSrc, LockedDst, Locked, MoveLabels
    <2>8. MPlaces(t)' /\ MOthers(t)
      BY <1>0, <2>1, <2>4, <2>5, Zenon DEF MTypeOK, MPlaces, MOthers, MoveLabels, LockedDst, SrcKnown
    <2>9. MetaFrame(t)
      BY <2>1, <2>3, Zenon DEF MetaFrame, MHolds, LockedDst
    <2> QED BY <2>6, <2>7, <2>8, <2>9, Zenon DEF Sound
  <1>10. ASSUME NestedDeleteChunks(t) PROVE Sound(t)
    <2>1. pc[t] = "nDel" /\ file[t] \in Names /\ dst[t] \in Names /\ file[t] # dst[t] /\ of[t] \in Meta
      BY <1>0, <1>10, Zenon DEF NestedDeleteChunks, MPlaces, MoveLabels, LockedDst, SrcKnown
    <2>2. store' \in [Keys -> Data \cup {Garbage, Nil}]
      BY <1>0, <1>10, MUpdatedType, SMTT(60) DEF NestedDeleteChunks
    <2>3. PICK l \in {"nFail", "nUnlock"} : pc' = [pc EXCEPT ![t] = l]
      BY <1>10, ZenonT(30) DEF NestedDeleteChunks, Goto
    <2>4. UNCHANGED <<fileLock, meta, stubs, file, dst, of, wf, df, batch>> /\ repairQ' \subseteq repairQ
      BY <1>10, ZenonT(30) DEF NestedDeleteChunks, MarkFileAsRepaired
    <2>5. MTypeOK'
      BY <1>0, <2>2, <2>3, <2>4, ZenonT(30) DEF MTypeOK, MoveLabels
    <2>6. LockStep(t)
      BY <1>0, <2>1, <2>3, <2>4, SameLocks, ZenonT(30) DEF LockedSrc, LockedDst, Locked, MoveLabels
    <2>7. MPlaces(t)' /\ MOthers(t) /\ MetaFrame(t)
      BY <1>0, <2>1, <2>3, <2>4, Zenon DEF MTypeOK, MPlaces, MOthers, MetaFrame, MoveLabels, LockedDst, SrcKnown
    <2> QED BY <2>5, <2>6, <2>7, Zenon DEF Sound
  <1>11. ASSUME NestedUnlock(t) PROVE Sound(t)
    <2>1. /\ pc[t] \in {"nUnlock", "nFail"} /\ file[t] \in Names /\ dst[t] \in Names /\ file[t] # dst[t]
          /\ of[t] \in Meta /\ fileLock' = fileLock \ {dst[t]} /\ df' = [df EXCEPT ![t] = NoFile]
          /\ UNCHANGED <<meta, stubs, repairQ, store, file, of, wf, batch, dst>>
      BY <1>0, <1>11, Zenon DEF NestedUnlock, MPlaces, MoveLabels, LockedDst, SrcKnown
    <2>2. PICK l \in {"mLockDst", "unlock"} : pc' = [pc EXCEPT ![t] = l]
      BY <1>11, ZenonT(30) DEF NestedUnlock, Goto
    <2>3. MTypeOK'
      BY <1>0, <2>1, <2>2, NoFileType, ZenonT(30) DEF MTypeOK, MoveLabels, Labels, Locked
    <2>4. LockStep(t)
      BY <1>0, <2>1, <2>2, ZenonT(30) DEF MTypeOK, LockStep, MHolds, MExclusive, LockedSrc, LockedDst, Locked
    <2>5. MPlaces(t)' /\ MOthers(t) /\ MetaFrame(t)
      BY <1>0, <2>1, <2>2, Zenon DEF MTypeOK, MPlaces, MOthers, MetaFrame, MoveLabels, LockedDst, SrcKnown
    <2> QED BY <2>3, <2>4, <2>5, Zenon DEF Sound
  <1>12. ASSUME RenameMove(t) \/ CopyChunks(t) PROVE Sound(t)
    <2>1. /\ pc[t] \in {"mMove", "cCopy"} /\ file[t] \in Names /\ dst[t] \in Names /\ file[t] # dst[t] /\ of[t] \in Meta
          /\ UNCHANGED <<fileLock, meta, stubs, repairQ, file, of, batch, dst, df>>
      BY <1>0, <1>12, ZenonT(30) DEF RenameMove, CopyChunks, MPlaces, MoveLabels, LockedDst, SrcKnown, redis
    <2> DEFINE q(ack) == [i \in Idx |-> IF i \in ack THEN of[t].ids[i] ELSE INVALID_CONTAINER_ID]
               w(ack) == [of[t] EXCEPT !.ids = q(ack)]
               z(ack) == [of[t] EXCEPT !.ver = 0, !.ids = q(ack)]
    <2> DEFINE Moved(l) == /\ pc' = [pc EXCEPT ![t] = l] /\ wf' \in [Threads -> File]
                           /\ l # "mUnlock" => wf'[t] \in Meta
                           /\ \A u \in Threads \ {t} : wf'[u] = wf[u]
                           /\ store' \in [Keys -> Data \cup {Garbage, Nil}]
    <2>2. \A ack : w(ack) \in Meta /\ z(ack) \in Meta
      BY <2>1, MovedMeta, ZenonT(30)
    <2>3. PICK l \in {"mMeta", "cMeta", "mUnlock"} : Moved(l)
      <3>1. CASE RenameMove(t)
        <4>1. PICK done, ack :
                 /\ done \in SUBSET Movable(file[t], of[t])
                 /\ IF ack \in KSets \/ of[t].data = Empty
                    THEN /\ store' = Modified(file[t], of[t], dst[t], of[t].ver, done, {}, FALSE)
                         /\ wf' = [wf EXCEPT ![t] = w(ack)]
                         /\ Goto(t, "mMeta")
                    ELSE /\ \E del : store' = Modified(file[t], of[t], dst[t], of[t].ver, done, del, FALSE)
                         /\ Goto(t, "mUnlock")
                         /\ UNCHANGED wf
          BY <3>1, ZenonT(60) DEF RenameMove
        <4>2. store' \in [Keys -> Data \cup {Garbage, Nil}]
          <5>1. PICK del : store' = Modified(file[t], of[t], dst[t], of[t].ver, done, del, FALSE)
            BY <4>1, ZenonT(30)
          <5>2. done \in SUBSET Stored(of[t])
            BY <4>1, Zenon DEF Movable
          <5> QED BY <1>0, <2>1, <5>1, <5>2, ModifiedType, ZenonT(30)
        <4>3. CASE ack \in KSets \/ of[t].data = Empty
          <5> DEFINE v == w(ack)
          <5>0. v \in Meta /\ v \in File
            BY <2>2, MetaFile, ZenonT(30)
          <5>a. wf' = [wf EXCEPT ![t] = v] /\ pc' = [pc EXCEPT ![t] = "mMeta"]
            BY <4>1, <4>3, ZenonT(30) DEF Goto
          <5> HIDE DEF v
          <5>1. Moved("mMeta")
            BY <1>0, <4>2, <5>0, <5>a, Zenon DEF MTypeOK
          <5> QED BY <5>1, Zenon
        <4>4. CASE ~(ack \in KSets \/ of[t].data = Empty)
          <5>1. Moved("mUnlock")
            BY <1>0, <4>1, <4>2, <4>4, Zenon DEF Goto, MTypeOK
          <5> QED BY <5>1, Zenon
        <4> QED BY <4>3, <4>4, Zenon
      <3>2. CASE CopyChunks(t)
        <4>1. PICK done, ack :
                 /\ done \in SUBSET Movable(file[t], of[t])
                 /\ store' = Modified(file[t], of[t], dst[t], 0, done, {}, TRUE)
                 /\ IF ack \in KSets \/ of[t].data = Empty
                    THEN wf' = [wf EXCEPT ![t] = z(ack)] /\ Goto(t, "cMeta")
                    ELSE Goto(t, "mUnlock") /\ UNCHANGED wf
          BY <3>2, ZenonT(60) DEF CopyChunks
        <4>2. store' \in [Keys -> Data \cup {Garbage, Nil}]
          BY <1>0, <2>1, <4>1, ModifiedType, ZenonT(30) DEF Movable
        <4>3. CASE ack \in KSets \/ of[t].data = Empty
          <5> DEFINE v == z(ack)
          <5>0. v \in Meta /\ v \in File
            BY <2>2, MetaFile, ZenonT(30)
          <5>a. wf' = [wf EXCEPT ![t] = v] /\ pc' = [pc EXCEPT ![t] = "cMeta"]
            BY <4>1, <4>3, Zenon DEF Goto
          <5> HIDE DEF v
          <5>1. Moved("cMeta")
            BY <1>0, <4>2, <5>0, <5>a, Zenon DEF MTypeOK
          <5> QED BY <5>1, Zenon
        <4>4. CASE ~(ack \in KSets \/ of[t].data = Empty)
          <5>1. Moved("mUnlock")
            BY <1>0, <4>1, <4>2, <4>4, ZenonT(30) DEF Goto, MTypeOK
          <5> QED BY <5>1, Zenon
        <4> QED BY <4>3, <4>4, Zenon
      <3> QED BY <1>12, <3>1, <3>2, Zenon
    <2>6. MTypeOK'
      BY <1>0, <2>1, <2>3, ZenonT(30) DEF MTypeOK, MoveLabels
    <2>7. LockStep(t)
      BY <1>0, <2>1, <2>3, SameLocks, ZenonT(30) DEF LockedSrc, LockedDst, Locked, MoveLabels
    <2>8. MPlaces(t)' /\ MOthers(t) /\ MetaFrame(t)
      BY <1>0, <2>1, <2>3, Zenon DEF MTypeOK, MPlaces, MOthers, MetaFrame, MoveLabels, LockedDst, SrcKnown
    <2> QED BY <2>6, <2>7, <2>8, Zenon DEF Sound
  <1>13. ASSUME RenameMeta(t) PROVE Sound(t)
    <2>1. /\ pc[t] = "mMeta" /\ file[t] \in Names /\ dst[t] \in Names /\ file[t] # dst[t] /\ of[t] \in Meta /\ wf[t] \in Meta
          /\ UNCHANGED <<fileLock, stubs, store, file, of, wf, batch, dst, df>>
      BY <1>0, <1>13, Zenon DEF RenameMeta, MPlaces, MoveLabels, LockedDst, SrcKnown
    <2>2. PICK l \in {"mUnlock", "mRevert"} :
             /\ pc' = [pc EXCEPT ![t] = l] /\ repairQ' \in {repairQ, repairQ \cup {<<dst[t], -1>>}}
             /\ meta' \in {meta, [meta EXCEPT ![dst[t]] = meta[file[t]], ![file[t]] = NoFile]}
      BY <1>13, ZenonT(30) DEF RenameMeta, MarkFileAsNeedsRepair, Goto
    <2>3. /\ meta' \in [Names -> Meta \cup {NoFile}]
          /\ \A g \in Names \ {file[t], dst[t]} : meta'[g] = meta[g]
      BY <1>0, <2>1, <2>2, Zenon DEF MTypeOK
    <2>4. repairQ' \subseteq Names \X (Versions \cup {-1})
      BY <1>0, <2>1, <2>2, SMTT(30) DEF MTypeOK
    <2>5. MTypeOK'
      BY <1>0, <2>1, <2>2, <2>3, <2>4, ZenonT(30) DEF MTypeOK, MoveLabels
    <2>6. LockStep(t)
      BY <1>0, <2>1, <2>2, SameLocks, ZenonT(30) DEF LockedSrc, LockedDst, Locked, MoveLabels
    <2>7. MPlaces(t)' /\ MOthers(t)
      BY <1>0, <2>1, <2>2, Zenon DEF MTypeOK, MPlaces, MOthers, MoveLabels, LockedDst, SrcKnown
    <2>8. MetaFrame(t)
      BY <2>1, <2>3, Zenon DEF MetaFrame, MHolds, LockedSrc, LockedDst
    <2> QED BY <2>5, <2>6, <2>7, <2>8, Zenon DEF Sound
  <1>14. ASSUME RenameRevert(t) PROVE Sound(t)
    <2>1. /\ pc[t] = "mRevert" /\ file[t] \in Names /\ dst[t] \in Names /\ file[t] # dst[t] /\ of[t] \in Meta /\ wf[t] \in Meta
          /\ pc' = [pc EXCEPT ![t] = "mUnlock"]
          /\ UNCHANGED <<fileLock, meta, stubs, repairQ, file, of, wf, batch, dst, df>>
      BY <1>0, <1>14, ZenonT(30) DEF RenameRevert, Goto, MPlaces, MoveLabels, LockedDst, SrcKnown, redis
    <2>2. PICK done, del :
             /\ done \in SUBSET Movable(dst[t], wf[t])
             /\ store' = Modified(dst[t], wf[t], file[t], wf[t].ver, done, del, FALSE)
      BY <1>14, ZenonT(30) DEF RenameRevert
    <2>3. store' \in [Keys -> Data \cup {Garbage, Nil}]
      BY <1>0, <2>1, <2>2, ModifiedType, ZenonT(30) DEF Movable
    <2>4. MTypeOK'
      BY <1>0, <2>1, <2>3, ZenonT(30) DEF MTypeOK, MoveLabels
    <2>5. LockStep(t)
      BY <1>0, <2>1, SameLocks, ZenonT(30) DEF LockedSrc, LockedDst, Locked, MoveLabels
    <2>6. MPlaces(t)' /\ MOthers(t) /\ MetaFrame(t)
      BY <1>0, <2>1, Zenon DEF MTypeOK, MPlaces, MOthers, MetaFrame, MoveLabels, LockedDst, SrcKnown
    <2> QED BY <2>4, <2>5, <2>6, Zenon DEF Sound
  <1>15. ASSUME CopyPutMeta(t) PROVE Sound(t)
    <2>1. /\ pc[t] = "cMeta" /\ file[t] \in Names /\ dst[t] \in Names /\ file[t] # dst[t] /\ of[t] \in Meta /\ wf[t] \in Meta
          /\ pc' = [pc EXCEPT ![t] = "mUnlock"] /\ UNCHANGED <<fileLock, repairQ, store, file, of, wf, batch, dst, df>>
      BY <1>0, <1>15, Zenon DEF CopyPutMeta, Goto, MPlaces, MoveLabels, LockedDst, SrcKnown
    <2>2. PICK okay \in BOOLEAN : PutMeta(dst[t], wf[t], okay)
      BY <1>15, Zenon DEF CopyPutMeta
    <2>3. /\ meta' \in [Names -> Meta \cup {NoFile}] /\ stubs' \subseteq Names
          /\ \A g \in Names \ {dst[t]} : meta'[g] = meta[g]
      BY <1>0, <2>1, <2>2, MPutMetaType, SMTT(30)
    <2>4. MTypeOK'
      BY <1>0, <2>1, <2>3, ZenonT(30) DEF MTypeOK, MoveLabels
    <2>5. LockStep(t)
      BY <1>0, <2>1, SameLocks, ZenonT(30) DEF LockedSrc, LockedDst, Locked, MoveLabels
    <2>6. MPlaces(t)' /\ MOthers(t)
      BY <1>0, <2>1, Zenon DEF MTypeOK, MPlaces, MOthers, MoveLabels, LockedDst, SrcKnown
    <2>7. MetaFrame(t)
      BY <2>1, <2>3, Zenon DEF MetaFrame, MHolds, LockedDst
    <2> QED BY <2>4, <2>5, <2>6, <2>7, Zenon DEF Sound
  <1> QED
    BY <1>1, <1>2, <1>3, <1>4, <1>5, <1>6, <1>7, <1>8, <1>9, <1>10, <1>11, <1>12, <1>13, <1>14, <1>15, ZenonT(30)
    DEF MStart, MStep

\* MLockInv holds at the start and is kept by every step.
LEMMA MLockInvInit == MInit => MLockInv
  <1> SUFFICES ASSUME MInit PROVE MLockInv
    BY Zenon
  <1>1. MTypeOK
    BY NoFileType, Zenon DEF MInit, Init, MTypeOK, Labels
  <1>2. \A t \in Threads : pc[t] = "idle" /\ \A f \in Names : ~MHolds(t, f)
    BY Zenon DEF MInit, Init, MHolds, LockedSrc, LockedDst, Locked
  <1>3. \A t \in Threads : MPlaces(t)
    BY <1>2, ZenonT(30) DEF MPlaces, MoveLabels, LockedDst, SrcKnown
  <1> QED BY <1>1, <1>2, <1>3, Zenon DEF MLockInv, MExclusive

\* Marking a file to be repaired changes neither.
LEMMA MScanMark ==
  ASSUME MLockInv, NEW f \in Names, ScanMark(f), UNCHANGED <<dst, df>>
  PROVE  MLockInv'
  <1>1. meta[f].ver \in Versions
    BY NoFileType, ZenonT(30) DEF ScanMark, MLockInv, MTypeOK, Meta
  <1>2. repairQ' \subseteq Names \X (Versions \cup {-1})
    BY <1>1 DEF ScanMark, MarkFileAsNeedsRepair, MLockInv, MTypeOK
  <1>3. MTypeOK'
    BY <1>2, ZenonT(30) DEF ScanMark, MLockInv, MTypeOK
  <1>4. MExclusive' /\ \A t \in Threads : MPlaces(t)'
    BY ZenonT(30) DEF ScanMark, MLockInv, MExclusive, MHolds, MPlaces
  <1> QED BY <1>3, <1>4, Zenon DEF MLockInv

\* Every step keeps MLockInv.
LEMMA MLockInvNext == MLockInv /\ [MNext]_mvars => MLockInv'
  <1> SUFFICES ASSUME MLockInv, [MNext]_mvars PROVE MLockInv'
    BY Zenon
  <1>1. ASSUME NEW t \in Threads, MStart(t) \/ MStep(t) \/ StoreStep(t) PROVE MLockInv'
    BY <1>1, MoveStepSound, StoreStepSound, SoundStep, Zenon
  <1>2. CASE MCrash
    <2>1. MTypeOK'
      BY <1>2, NoFileType, ZenonT(30) DEF MCrash, Crash, MLockInv, MTypeOK, Labels, redis
    <2>2. \A t \in Threads : pc'[t] = "idle" /\ \A f \in Names : ~MHolds(t, f)'
      BY <1>2, Zenon DEF MCrash, Crash, MHolds, LockedSrc, LockedDst, Locked
    <2>3. \A t \in Threads : MPlaces(t)'
      BY <2>2, Zenon DEF MPlaces, MoveLabels, LockedDst, SrcKnown
    <2> QED BY <2>1, <2>2, <2>3, Zenon DEF MLockInv, MExclusive
  <1>3. CASE UNCHANGED mvars
    BY <1>3, ZenonT(30) DEF mvars, MLockInv, MTypeOK, MExclusive, MHolds, MPlaces
  <1> QED BY <1>1, <1>2, <1>3, MScanMark, ZenonT(30) DEF MNext

\* The two locks of renameFile and copyFile, and the one of the deleteFile that a
\* rename calls, exclude every other operation, and every way out of them releases
\* what was locked, on every error path and for crossing renames too: as long as
\* the proxy does not die, LocksHeld.
THEOREM MoveLocksHeld ==
  ASSUME "crash" \notin Faults
  PROVE  MSpec => []LocksHeld
  <1>1. MInit => LocksHeld
    BY DEF MInit, Init, LocksHeld, MHolds, LockedSrc, LockedDst, Locked
  <1>2. MLockInv /\ LocksHeld /\ [MNext]_mvars => LocksHeld'
    <2> SUFFICES ASSUME MLockInv, LocksHeld, [MNext]_mvars PROVE LocksHeld'
      BY Zenon
    <2>0. MLockInv'
      BY MLockInvNext, Zenon
    <2>1. ASSUME NEW t \in Threads, Sound(t) PROVE fileLock' = {f \in Names : \E u \in Threads : MHolds(u, f)'}
      <3>1. \A f \in Names : \A u \in Threads \ {t} : MHolds(u, f)' <=> MHolds(u, f)
        BY <2>1, Zenon DEF Sound, MOthers, MHolds
      <3>2. ASSUME NEW f \in Names, f \in fileLock' PROVE \E u \in Threads : MHolds(u, f)'
        BY <2>1, <3>1, <3>2, Zenon DEF Sound, LockStep, LocksHeld
      <3> QED BY <2>0, <3>2, Zenon DEF MLockInv, MTypeOK, MExclusive
    <2>2. ASSUME NEW f \in Names, ScanMark(f), UNCHANGED <<dst, df>> PROVE LocksHeld'
      BY <2>2, Zenon DEF ScanMark, LocksHeld, MHolds
    <2>3. CASE UNCHANGED mvars
      BY <2>3, Zenon DEF mvars, LocksHeld, MHolds
    <2>4. ~MCrash
      BY Zenon DEF MCrash, Crash
    <2>5. \A t, u \in Threads : \A f \in Names : MHolds(t, f)' /\ MHolds(u, f)' => t = u
      BY <2>0, Zenon DEF MLockInv, MExclusive
    <2> QED BY <2>1, <2>2, <2>3, <2>4, <2>5, MoveStepSound, StoreStepSound, ZenonT(30) DEF MNext, LocksHeld
  <1> QED BY <1>1, <1>2, MLockInvInit, MLockInvNext, PTL DEF MSpec

=============================================================================
