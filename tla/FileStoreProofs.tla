--------------------------- MODULE FileStoreProofs ---------------------------
(***************************************************************************)
(* Proofs about FileStore, for any number of files, threads, containers    *)
(* and versions and any coding parameters.                                 *)
(***************************************************************************)
EXTENDS FileStore, FiniteSetTheorems, WellFoundedInduction, TLAPS

(***************************************************************************)
(* Types and locks.                                                        *)
(***************************************************************************)
\* What the metadata a thread has at hand satisfies at each place, as far as the
\* types of what it is going to store depend on it.
Places(t) ==
    /\ pc[t] \in Locked \cup {"gChk", "gEnd"} => file[t] \in Names
    /\ pc[t] = "wGet" => meta[file[t]].ver < MaxVersion
    /\ pc[t] \in {"wPut", "wMeta"} => wf[t].ver \in Versions
    /\ pc[t] = "wPut" => wf[t].data \in Data
    /\ pc[t] \in {"pFix", "pMeta"} => of[t] \in Meta /\ wf[t] \in Meta
    /\ pc[t] = "gChk" => of[t] \in Meta /\ todo[t] \subseteq Stored(of[t])

LockInv == TypeOK /\ Exclusive /\ \A t \in Threads : Places(t)

\* The metadata of no file.
LEMMA NoFileType ==
  NoFile \in File /\ NoIds \in Ids /\ ~Exists(NoFile) /\ NoFile.ver = -1 /\ NoFile.data = Empty
  BY Zenon DEF NoFile, File, Ids, NoIds, Exists

\* Meta and File differ in the version -1 only.
LEMMA MetaFile == Meta \subseteq File /\ \A m \in File : m.ver \in Versions => m \in Meta
  BY Zenon DEF Meta, File, Ids

\* Fields of a File, and what setting them does.
LEMMA FileFields ==
  ASSUME NEW m \in File
  PROVE  /\ m.ver \in Versions \cup {-1} /\ m.ids \in Ids /\ m.data \in Data \cup {Empty}
         /\ \A v \in Versions \cup {-1} :
              /\ [m EXCEPT !.ver = v] \in File
              /\ [m EXCEPT !.ver = v].ver = v /\ [m EXCEPT !.ver = v].data = m.data
         /\ \A p \in Ids :
              /\ [m EXCEPT !.ids = p] \in File /\ [m EXCEPT !.ids = p].ids = p
              /\ [m EXCEPT !.ids = p].ver = m.ver /\ [m EXCEPT !.ids = p].data = m.data
         /\ \A d \in Data \cup {Empty} : [m EXCEPT !.data = d] \in File
  BY Zenon DEF File

\* The name of a chunk that the metadata m of file f names.
LEMMA KeyType ==
  ASSUME NEW f \in Names, NEW m \in Meta, NEW i \in Stored(m)
  PROVE  KeyOf(f, m, i) \in Keys
  BY Zenon DEF KeyOf, Keys, Meta, Ids, Stored

\* Updated keeps the type of the store.
LEMMA UpdatedType ==
  ASSUME TypeOK, NEW put, NEW del, NEW d \in Data \cup {Garbage, Nil}
  PROVE  Updated(put, d, del) \in [Keys -> Data \cup {Garbage, Nil}]
  BY Zenon DEF Updated, TypeOK

\* Payloads decode to a payload.
LEMMA DecodeType ==
  ASSUME NEW S \in SUBSET (Data \cup {Garbage, Nil})
  PROVE  Decode(S) \in Data \cup {Garbage, Nil}
  BY Zenon DEF Decode

\* What getMeta returns, with a fault or without.
LEMMA GetMetaType ==
  ASSUME TypeOK, NEW f \in Names, NEW m \in {meta[f], NoFile}
  PROVE  m \in File /\ (Exists(m) => m \in Meta)
  BY NoFileType, MetaFile, ZenonT(30) DEF TypeOK, Exists, Meta, Versions

\* What putMeta leaves in the metadata store.
LEMMA PutMetaType ==
  ASSUME TypeOK, NEW f \in Names, NEW m \in Meta \cup {NoFile}, NEW okay \in BOOLEAN, PutMeta(f, m, okay)
  PROVE  /\ meta' \in [Names -> Meta \cup {NoFile}] /\ stubs' \subseteq Names
         /\ \A g \in Names \ {f} : meta'[g] = meta[g]
         /\ meta'[f] \in {meta[f], m} /\ (okay => meta'[f] = m)
  BY Zenon DEF TypeOK, PutMeta

\* LockInv holds at the start.
LEMMA LockInvInit == Init => LockInv
  <1> SUFFICES ASSUME Init PROVE LockInv
    BY Zenon
  <1> USE NoFileType
  <1>1. TypeOK
    BY Zenon DEF Init, TypeOK, Labels, Locked
  <1>2. Exclusive
    BY Zenon DEF Init, Exclusive, Locked
  <1>3. \A t \in Threads : Places(t)
    BY Zenon DEF Init, Places, Locked
  <1> QED BY <1>1, <1>2, <1>3, Zenon DEF LockInv

\* Every step keeps LockInv.
LEMMA LockInvNext == LockInv /\ [Next]_vars => LockInv'
  <1> SUFFICES ASSUME LockInv, [Next]_vars PROVE LockInv'
    BY Zenon
  <1> USE DEF LockInv
  <1>1. ASSUME NEW t \in Threads, NEW f \in Names, NEW d \in Data \cup {Empty}, WriteLock(t, f, d) PROVE LockInv'
    <2>1. TypeOK'
      BY <1>1, NoFileType, FileFields, ZenonT(30) DEF WriteLock, LockFile, Begin, TypeOK, Labels, Locked
    <2>2. Exclusive'
      BY <1>1 DEF WriteLock, LockFile, Begin, TypeOK, Exclusive, Holds, Locked
    <2>3. ASSUME NEW u \in Threads PROVE Places(u)'
      BY <1>1, NoFileType, FileFields, SMTT(60) DEF WriteLock, LockFile, Begin, TypeOK, Exclusive, Holds, Places, Locked
    <2> QED BY <2>1, <2>2, <2>3, Zenon
  <1>2. ASSUME NEW t \in Threads, WriteGetMeta(t) PROVE LockInv'
    <2> PICK m \in {meta[file[t]], NoFile} :
             /\ of' = [of EXCEPT ![t] = m]
             /\ wf' = [wf EXCEPT ![t].ver = m.ver + 1]
      BY <1>2, ZenonT(30) DEF WriteGetMeta
    <2>0. file[t] \in Names /\ m \in File /\ m.ver + 1 \in Versions
      BY <1>2, NoFileType, GetMetaType, FileFields, VersionAssumption, SMTT(60)
      DEF WriteGetMeta, Places, TypeOK, Versions, Locked
    <2>1. wf[t] \in File /\ wf'[t] \in File /\ wf'[t].ver \in Versions /\ wf'[t].data = wf[t].data
      BY <2>0, FileFields DEF TypeOK
    <2>2. TypeOK'
      BY <1>2, <2>0, <2>1, Zenon DEF WriteGetMeta, Goto, TypeOK, Labels, Locked, redis
    <2>3. Exclusive'
      BY <1>2 DEF WriteGetMeta, Goto, TypeOK, Exclusive, Holds, Locked, redis
    <2>4. ASSUME NEW u \in Threads PROVE Places(u)'
      BY <1>2, <2>0, <2>1, FileFields, ZenonT(30) DEF WriteGetMeta, Goto, TypeOK, Places, Locked, redis
    <2> QED BY <2>2, <2>3, <2>4, Zenon
  <1>3. ASSUME NEW t \in Threads, WriteStripes(t) PROVE LockInv'
    <2>1. wf[t] \in File /\ wf[t].data \in Data /\ wf[t].ver \in Versions
      BY <1>3, Zenon DEF WriteStripes, TypeOK, Places
    <2>2. PICK numSpare \in K .. N : \E p \in Placements(0 .. numSpare - 1, {}) :
             \E done \in SUBSET DOMAIN p : \E ack \in Acked(p, DOMAIN p, done) : WriteOutcome(t, p, done, ack)
      BY <1>3, Zenon DEF WriteStripes
    <2>3. PICK p, done, ack :
             /\ p \in Placements(0 .. numSpare - 1, {}) /\ ack \in SUBSET (0 .. numSpare - 1)
             /\ WriteOutcome(t, p, done, ack)
      BY <2>2, ZenonT(30) DEF Placements, Acked
    <2> DEFINE q == [i \in Idx |-> IF i \in ack THEN p[i] ELSE INVALID_CONTAINER_ID]
    <2>4. q \in Ids
      BY <2>3, ZenonT(30) DEF Placements, Ids
    <2>5. wf' = wf \/ wf' = [wf EXCEPT ![t] = [wf[t] EXCEPT !.ids = q]]
      BY <2>3, Zenon DEF WriteOutcome
    <2>6. store' \in [Keys -> Data \cup {Garbage, Nil}]
      <3>1. \E put, del : store' = Updated(put, wf[t].data, del)
        BY <2>3, ZenonT(30) DEF WriteOutcome
      <3> QED BY <2>1, <3>1, UpdatedType
    <2> HIDE DEF q
    <2>7. wf'[t] \in File /\ wf'[t].ver \in Versions /\ wf' \in [Threads -> File]
      <3>1. [wf[t] EXCEPT !.ids = q] \in File /\ [wf[t] EXCEPT !.ids = q].ver = wf[t].ver
        BY <2>1, <2>4, FileFields, Zenon
      <3> QED BY <2>1, <2>5, <3>1, ZenonT(30) DEF TypeOK
    <2>8. pc' \in {[pc EXCEPT ![t] = "wMeta"], [pc EXCEPT ![t] = "unlock"]}
      BY <2>3, Zenon DEF WriteOutcome, Goto
    <2>9. TypeOK'
      BY <1>3, <2>6, <2>7, <2>8, ZenonT(30) DEF WriteStripes, TypeOK, Labels, Locked, redis
    <2>10. Exclusive'
      BY <1>3, <2>8 DEF WriteStripes, TypeOK, Exclusive, Holds, Locked, redis
    <2>11. ASSUME NEW u \in Threads PROVE Places(u)'
      BY <1>3, <2>5, <2>7, <2>8, ZenonT(60) DEF WriteStripes, TypeOK, Places, Locked, redis
    <2> QED BY <2>9, <2>10, <2>11, Zenon
  <1>4. ASSUME NEW t \in Threads, WriteNoSpace(t) PROVE LockInv'
    <2>1. TypeOK'
      BY <1>4, Zenon DEF WriteNoSpace, Goto, TypeOK, Labels, Locked, redis
    <2>2. Exclusive'
      BY <1>4, ZenonT(60) DEF WriteNoSpace, Goto, TypeOK, Exclusive, Holds, Locked, redis
    <2>3. ASSUME NEW u \in Threads PROVE Places(u)'
      BY <1>4, Zenon DEF WriteNoSpace, Goto, TypeOK, Exclusive, Holds, Places, Locked, redis
    <2> QED BY <2>1, <2>2, <2>3, Zenon
  <1>5. ASSUME NEW t \in Threads, WritePutMeta(t) PROVE LockInv'
    <2>1. file[t] \in Names /\ wf[t] \in Meta \cup {NoFile}
      BY <1>5, MetaFile, Zenon DEF WritePutMeta, TypeOK, Places, Locked
    <2>2. meta' \in [Names -> Meta \cup {NoFile}] /\ stubs' \subseteq Names
      BY <1>5, <2>1, PutMetaType, Zenon DEF WritePutMeta
    <2>3. \A g \in Names \ {file[t]} : meta'[g] = meta[g]
      BY <1>5, <2>1, PutMetaType, ZenonT(60) DEF WritePutMeta
    <2>4. TypeOK'
      BY <1>5, <2>2, ZenonT(30) DEF WritePutMeta, Goto, TypeOK, Labels, Locked
    <2>5. Exclusive'
      BY <1>5, ZenonT(60) DEF WritePutMeta, Goto, TypeOK, Exclusive, Holds, Locked
    <2>6. ASSUME NEW u \in Threads PROVE Places(u)'
      BY <1>5, <2>3, ZenonT(60) DEF WritePutMeta, Goto, TypeOK, Exclusive, Holds, Places, Locked
    <2> QED BY <2>4, <2>5, <2>6, Zenon
  <1>6. ASSUME NEW t \in Threads, WriteDeleteOld(t) PROVE LockInv'
    <2>1. store' \in [Keys -> Data \cup {Garbage, Nil}]
      BY <1>6, UpdatedType, SMTT(60) DEF WriteDeleteOld
    <2>2. TypeOK'
      BY <1>6, <2>1, ZenonT(30) DEF WriteDeleteOld, Goto, TypeOK, Labels, Locked, redis
    <2>3. Exclusive'
      BY <1>6, ZenonT(60) DEF WriteDeleteOld, Goto, TypeOK, Exclusive, Holds, Locked, redis
    <2>4. ASSUME NEW u \in Threads PROVE Places(u)'
      BY <1>6, ZenonT(30) DEF WriteDeleteOld, Goto, TypeOK, Places, Locked, redis
    <2> QED BY <2>2, <2>3, <2>4, Zenon
  <1>7. ASSUME NEW t \in Threads, NEW f \in Names, DeleteLock(t, f) PROVE LockInv'
    <2>1. TypeOK'
      BY <1>7, Zenon DEF DeleteLock, LockFile, Begin, TypeOK, Labels, Locked
    <2>2. Exclusive'
      BY <1>7 DEF DeleteLock, LockFile, Begin, TypeOK, Exclusive, Holds, Locked
    <2>3. ASSUME NEW u \in Threads PROVE Places(u)'
      BY <1>7, ZenonT(30) DEF DeleteLock, LockFile, Begin, TypeOK, Exclusive, Holds, Places, Locked
    <2> QED BY <2>1, <2>2, <2>3, Zenon
  <1>8. ASSUME NEW t \in Threads, DeleteGetMeta(t) PROVE LockInv'
    <2> PICK m \in {meta[file[t]], NoFile} :
             /\ of' = [of EXCEPT ![t] = m]
             /\ Goto(t, IF Exists(m) THEN "dMeta" ELSE "unlock")
      BY <1>8, ZenonT(30) DEF DeleteGetMeta
    <2>1. m \in File
      BY <1>8, GetMetaType, ZenonT(30) DEF DeleteGetMeta, Places, Locked
    <2>2. TypeOK'
      BY <1>8, <2>1, ZenonT(30) DEF DeleteGetMeta, Goto, TypeOK, Labels, Locked, redis
    <2>3. Exclusive'
      BY <1>8 DEF DeleteGetMeta, Goto, TypeOK, Exclusive, Holds, Locked, redis
    <2>4. ASSUME NEW u \in Threads PROVE Places(u)'
      BY <1>8, ZenonT(30) DEF DeleteGetMeta, Goto, TypeOK, Places, Locked, redis
    <2> QED BY <2>2, <2>3, <2>4, ZenonT(30)
  <1>9. ASSUME NEW t \in Threads, DeleteMeta(t) PROVE LockInv'
    <2>1. file[t] \in Names /\ NoFile \in Meta \cup {NoFile}
      BY <1>9, MetaFile, Zenon DEF DeleteMeta, TypeOK, Places, Locked
    <2>2. meta' \in [Names -> Meta \cup {NoFile}] /\ stubs' \subseteq Names
      BY <1>9, <2>1, PutMetaType, ZenonT(30) DEF DeleteMeta, RemoveMeta
    <2>3. \A g \in Names \ {file[t]} : meta'[g] = meta[g]
      BY <1>9, <2>1, PutMetaType, ZenonT(60) DEF DeleteMeta, RemoveMeta, MarkFileAsRepaired
    <2>4. TypeOK'
      BY <1>9, <2>2, ZenonT(30) DEF DeleteMeta, RemoveMeta, MarkFileAsRepaired, Goto, TypeOK, Labels, Locked
    <2>5. Exclusive'
      BY <1>9, SMTT(60) DEF DeleteMeta, Goto, TypeOK, Exclusive, Holds, Locked
    <2>6. ASSUME NEW u \in Threads PROVE Places(u)'
      BY <1>9, <2>3, ZenonT(60) DEF DeleteMeta, Goto, TypeOK, Exclusive, Holds, Places, Locked
    <2> QED BY <2>4, <2>5, <2>6, Zenon
  <1>10. ASSUME NEW t \in Threads, DeleteChunks(t) PROVE LockInv'
    <2>1. store' \in [Keys -> Data \cup {Garbage, Nil}]
      BY <1>10, UpdatedType, SMTT(60) DEF DeleteChunks
    <2>2. TypeOK'
      BY <1>10, <2>1, ZenonT(30) DEF DeleteChunks, MarkFileAsRepaired, Goto, TypeOK, Labels, Locked, redis
    <2>3. Exclusive'
      BY <1>10, ZenonT(60) DEF DeleteChunks, Goto, TypeOK, Exclusive, Holds, Locked, redis
    <2>4. ASSUME NEW u \in Threads PROVE Places(u)'
      BY <1>10, ZenonT(30) DEF DeleteChunks, Goto, TypeOK, Places, Locked, redis
    <2> QED BY <2>2, <2>3, <2>4, Zenon
  <1>11. ASSUME NEW t \in Threads, Unlock(t) PROVE LockInv'
    <2>1. TypeOK'
      BY <1>11, NoFileType, ZenonT(30) DEF Unlock, Return, TypeOK, Labels, Locked
    <2>2. Exclusive'
      BY <1>11, ZenonT(30) DEF Unlock, Return, TypeOK, Exclusive, Holds, Locked
    <2>3. ASSUME NEW u \in Threads PROVE Places(u)'
      BY <1>11, NoFileType, ZenonT(30) DEF Unlock, Return, TypeOK, Exclusive, Holds, Places, Locked
    <2> QED BY <2>1, <2>2, <2>3, Zenon
  <1>12. ASSUME NEW t \in Threads, RepairPop(t) PROVE LockInv'
    <2>1. TypeOK'
      BY <1>12, SMTT(60) DEF RepairPop, Goto, TypeOK, Labels, Locked
    <2>2. Exclusive'
      BY <1>12, SMTT(60) DEF RepairPop, Goto, TypeOK, Exclusive, Holds, Locked
    <2>3. ASSUME NEW u \in Threads PROVE Places(u)'
      BY <1>12, ZenonT(30) DEF RepairPop, Goto, TypeOK, Exclusive, Holds, Places, Locked
    <2> QED BY <2>1, <2>2, <2>3, Zenon
  <1>13. ASSUME NEW t \in Threads, RepairLock(t) PROVE LockInv'
    <2> PICK e \in batch[t] :
             /\ LockFile(e[1])
             /\ file' = [file EXCEPT ![t] = e[1]]
             /\ of' = [of EXCEPT ![t].ver = e[2]]
             /\ batch' = [batch EXCEPT ![t] = @ \ {e}]
      BY <1>13, ZenonT(30) DEF RepairLock
    <2>1. e[1] \in Names /\ e[2] \in Versions \cup {-1}
      BY DEF TypeOK
    <2>2. of' \in [Threads -> File]
      BY <2>1, FileFields, ZenonT(30) DEF TypeOK
    <2>3. TypeOK'
      BY <1>13, <2>1, <2>2, Zenon DEF RepairLock, Goto, LockFile, TypeOK, Labels, Locked
    <2>4. Exclusive'
      BY <1>13, <2>1 DEF RepairLock, Goto, LockFile, TypeOK, Exclusive, Holds, Locked
    <2>5. ASSUME NEW u \in Threads PROVE Places(u)'
      BY <1>13, <2>1, Zenon DEF RepairLock, Goto, LockFile, TypeOK, Places, Locked
    <2> QED BY <2>3, <2>4, <2>5, Zenon
  <1>14. ASSUME NEW t \in Threads, RepairBusy(t) PROVE LockInv'
    <2>1. TypeOK'
      BY <1>14, NoFileType, ZenonT(30) DEF RepairBusy, Return, TypeOK, Labels, Locked, redis
    <2>2. Exclusive'
      BY <1>14, ZenonT(30) DEF RepairBusy, Return, TypeOK, Exclusive, Holds, Locked, redis
    <2>3. ASSUME NEW u \in Threads PROVE Places(u)'
      BY <1>14, NoFileType, ZenonT(30) DEF RepairBusy, Return, TypeOK, Exclusive, Holds, Places, Locked, redis
    <2> QED BY <2>1, <2>2, <2>3, Zenon
  <1>15. ASSUME NEW t \in Threads, RepairDone(t) PROVE LockInv'
    <2>1. TypeOK'
      BY <1>15, NoFileType, ZenonT(30) DEF RepairDone, Return, TypeOK, Labels, Locked, redis
    <2>2. Exclusive'
      BY <1>15, ZenonT(30) DEF RepairDone, Return, TypeOK, Exclusive, Holds, Locked, redis
    <2>3. ASSUME NEW u \in Threads PROVE Places(u)'
      BY <1>15, NoFileType, ZenonT(30) DEF RepairDone, Return, TypeOK, Exclusive, Holds, Places, Locked, redis
    <2> QED BY <2>1, <2>2, <2>3, Zenon
  <1>16. ASSUME NEW t \in Threads, RepairGetMeta(t) PROVE LockInv'
    <2> PICK m \in {meta[file[t]], NoFile} :
             IF Exists(m) /\ of[t].ver \in {-1, m.ver}
             THEN /\ of' = [of EXCEPT ![t] = m]
                  /\ wf' = [wf EXCEPT ![t] = m]
                  /\ Goto(t, IF m.data = Empty THEN "pUnlock" ELSE "pFix")
             ELSE Goto(t, "pFail") /\ UNCHANGED <<of, wf>>
      BY <1>16, ZenonT(30) DEF RepairGetMeta
    <2>1. m \in File /\ (Exists(m) => m \in Meta)
      BY <1>16, GetMetaType, ZenonT(30) DEF RepairGetMeta, Places, Locked
    <2>2. TypeOK'
      BY <1>16, <2>1, SMTT(60) DEF RepairGetMeta, Goto, TypeOK, Labels, Locked, redis
    <2>3. Exclusive'
      BY <1>16, SMTT(60) DEF RepairGetMeta, Goto, TypeOK, Exclusive, Holds, Locked, redis
    <2>4. ASSUME NEW u \in Threads PROVE Places(u)'
      BY <1>16, <2>1, SMTT(60) DEF RepairGetMeta, Goto, TypeOK, Places, Locked, redis
    <2> QED BY <2>2, <2>3, <2>4, ZenonT(30)
  <1>17. ASSUME NEW t \in Threads, RepairFix(t) PROVE LockInv'
    <2>1. file[t] \in Names /\ of[t] \in Meta /\ wf[t] \in Meta
      BY <1>17, ZenonT(30) DEF RepairFix, Places, Locked
    <2>2. PICK alive \in Alive(of[t]) : RepairOutcome(t, alive)
      BY <1>17, Zenon DEF RepairFix
    <2> DEFINE input == KeysOf(file[t], of[t], FirstK(alive))
    <2>3. Decode({store[x] : x \in input}) \in Data \cup {Garbage, Nil}
      <3>1. input \subseteq Keys
        BY <2>1, <2>2, KeyType, ZenonT(30) DEF KeysOf, FirstK, Alive
      <3>2. {store[x] : x \in input} \subseteq Data \cup {Garbage, Nil}
        BY <3>1, Zenon DEF TypeOK
      <3> QED BY <3>2, DecodeType, ZenonT(30)
    <2>4. store' = store \/ \E put : store' = Updated(put, Decode({store[x] : x \in input}), {})
      BY <2>2, ZenonT(30) DEF RepairOutcome
    <2>5. store' \in [Keys -> Data \cup {Garbage, Nil}]
      BY <2>3, <2>4, UpdatedType, SMTT(60) DEF TypeOK
    <2>6. wf' = wf \/ \E q \in Ids : wf' = [wf EXCEPT ![t].ids = q]
      <3>1. CASE wf' # wf
        <4>1. PICK p \in Placements(Idx \ alive, {of[t].ids[i] : i \in alive}) :
                 wf' = [wf EXCEPT ![t].ids = [i \in Idx |-> IF i \in Idx \ alive THEN p[i] ELSE @[i]]]
          BY <2>2, <3>1, ZenonT(30) DEF RepairOutcome
        <4>2. wf[t].ids \in Ids /\ wf[t] \in File
          BY <2>1, FileFields, MetaFile, Zenon
        <4>3. [i \in Idx |-> IF i \in Idx \ alive THEN p[i] ELSE wf[t].ids[i]] \in Ids
          BY <4>1, <4>2, Zenon DEF Placements, Ids
        <4> QED BY <4>1, <4>3, ZenonT(30) DEF TypeOK
      <3> QED BY <3>1, Zenon
    <2>7. wf'[t] \in Meta /\ wf' \in [Threads -> File]
      BY <2>1, <2>6, FileFields, MetaFile, SMTT(60) DEF TypeOK, Meta
    <2>8. pc' \in {[pc EXCEPT ![t] = "pMeta"], [pc EXCEPT ![t] = "pFail"]}
      BY <2>2, ZenonT(30) DEF RepairOutcome, Goto
    <2>9. TypeOK'
      BY <1>17, <2>5, <2>7, <2>8, ZenonT(30) DEF RepairFix, TypeOK, Labels, Locked, redis
    <2>10. Exclusive'
      BY <1>17, <2>8, SMTT(60) DEF RepairFix, TypeOK, Exclusive, Holds, Locked, redis
    <2>11. ASSUME NEW u \in Threads PROVE Places(u)'
      BY <1>17, <2>1, <2>6, <2>7, <2>8, ZenonT(30) DEF RepairFix, TypeOK, Places, Locked, redis
    <2> QED BY <2>9, <2>10, <2>11, Zenon
  <1>18. ASSUME NEW t \in Threads, RepairPutMeta(t) PROVE LockInv'
    <2>1. file[t] \in Names /\ wf[t] \in Meta \cup {NoFile}
      BY <1>18, MetaFile, ZenonT(30) DEF RepairPutMeta, TypeOK, Places, Locked
    <2>2. meta' \in [Names -> Meta \cup {NoFile}] /\ stubs' \subseteq Names
      BY <1>18, <2>1, PutMetaType, ZenonT(30) DEF RepairPutMeta
    <2>3. \A g \in Names \ {file[t]} : meta'[g] = meta[g]
      BY <1>18, <2>1, PutMetaType, ZenonT(60) DEF RepairPutMeta
    <2>4. TypeOK'
      BY <1>18, <2>2, ZenonT(30) DEF RepairPutMeta, Goto, TypeOK, Labels, Locked
    <2>5. Exclusive'
      BY <1>18, SMTT(60) DEF RepairPutMeta, Goto, TypeOK, Exclusive, Holds, Locked
    <2>6. ASSUME NEW u \in Threads PROVE Places(u)'
      BY <1>18, <2>3, ZenonT(60) DEF RepairPutMeta, Goto, TypeOK, Exclusive, Holds, Places, Locked
    <2> QED BY <2>4, <2>5, <2>6, Zenon
  <1>19. ASSUME NEW t \in Threads, RepairUnlock(t) PROVE LockInv'
    <2>1. /\ fileLock' = fileLock \ {file[t]}
          /\ pc' = [pc EXCEPT ![t] = IF pc[t] = "pFail" THEN "idle" ELSE "pLock"]
          /\ file' = [file EXCEPT ![t] = Nil]
          /\ of' = [of EXCEPT ![t] = NoFile]
          /\ wf' = [wf EXCEPT ![t] = NoFile]
      BY <1>19, Zenon DEF RepairUnlock, Goto, Return
    <2>2. todo' \in [Threads -> SUBSET Idx] /\ got' \in [Threads -> SUBSET (Idx \X (Data \cup {Garbage, Nil}))]
      BY <1>19, ZenonT(30) DEF RepairUnlock, Return, TypeOK
    <2>3. batch' \in [Threads -> SUBSET (Names \X (Versions \cup {-1}))]
      BY <1>19, ZenonT(30) DEF RepairUnlock, Return, TypeOK
    <2>4. TypeOK'
      BY <1>19, <2>1, <2>2, <2>3, NoFileType, ZenonT(30) DEF RepairUnlock, TypeOK, Labels, Locked
    <2>5. Exclusive'
      BY <1>19, <2>1, SMTT(60) DEF RepairUnlock, TypeOK, Exclusive, Holds, Locked
    <2>6. \A u \in Threads \ {t} : todo'[u] = todo[u]
      BY <1>19, SMTT(60) DEF RepairUnlock, Return, TypeOK
    <2>7. ASSUME NEW u \in Threads PROVE Places(u)'
      BY <1>19, <2>1, <2>6, ZenonT(30) DEF RepairUnlock, TypeOK, Places, Locked
    <2> QED BY <2>4, <2>5, <2>7, Zenon
  <1>20. ASSUME NEW t \in Threads, NEW f \in Names, ReadGetMeta(t, f) PROVE LockInv'
    <2>1. meta[f] \in Meta
      BY <1>20, NoFileType, ZenonT(30) DEF ReadGetMeta, TypeOK
    <2>2. PICK alive \in Alive(meta[f]) : todo' = [todo EXCEPT ![t] = alive]
      BY <1>20, ZenonT(30) DEF ReadGetMeta
    <2>3. alive \subseteq Stored(meta[f]) /\ alive \subseteq Idx
      BY Zenon DEF Alive, Stored
    <2>4. TypeOK'
      BY <1>20, <2>1, <2>2, <2>3, MetaFile, ZenonT(30) DEF ReadGetMeta, Begin, TypeOK, Labels, Locked, redis
    <2>5. Exclusive'
      BY <1>20, ZenonT(30) DEF ReadGetMeta, Begin, TypeOK, Exclusive, Holds, Locked, redis
    <2>6. ASSUME NEW u \in Threads PROVE Places(u)'
      BY <1>20, <2>1, <2>2, <2>3, ZenonT(30) DEF ReadGetMeta, Begin, TypeOK, Places, Locked, redis
    <2> QED BY <2>4, <2>5, <2>6, Zenon
  <1>21. ASSUME NEW t \in Threads, ReadChunk(t) PROVE LockInv'
    <2>1. file[t] \in Names /\ of[t] \in Meta /\ todo[t] \subseteq Stored(of[t])
      BY <1>21, ZenonT(30) DEF ReadChunk, Places
    <2>2. PICK i \in todo[t] : ReadReply(t, i)
      BY <1>21, ZenonT(30) DEF ReadChunk
    <2>3. store[KeyOf(file[t], of[t], i)] \in Data \cup {Garbage, Nil} /\ i \in Idx
      BY <2>1, <2>2, KeyType, ZenonT(30) DEF TypeOK
    <2>4. CASE Return(t) /\ UNCHANGED <<redis, store, batch>>
      <3>1. TypeOK'
        BY <2>4, NoFileType, ZenonT(30) DEF Return, TypeOK, Labels, Locked, redis
      <3>2. Exclusive'
        BY <1>21, <2>4, ZenonT(30) DEF ReadChunk, Return, TypeOK, Exclusive, Holds, Locked, redis
      <3>3. ASSUME NEW u \in Threads PROVE Places(u)'
        BY <2>4, ZenonT(30) DEF Return, TypeOK, Places, Locked, redis
      <3> QED BY <3>1, <3>2, <3>3, Zenon
    <2>5. CASE ~Return(t)
      <3>1. /\ UNCHANGED <<redis, store, batch, file, of, wf>>
            /\ todo' = [todo EXCEPT ![t] = @ \ {i}]
            /\ got' \in {got, [got EXCEPT ![t] = @ \cup {<<i, store[KeyOf(file[t], of[t], i)]>>}]}
            /\ pc' \in {pc, [pc EXCEPT ![t] = "gEnd"], [pc EXCEPT ![t] = "gChk"]}
        BY <1>21, <2>2, <2>5, ZenonT(30) DEF ReadChunk, ReadReply, Goto
      <3>2. TypeOK'
        BY <2>3, <3>1, SMTT(60) DEF TypeOK, Labels, Locked, redis
      <3>3. Exclusive'
        BY <1>21, <3>1, SMTT(60) DEF ReadChunk, TypeOK, Exclusive, Holds, Locked, redis
      <3>4. ASSUME NEW u \in Threads PROVE Places(u)'
        BY <1>21, <2>1, <3>1, ZenonT(30) DEF ReadChunk, TypeOK, Places, Locked, redis
      <3> QED BY <3>2, <3>3, <3>4, Zenon
    <2> QED BY <1>21, <2>4, <2>5, ZenonT(30) DEF ReadChunk
  <1>22. ASSUME NEW t \in Threads, ReadEnd(t) PROVE LockInv'
    <2>1. file[t] \in Names /\ stubs' \subseteq Names
      BY <1>22, ZenonT(30) DEF ReadEnd, UpdateTimestamps, TypeOK, Places
    <2>2. TypeOK'
      BY <1>22, <2>1, NoFileType, ZenonT(30) DEF ReadEnd, UpdateTimestamps, Return, TypeOK, Labels, Locked
    <2>3. Exclusive'
      BY <1>22, ZenonT(30) DEF ReadEnd, Return, TypeOK, Exclusive, Holds, Locked
    <2>4. ASSUME NEW u \in Threads PROVE Places(u)'
      BY <1>22, ZenonT(30) DEF ReadEnd, Return, TypeOK, Places, Locked
    <2> QED BY <2>2, <2>3, <2>4, Zenon
  <1>23. ASSUME NEW f \in Names, ScanMark(f) PROVE LockInv'
    <2>1. meta[f].ver \in Versions
      BY <1>23, NoFileType, ZenonT(30) DEF ScanMark, TypeOK, Meta
    <2>2. TypeOK'
      <3>1. repairQ' \subseteq Names \X (Versions \cup {-1})
        BY <1>23, <2>1, SMTT(60) DEF ScanMark, MarkFileAsNeedsRepair, TypeOK
      <3> QED BY <1>23, <3>1, ZenonT(30) DEF ScanMark, TypeOK
    <2>3. Exclusive'
      BY <1>23, ZenonT(30) DEF ScanMark, Exclusive, Holds
    <2>4. ASSUME NEW u \in Threads PROVE Places(u)'
      BY <1>23, ZenonT(30) DEF ScanMark, Places
    <2> QED BY <2>2, <2>3, <2>4, Zenon
  <1>24. CASE Crash
    <2>1. TypeOK'
      BY <1>24, NoFileType, ZenonT(30) DEF Crash, TypeOK, Labels, redis
    <2>2. Exclusive'
      BY <1>24, ZenonT(30) DEF Crash, Exclusive, Locked
    <2>3. ASSUME NEW u \in Threads PROVE Places(u)'
      BY <1>24, ZenonT(30) DEF Crash, Places, Locked
    <2> QED BY <2>1, <2>2, <2>3, Zenon
  <1>25. CASE UNCHANGED vars
    <2>1. TypeOK' /\ Exclusive'
      BY <1>25, ZenonT(30) DEF vars, TypeOK, Exclusive, Holds
    <2>2. ASSUME NEW u \in Threads PROVE Places(u)'
      BY <1>25, ZenonT(30) DEF vars, Places
    <2> QED BY <2>1, <2>2, Zenon
  <1> QED
    BY <1>1, <1>2, <1>3, <1>4, <1>5, <1>6, <1>7, <1>8, <1>9, <1>10, <1>11, <1>12, <1>13, <1>14, <1>15, <1>16, <1>17, <1>18, <1>19, <1>20, <1>21, <1>22, <1>23, <1>24, <1>25, ZenonT(30)
    DEF Next, Start, Step

\* Every variable keeps its type in every behaviour: TypeOK.
THEOREM TypeCorrect == Spec => []TypeOK
  <1>1. LockInv => TypeOK
    BY Zenon DEF LockInv
  <1> QED BY LockInvInit, LockInvNext, <1>1, PTL DEF Spec

\* The locks of FILE_LOCK_KEY exclude: no two threads are ever in the locked part
\* of an operation on one file, whatever fails and whenever the proxy dies.
THEOREM LocksExclude == Spec => []Exclusive
  <1>1. LockInv => Exclusive
    BY Zenon DEF LockInv
  <1> QED BY LockInvInit, LockInvNext, <1>1, PTL DEF Spec

-----------------------------------------------------------------------------
(***************************************************************************)
(* Release.  Every step of a thread keeps its file locked and itself in    *)
(* the locked part, or unlocks the file and leaves.                        *)
(***************************************************************************)
\* After a step of t, what is locked is held by t, or was locked by another thread.
Released(t) ==
    /\ \A u \in Threads \ {t} : pc'[u] = pc[u] /\ file'[u] = file[u]
    /\ \A f \in fileLock' : Holds(t, f)' \/ (f \in fileLock /\ ~Holds(t, f))

\* A step after which nobody has left a lock behind.
LEMMA ReleasedStep ==
  ASSUME NoLeakedLock, NEW t \in Threads, Released(t)
  PROVE  NoLeakedLock'
  BY ZenonT(30) DEF NoLeakedLock, Released, Holds

\* Every step of an operation, the crash of the proxy apart, keeps NoLeakedLock.
LEMMA NoLeakedLockNext ==
  ASSUME "crash" \notin Faults, TypeOK, NoLeakedLock, [Next]_vars
  PROVE  NoLeakedLock'
  <1>1. ASSUME NEW t \in Threads, NEW f \in Names, NEW d, WriteLock(t, f, d) PROVE Released(t)
    BY <1>1, Zenon DEF WriteLock, LockFile, Begin, Released, Holds, Locked, TypeOK
  <1>2. ASSUME NEW t \in Threads, WriteGetMeta(t) PROVE Released(t)
    BY <1>2, Zenon DEF WriteGetMeta, Goto, redis, Released, Holds, Locked, TypeOK
  <1>3. ASSUME NEW t \in Threads, WriteStripes(t) PROVE Released(t)
    BY <1>3, Zenon DEF WriteStripes, WriteOutcome, Goto, redis, Released, Holds, Locked, TypeOK
  <1>4. ASSUME NEW t \in Threads, WriteNoSpace(t) PROVE Released(t)
    BY <1>4, ZenonT(30) DEF WriteNoSpace, Goto, redis, Released, Holds, Locked, TypeOK
  <1>5. ASSUME NEW t \in Threads, WritePutMeta(t) PROVE Released(t)
    BY <1>5, ZenonT(30) DEF WritePutMeta, Goto, Released, Holds, Locked, TypeOK
  <1>6. ASSUME NEW t \in Threads, WriteDeleteOld(t) PROVE Released(t)
    BY <1>6, ZenonT(30) DEF WriteDeleteOld, Goto, redis, Released, Holds, Locked, TypeOK
  <1>7. ASSUME NEW t \in Threads, NEW f \in Names, DeleteLock(t, f) PROVE Released(t)
    BY <1>7, ZenonT(30) DEF DeleteLock, LockFile, Begin, Released, Holds, Locked, TypeOK
  <1>8. ASSUME NEW t \in Threads, DeleteGetMeta(t) PROVE Released(t)
    BY <1>8, ZenonT(30) DEF DeleteGetMeta, Goto, redis, Released, Holds, Locked, TypeOK
  <1>9. ASSUME NEW t \in Threads, DeleteMeta(t) PROVE Released(t)
    BY <1>9, ZenonT(30) DEF DeleteMeta, Goto, Released, Holds, Locked, TypeOK
  <1>10. ASSUME NEW t \in Threads, DeleteChunks(t) PROVE Released(t)
    BY <1>10, ZenonT(30) DEF DeleteChunks, Goto, Released, Holds, Locked, TypeOK
  <1>11. ASSUME NEW t \in Threads, Unlock(t) PROVE Released(t)
    BY <1>11, ZenonT(30) DEF Unlock, Return, Released, Holds, Locked, TypeOK
  <1>12. ASSUME NEW t \in Threads, RepairPop(t) PROVE Released(t)
    BY <1>12, ZenonT(30) DEF RepairPop, Goto, Released, Holds, Locked, TypeOK
  <1>13. ASSUME NEW t \in Threads, RepairLock(t) PROVE Released(t)
    BY <1>13, ZenonT(30) DEF RepairLock, LockFile, Goto, Released, Holds, Locked, TypeOK
  <1>14. ASSUME NEW t \in Threads, RepairBusy(t) PROVE Released(t)
    BY <1>14, ZenonT(30) DEF RepairBusy, Return, redis, Released, Holds, Locked, TypeOK
  <1>15. ASSUME NEW t \in Threads, RepairDone(t) PROVE Released(t)
    BY <1>15, ZenonT(30) DEF RepairDone, Return, redis, Released, Holds, Locked, TypeOK
  <1>16. ASSUME NEW t \in Threads, RepairGetMeta(t) PROVE Released(t)
    BY <1>16, ZenonT(30) DEF RepairGetMeta, Goto, redis, Released, Holds, Locked, TypeOK
  <1>17. ASSUME NEW t \in Threads, RepairFix(t) PROVE Released(t)
    BY <1>17, ZenonT(30) DEF RepairFix, RepairOutcome, Goto, redis, Released, Holds, Locked, TypeOK
  <1>18. ASSUME NEW t \in Threads, RepairPutMeta(t) PROVE Released(t)
    BY <1>18, ZenonT(30) DEF RepairPutMeta, Goto, Released, Holds, Locked, TypeOK
  <1>19. ASSUME NEW t \in Threads, RepairUnlock(t) PROVE Released(t)
    BY <1>19, SMTT(60) DEF RepairUnlock, Goto, Return, Released, Holds, Locked, TypeOK
  <1>20. ASSUME NEW t \in Threads, NEW f \in Names, ReadGetMeta(t, f) PROVE Released(t)
    BY <1>20, ZenonT(30) DEF ReadGetMeta, Begin, redis, Released, Holds, Locked, TypeOK
  <1>21. ASSUME NEW t \in Threads, ReadChunk(t) PROVE Released(t)
    BY <1>21, ZenonT(30) DEF ReadChunk, ReadReply, Goto, Return, redis, Released, Holds, Locked, TypeOK
  <1>22. ASSUME NEW t \in Threads, ReadEnd(t) PROVE Released(t)
    BY <1>22, ZenonT(30) DEF ReadEnd, Return, Released, Holds, Locked, TypeOK
  <1>23. ASSUME NEW f \in Names, ScanMark(f) PROVE NoLeakedLock'
    BY <1>23, ZenonT(30) DEF ScanMark, NoLeakedLock, Holds
  <1>24. CASE UNCHANGED vars
    BY <1>24, ZenonT(30) DEF vars, NoLeakedLock, Holds
  <1>25. ~Crash
    BY Zenon DEF Crash
  <1>26. ASSUME NEW t \in Threads, Start(t) PROVE Released(t)
    BY <1>1, <1>7, <1>12, <1>20, <1>26, Zenon DEF Start
  <1>27. ASSUME NEW t \in Threads, Step(t) PROVE Released(t)
    BY <1>2, <1>3, <1>4, <1>5, <1>6, <1>8, <1>9, <1>10, <1>11, <1>13, <1>14, <1>15, <1>16, <1>17, <1>18, <1>19, <1>21, <1>22, <1>27, ZenonT(30) DEF Step
  <1> QED BY <1>23, <1>24, <1>25, <1>26, <1>27, ReleasedStep, ZenonT(30) DEF Next

\* Every lock is released: as long as the proxy does not die, each file in the
\* Redis set of locked files has a thread that is going to unlock it, on every
\* error path of writeFile, deleteFile and repairFile.
THEOREM LocksReleased ==
  ASSUME "crash" \notin Faults
  PROVE  Spec => []NoLeakedLock
  <1>1. Init => NoLeakedLock
    BY Zenon DEF Init, NoLeakedLock
  <1>2. TypeOK /\ NoLeakedLock /\ [Next]_vars => NoLeakedLock'
    BY NoLeakedLockNext, Zenon
  <1> QED BY <1>1, <1>2, TypeCorrect, PTL DEF Spec

-----------------------------------------------------------------------------
(***************************************************************************)
(* Chunks: what the proofs about files share.                              *)
(***************************************************************************)
\* The store s has what the metadata m of file f names, and it is enough.
Backed(s, f, m) ==
    m.data # Empty =>
        /\ Stored(m) \in KSets
        /\ \A i \in Stored(m) : s[KeyOf(f, m, i)] = m.data

\* Chunks of other files or other versions make no difference to m.
LEMMA BackedElsewhere ==
  ASSUME NEW g \in Names, NEW m \in Meta, NEW put, NEW del, NEW d,
         \A x \in put \cup del : x[2] # g \/ x[3] # m.ver,
         Backed(store, g, m)
  PROVE  Backed(Updated(put, d, del), g, m)
  <1>1. ASSUME NEW i \in Stored(m) PROVE Updated(put, d, del)[KeyOf(g, m, i)] = store[KeyOf(g, m, i)]
    <2>1. KeyOf(g, m, i) \in Keys
      BY <1>1, KeyType, Zenon
    <2>2. KeyOf(g, m, i) \notin put \cup del
      BY Zenon DEF KeyOf
    <2> QED BY <2>1, <2>2, Zenon DEF Updated
  <1> QED BY <1>1, Zenon DEF Backed

\* The keys of KeysOf belong to the file and the version.
LEMMA KeysOfName ==
  ASSUME NEW f, NEW m, NEW S
  PROVE  \A x \in KeysOf(f, m, S) : x[2] = f /\ x[3] = m.ver
  BY DEF KeysOf, KeyOf

\* The same, for the name alone.
LEMMA KeysNamed == \A f, m, S : \A x \in KeysOf(f, m, S) : x[2] = f
  BY KeysOfName

\* Chunks of one payload decode to it.
LEMMA DecodeOne == \A d : Decode({d}) = d
  BY Zenon DEF Decode

\* What the proofs need to know of sets of chunk indices that are enough to decode.
\* It holds for all coding parameters, by facts about finite sets: DecodableAlways.
Decodable ==
    /\ \A S \in KSets : FirstK(S) # {} /\ FirstK(S) \subseteq S
    /\ \A n \in K .. N : 0 .. n - 1 \in KSets

-----------------------------------------------------------------------------
(***************************************************************************)
(* Durability.  The lock is what makes it inductive: what a thread read of *)
(* the metadata of its file is still stored when it acts upon it, so that  *)
(* the chunks a write stores are of a version no metadata names, and those *)
(* it deletes of a version no metadata names any more.  That a failed      *)
(* getMeta is taken for a missing file breaks this, so "getMeta" is not    *)
(* among the faults.                                                       *)
(***************************************************************************)
\* What a thread knows of its file where it changes chunks or metadata.
Duties(t) ==
    /\ pc[t] \in {"wPut", "wMeta"} => of[t] = meta[file[t]] /\ wf[t].ver = meta[file[t]].ver + 1
    /\ pc[t] = "wMeta" => Backed(store, file[t], wf[t])
    /\ pc[t] = "wDel" => of[t].ver # meta[file[t]].ver
    /\ pc[t] = "dDel" => ~Exists(meta[file[t]])
    /\ pc[t] \in {"pFix", "pMeta"} =>
          /\ of[t] = meta[file[t]] /\ of[t].data # Empty
          /\ wf[t].ver = of[t].ver /\ wf[t].data = of[t].data
    /\ pc[t] = "pFix" => wf[t] = of[t]
    /\ pc[t] = "pMeta" => Backed(store, file[t], wf[t])

DataInv == Durable /\ \A t \in Threads : Duties(t)

\* Durable, one file at a time.
LEMMA DurableBacked ==
  /\ Durable <=> \A f \in Names : Exists(meta[f]) => Backed(store, f, meta[f])
  /\ Durable' <=> \A f \in Names : Exists(meta'[f]) => Backed(store', f, meta'[f])
  BY Zenon DEF Durable, Backed, Exists, Stored, KeyOf

\* A set that is large enough to decode has a first element.
LEMMA FirstKNonempty ==
  ASSUME NEW S \in KSets
  PROVE  FirstK(S) # {} /\ FirstK(S) \subseteq S
  <1>1. S \subseteq Nat /\ Cardinality(S) >= K
    BY CodingAssumption DEF KSets, Idx
  <1>2. S # {}
    BY <1>1, FS_EmptySet, CodingAssumption
  <1>3. PICK n \in S : \A j \in S : ~(<<j, n>> \in OpToRel(<, Nat))
    BY <1>1, <1>2, NatLessThanWellFounded, WFMin, ZenonT(30)
  <1>4. {j \in S : j < n} = {}
    BY <1>1, <1>3, ZenonT(30) DEF OpToRel
  <1>5. n \in FirstK(S)
    BY <1>1, <1>4, FS_EmptySet, CodingAssumption, SMTT(30) DEF FirstK
  <1> QED BY <1>5, Zenon DEF FirstK

\* N chunks, or K of them, are enough to decode.
LEMMA IntervalKSets ==
  ASSUME NEW n \in K .. N
  PROVE  0 .. n - 1 \in KSets
  <1>1. Cardinality(0 .. n - 1) = n
    BY FS_Interval, CodingAssumption
  <1>2. 0 .. n - 1 \subseteq Idx
    BY CodingAssumption DEF Idx
  <1> QED BY <1>1, <1>2, CodingAssumption DEF KSets

\* Both, for the proofs that do without the library of finite sets.
LEMMA DecodableAlways == Decodable
  BY FirstKNonempty, IntervalKSets, Zenon DEF Decodable

\* What a repair restores is the payload of the file.
LEMMA RestoredPayload ==
  ASSUME NEW f \in Names, NEW m \in Meta, m.data # Empty, Backed(store, f, m),
         NEW S \in KSets, S \subseteq Stored(m)
  PROVE  Decode({store[x] : x \in KeysOf(f, m, FirstK(S))}) = m.data
  <1> DEFINE input == KeysOf(f, m, FirstK(S))
  <1>1. \A x \in input : store[x] = m.data
    BY FirstKNonempty, ZenonT(30) DEF KeysOf, Backed
  <1>2. input # {}
    BY FirstKNonempty, SMTT(60) DEF KeysOf
  <1>3. {store[x] : x \in input} = {m.data}
    BY <1>1, <1>2, ZenonT(30)
  <1> QED BY <1>3, DecodeOne, ZenonT(30)

\* A step of one thread leaves the others as they are.
Steady(t) ==
    \A u \in Threads \ {t} : pc'[u] = pc[u] /\ file'[u] = file[u] /\ of'[u] = of[u] /\ wf'[u] = wf[u]

\* A step that changes neither metadata nor chunks.
LEMMA QuietStep ==
  ASSUME DataInv, UNCHANGED <<meta, store>>, NEW t \in Threads, Steady(t), Duties(t)'
  PROVE  DataInv'
  <1>1. Durable'
    BY DurableBacked, ZenonT(30) DEF DataInv
  <1>2. ASSUME NEW u \in Threads \ {t} PROVE Duties(u)'
    BY <1>2, SMTT(60) DEF DataInv, Duties, Steady
  <1> QED BY <1>1, <1>2, Zenon DEF DataInv

\* A step of a thread that has its file locked, and changes nothing else.
LEMMA LockedStep ==
  ASSUME LockInv, DataInv, NEW t \in Threads, pc[t] \in Locked, Steady(t),
         \A g \in Names \ {file[t]} : meta'[g] = meta[g],
         \A g \in Names \ {file[t]} : \A m \in Meta : Backed(store, g, m) => Backed(store', g, m),
         Exists(meta'[file[t]]) => Backed(store', file[t], meta'[file[t]]),
         Duties(t)'
  PROVE  DataInv'
  <1>1. Durable'
    <2>1. \A g \in Names \ {file[t]} : Exists(meta[g]) => meta[g] \in Meta /\ Backed(store, g, meta[g])
      BY DurableBacked, NoFileType, ZenonT(30) DEF LockInv, TypeOK, DataInv
    <2> QED BY <2>1, DurableBacked, Zenon
  <1>2. ASSUME NEW u \in Threads \ {t} PROVE Duties(u)'
    <2>1. CASE pc[u] \notin Locked
      BY <1>2, <2>1, ZenonT(30) DEF Steady, Duties, Locked
    <2>2. CASE pc[u] \in Locked
      <3>1. file[u] \in Names \ {file[t]}
        BY <1>2, <2>2, ZenonT(30) DEF LockInv, Exclusive, Holds, Places
      <3>2. pc[u] \in {"wMeta", "pMeta"} => wf[u] \in Meta
        BY <1>2, MetaFile, ZenonT(30) DEF LockInv, Places, TypeOK
      <3>3. Duties(u)
        BY <1>2, ZenonT(30) DEF DataInv
      <3>4. pc[u] \in {"wMeta", "pMeta"} => Backed(store', file[u], wf[u])
        BY <3>1, <3>2, <3>3, ZenonT(30) DEF Duties
      <3> QED BY <1>2, <3>1, <3>3, <3>4, ZenonT(30) DEF Steady, Duties
    <2> QED BY <2>1, <2>2, ZenonT(30)
  <1> QED BY <1>1, <1>2, Zenon DEF DataInv

\* Every step keeps DataInv.
LEMMA DataInvNext ==
  ASSUME "getMeta" \notin Faults
  PROVE  LockInv /\ DataInv /\ [Next]_vars => DataInv'
  <1> SUFFICES ASSUME LockInv, DataInv, [Next]_vars PROVE DataInv'
    BY Zenon
  <1>0. TypeOK /\ Durable /\ \A t \in Threads : Places(t) /\ Duties(t)
    BY Zenon DEF LockInv, DataInv
  <1> USE <1>0
  <1>1. ASSUME NEW t \in Threads, NEW f \in Names, NEW d \in Data \cup {Empty}, WriteLock(t, f, d) PROVE DataInv'
    <2>1. Steady(t) /\ UNCHANGED <<meta, store>>
      BY <1>1, Zenon DEF WriteLock, LockFile, Begin, Steady, TypeOK
    <2>2. Duties(t)'
      BY <1>1, ZenonT(30) DEF WriteLock, LockFile, Begin, Duties, TypeOK
    <2> QED BY <2>1, <2>2, QuietStep, Zenon
  <1>2. ASSUME NEW t \in Threads, WriteGetMeta(t) PROVE DataInv'
    <2>1. Steady(t) /\ UNCHANGED <<meta, store>>
      BY <1>2, ZenonT(30) DEF WriteGetMeta, Goto, Steady, TypeOK, redis
    <2>2. wf[t] \in File /\ meta[file[t]] \in File /\ meta[file[t]].ver + 1 \in Versions
      BY <1>2, NoFileType, MetaFile, FileFields, VersionAssumption, SMTT(60)
      DEF WriteGetMeta, Places, TypeOK, Versions, Locked
    <2>3. of'[t] = meta[file[t]] /\ wf'[t] = [wf[t] EXCEPT !.ver = meta[file[t]].ver + 1]
      BY <1>2, ZenonT(30) DEF WriteGetMeta, GetMeta, TypeOK
    <2>4. wf'[t].ver = meta[file[t]].ver + 1 /\ wf'[t].data = wf[t].data
      BY <2>2, <2>3, FileFields
    <2>5. Duties(t)'
      BY <1>2, <2>1, <2>3, <2>4, ZenonT(30) DEF WriteGetMeta, Goto, Duties, Backed, TypeOK
    <2> QED BY <2>1, <2>5, QuietStep, Zenon
  <1>3. ASSUME NEW t \in Threads, WriteStripes(t) PROVE DataInv'
    <2> DEFINE f == file[t]
    <2>1. f \in Names /\ wf[t] \in Meta /\ wf[t].data # Empty
      BY <1>3, MetaFile, ValueAssumption, ZenonT(30) DEF WriteStripes, TypeOK, Places, Locked
    <2>2. PICK numSpare \in K .. N : \E p \in Placements(0 .. numSpare - 1, {}) :
             \E done \in SUBSET DOMAIN p : \E ack \in Acked(p, DOMAIN p, done) : WriteOutcome(t, p, done, ack)
      BY <1>3, Zenon DEF WriteStripes
    <2>3. PICK p, done, ack :
             /\ p \in [0 .. numSpare - 1 -> Containers] /\ ack \subseteq done /\ done \subseteq 0 .. numSpare - 1
             /\ WriteOutcome(t, p, done, ack)
      BY <2>2, ZenonT(30) DEF Placements, Acked
    <2> DEFINE q == [i \in Idx |-> IF i \in ack THEN p[i] ELSE INVALID_CONTAINER_ID]
               w == [wf[t] EXCEPT !.ids = q]
               put == {<<p[i], f, wf[t].ver, i>> : i \in done}
    <2>4. 0 .. numSpare - 1 \in KSets /\ 0 .. numSpare - 1 \subseteq Idx
      BY IntervalKSets, Zenon DEF KSets
    <2>5. q \in Ids /\ wf[t] \in File
      BY <2>1, <2>3, MetaFile, ZenonT(30) DEF Ids
    <2>6. w \in Meta /\ w.ids = q /\ w.ver = wf[t].ver /\ w.data = wf[t].data
      BY <2>1, <2>5, FileFields, MetaFile, Zenon DEF Meta
    <2>7. Stored(w) = ack
      BY <2>3, <2>4, <2>6, ValueAssumption, SMTT(30) DEF Stored
    <2>8. PICK del : store' = Updated(put, wf[t].data, KeysOf(f, w, del))
      <3>1. {} = KeysOf(f, w, {})
        BY Zenon DEF KeysOf
      <3> QED BY <2>3, <3>1, ZenonT(30) DEF WriteOutcome
    <2>9. \A x \in put \cup KeysOf(f, w, del) : x[2] = f /\ x[3] = wf[t].ver
      <3>1. \A x \in put : x[2] = f /\ x[3] = wf[t].ver
        OBVIOUS
      <3>2. \A m, S : \A x \in KeysOf(f, m, S) : x[2] = f /\ x[3] = m.ver
        BY KeysOfName, ZenonT(30)
      <3> HIDE DEF w
      <3> QED BY <2>6, <3>1, <3>2, SMTT(60)
    <2>10. Steady(t) /\ meta' = meta
      BY <1>3, <2>3, ZenonT(30) DEF WriteStripes, WriteOutcome, Goto, Steady, TypeOK, redis
    <2>11. \A g \in Names \ {f} : \A m \in Meta : Backed(store, g, m) => Backed(store', g, m)
      BY <2>8, <2>9, BackedElsewhere, SMTT(20)
    <2>12. Exists(meta[f]) => Backed(store', f, meta[f])
      <3>1. ASSUME Exists(meta[f]) PROVE meta[f] \in Meta /\ Backed(store, f, meta[f]) /\ wf[t].ver # meta[f].ver
        BY <1>3, <2>1, <3>1, NoFileType, DurableBacked, SMTT(60) DEF WriteStripes, Duties, TypeOK, Meta, Versions
      <3> QED BY <2>1, <2>8, <2>9, <3>1, BackedElsewhere, ZenonT(30)
    <2>13. Duties(t)'
      <3>1. CASE StripeStands(DOMAIN p, ack)
        <4>1. wf' = [wf EXCEPT ![t] = w] /\ pc'[t] = "wMeta" /\ store' = Updated(put, wf[t].data, {})
          BY <1>3, <2>3, <3>1, ZenonT(30) DEF WriteOutcome, Goto, TypeOK
        <4>2. wf'[t] = w
          BY <4>1, Zenon DEF TypeOK
        <4>3. ack \in KSets
          BY <2>3, <2>4, <3>1, Zenon DEF StripeStands
        <4>4. ASSUME NEW i \in ack PROVE store'[KeyOf(f, w, i)] = w.data
          <5>1. KeyOf(f, w, i) \in Keys
            BY <2>1, <2>6, <2>7, KeyType, ZenonT(30)
          <5>2. KeyOf(f, w, i) \in put
            BY <2>3, <2>4, <2>6, Zenon DEF KeyOf
          <5> QED BY <2>6, <4>1, <5>1, <5>2, ZenonT(30) DEF Updated
        <4>5. Backed(store', f, w)
          BY <2>7, <4>3, <4>4, Zenon DEF Backed
        <4> QED BY <1>3, <2>6, <2>10, <4>1, <4>2, <4>5, ZenonT(30) DEF WriteStripes, Duties, TypeOK
      <3>2. CASE ~StripeStands(DOMAIN p, ack)
        BY <2>3, <3>2, ZenonT(60) DEF WriteOutcome, Goto, Duties, TypeOK
      <3> QED BY <3>1, <3>2, Zenon
    <2> QED BY <1>3, <2>10, <2>11, <2>12, <2>13, LockedStep, ZenonT(30) DEF WriteStripes, Locked
  <1>4. ASSUME NEW t \in Threads, WriteNoSpace(t) PROVE DataInv'
    <2>1. Steady(t) /\ UNCHANGED <<meta, store>>
      BY <1>4, Zenon DEF WriteNoSpace, Goto, Steady, TypeOK, redis
    <2>2. Duties(t)'
      BY <1>4, ZenonT(30) DEF WriteNoSpace, Goto, Duties, TypeOK, redis
    <2> QED BY <2>1, <2>2, QuietStep, Zenon
  <1>5. ASSUME NEW t \in Threads, WritePutMeta(t) PROVE DataInv'
    <2>1. file[t] \in Names /\ wf[t] \in Meta \cup {NoFile}
      BY <1>5, MetaFile, ZenonT(30) DEF WritePutMeta, TypeOK, Places, Locked
    <2>2. PICK okay \in BOOLEAN : PutMeta(file[t], wf[t], okay) /\ pc' = [pc EXCEPT ![t] = IF okay /\ Exists(of[t]) THEN "wDel" ELSE "unlock"]
      BY <1>5, ZenonT(30) DEF WritePutMeta, Goto
    <2>3. /\ \A g \in Names \ {file[t]} : meta'[g] = meta[g]
          /\ meta'[file[t]] \in {meta[file[t]], wf[t]} /\ (okay => meta'[file[t]] = wf[t])
      BY <2>1, <2>2, PutMetaType, SMTT(60)
    <2>4. Steady(t) /\ store' = store
      BY <1>5, ZenonT(30) DEF WritePutMeta, Goto, Steady, TypeOK
    <2>5. Exists(meta'[file[t]]) => Backed(store', file[t], meta'[file[t]])
      BY <1>5, <2>1, <2>3, <2>4, NoFileType, DurableBacked, ZenonT(60) DEF WritePutMeta, Duties
    <2>6. Duties(t)'
      BY <1>5, <2>1, <2>2, <2>3, <2>4, NoFileType, FileFields, SMTT(60) DEF WritePutMeta, Duties, TypeOK, Versions
    <2> QED BY <1>5, <2>3, <2>4, <2>5, <2>6, LockedStep, ZenonT(30) DEF WritePutMeta, Locked
  <1>6. ASSUME NEW t \in Threads, WriteDeleteOld(t) PROVE DataInv'
    <2>1. PICK del : store' = Updated({}, Nil, KeysOf(file[t], of[t], del))
      BY <1>6, ZenonT(30) DEF WriteDeleteOld
    <2>2. \A x \in {} \cup KeysOf(file[t], of[t], del) : x[2] = file[t] /\ x[3] = of[t].ver
      BY KeysOfName, SMTT(60)
    <2>3. Steady(t) /\ meta' = meta /\ file[t] \in Names
      BY <1>6, ZenonT(30) DEF WriteDeleteOld, Goto, Steady, TypeOK, Places, Locked, redis
    <2>4. \A g \in Names \ {file[t]} : \A m \in Meta : Backed(store, g, m) => Backed(store', g, m)
      BY <2>1, <2>2, BackedElsewhere, ZenonT(30)
    <2>5. Exists(meta[file[t]]) => Backed(store', file[t], meta[file[t]])
      <3>1. Exists(meta[file[t]]) => meta[file[t]] \in Meta /\ Backed(store, file[t], meta[file[t]])
        BY <2>3, NoFileType, DurableBacked, ZenonT(30) DEF TypeOK
      <3>2. of[t].ver # meta[file[t]].ver
        BY <1>6, ZenonT(30) DEF WriteDeleteOld, Duties
      <3> QED BY <2>1, <2>2, <2>3, <3>1, <3>2, BackedElsewhere, ZenonT(30)
    <2>6. Duties(t)'
      BY <1>6, ZenonT(30) DEF WriteDeleteOld, Goto, Duties, TypeOK
    <2> QED BY <1>6, <2>3, <2>4, <2>5, <2>6, LockedStep, ZenonT(30) DEF WriteDeleteOld, Locked
  <1>7. ASSUME NEW t \in Threads, NEW f \in Names, DeleteLock(t, f) PROVE DataInv'
    <2>1. Steady(t) /\ UNCHANGED <<meta, store>>
      BY <1>7, ZenonT(30) DEF DeleteLock, LockFile, Begin, Steady, TypeOK
    <2>2. Duties(t)'
      BY <1>7, ZenonT(30) DEF DeleteLock, LockFile, Begin, Duties, TypeOK
    <2> QED BY <2>1, <2>2, QuietStep, Zenon
  <1>8. ASSUME NEW t \in Threads, DeleteGetMeta(t) PROVE DataInv'
    <2>1. Steady(t) /\ UNCHANGED <<meta, store>>
      BY <1>8, ZenonT(30) DEF DeleteGetMeta, Goto, Steady, TypeOK, redis
    <2>2. Duties(t)'
      BY <1>8, ZenonT(60) DEF DeleteGetMeta, Goto, Duties, TypeOK, redis
    <2> QED BY <2>1, <2>2, QuietStep, Zenon
  <1>9. ASSUME NEW t \in Threads, DeleteMeta(t) PROVE DataInv'
    <2>1. file[t] \in Names /\ NoFile \in Meta \cup {NoFile}
      BY <1>9, MetaFile, ZenonT(30) DEF DeleteMeta, TypeOK, Places, Locked
    <2>2. PICK okay \in BOOLEAN : PutMeta(file[t], NoFile, okay) /\ pc' = [pc EXCEPT ![t] = IF okay /\ of[t].data # Empty THEN "dDel" ELSE "unlock"]
      BY <1>9, ZenonT(30) DEF DeleteMeta, RemoveMeta, Goto
    <2>3. /\ \A g \in Names \ {file[t]} : meta'[g] = meta[g]
          /\ meta'[file[t]] \in {meta[file[t]], NoFile} /\ (okay => meta'[file[t]] = NoFile)
      BY <2>1, <2>2, PutMetaType, SMTT(60)
    <2>4. Steady(t) /\ store' = store
      BY <1>9, ZenonT(30) DEF DeleteMeta, Goto, Steady, TypeOK
    <2>5. Exists(meta'[file[t]]) => Backed(store', file[t], meta'[file[t]])
      BY <1>9, <2>1, <2>3, <2>4, NoFileType, DurableBacked, ZenonT(60) DEF DeleteMeta, Duties
    <2>6. Duties(t)'
      BY <1>9, <2>1, <2>2, <2>3, <2>4, NoFileType, ZenonT(30) DEF DeleteMeta, Duties, TypeOK
    <2> QED BY <1>9, <2>3, <2>4, <2>5, <2>6, LockedStep, ZenonT(30) DEF DeleteMeta, Locked
  <1>10. ASSUME NEW t \in Threads, DeleteChunks(t) PROVE DataInv'
    <2>1. PICK del : store' = Updated({}, Nil, KeysOf(file[t], of[t], del))
      BY <1>10, ZenonT(30) DEF DeleteChunks
    <2>2. \A x \in {} \cup KeysOf(file[t], of[t], del) : x[2] = file[t] /\ x[3] = of[t].ver
      BY KeysOfName
    <2>3. Steady(t) /\ meta' = meta /\ file[t] \in Names
      BY <1>10, ZenonT(30) DEF DeleteChunks, Goto, Steady, TypeOK, Places, Locked, redis
    <2>4. \A g \in Names \ {file[t]} : \A m \in Meta : Backed(store, g, m) => Backed(store', g, m)
      BY <2>1, <2>2, BackedElsewhere, Zenon
    <2>5. ~Exists(meta[file[t]])
      BY <1>10, ZenonT(30) DEF DeleteChunks, Duties
    <2>6. Duties(t)'
      BY <1>10, ZenonT(30) DEF DeleteChunks, Goto, Duties, TypeOK
    <2> QED BY <1>10, <2>3, <2>4, <2>5, <2>6, LockedStep, ZenonT(30) DEF DeleteChunks, Locked
  <1>11. ASSUME NEW t \in Threads, Unlock(t) PROVE DataInv'
    <2>1. Steady(t) /\ UNCHANGED <<meta, store>>
      BY <1>11, ZenonT(30) DEF Unlock, Return, Steady, TypeOK
    <2>2. Duties(t)'
      BY <1>11, ZenonT(30) DEF Unlock, Return, Duties, TypeOK
    <2> QED BY <2>1, <2>2, QuietStep, Zenon
  <1>12. ASSUME NEW t \in Threads, RepairPop(t) PROVE DataInv'
    <2>1. Steady(t) /\ UNCHANGED <<meta, store>>
      BY <1>12, ZenonT(30) DEF RepairPop, Goto, Steady, TypeOK
    <2>2. Duties(t)'
      BY <1>12, ZenonT(30) DEF RepairPop, Goto, Duties, TypeOK
    <2> QED BY <2>1, <2>2, QuietStep, Zenon
  <1>13. ASSUME NEW t \in Threads, RepairLock(t) PROVE DataInv'
    <2>1. Steady(t) /\ UNCHANGED <<meta, store>>
      BY <1>13, ZenonT(30) DEF RepairLock, Goto, LockFile, Steady, TypeOK
    <2>2. Duties(t)'
      BY <1>13, Zenon DEF RepairLock, Goto, LockFile, Duties, TypeOK
    <2> QED BY <2>1, <2>2, QuietStep, Zenon
  <1>14. ASSUME NEW t \in Threads, RepairBusy(t) PROVE DataInv'
    <2>1. Steady(t) /\ UNCHANGED <<meta, store>>
      BY <1>14, ZenonT(30) DEF RepairBusy, Return, Steady, TypeOK, redis
    <2>2. Duties(t)'
      BY <1>14, ZenonT(30) DEF RepairBusy, Return, Duties, TypeOK, redis
    <2> QED BY <2>1, <2>2, QuietStep, Zenon
  <1>15. ASSUME NEW t \in Threads, RepairDone(t) PROVE DataInv'
    <2>1. Steady(t) /\ UNCHANGED <<meta, store>>
      BY <1>15, ZenonT(30) DEF RepairDone, Return, Steady, TypeOK, redis
    <2>2. Duties(t)'
      BY <1>15, ZenonT(30) DEF RepairDone, Return, Duties, TypeOK, redis
    <2> QED BY <2>1, <2>2, QuietStep, Zenon
  <1>16. ASSUME NEW t \in Threads, RepairGetMeta(t) PROVE DataInv'
    <2>1. Steady(t) /\ UNCHANGED <<meta, store>>
      BY <1>16, ZenonT(30) DEF RepairGetMeta, Goto, Steady, TypeOK, redis
    <2>2. Duties(t)'
      BY <1>16, <2>1, SMTT(60) DEF RepairGetMeta, Goto, GetMeta, Duties, TypeOK
    <2> QED BY <2>1, <2>2, QuietStep, Zenon
  <1>17. ASSUME NEW t \in Threads, RepairFix(t) PROVE DataInv'
    <2> DEFINE f == file[t]
    <2>1. /\ f \in Names /\ of[t] \in Meta /\ of[t] = meta[f] /\ wf[t] = of[t]
          /\ of[t].data # Empty /\ Backed(store, f, of[t])
      BY <1>17, DurableBacked, SMTT(60) DEF RepairFix, Places, Duties, Locked, Exists, Meta, Versions
    <2>2. PICK alive \in Alive(of[t]) : RepairOutcome(t, alive)
      BY <1>17, ZenonT(30) DEF RepairFix
    <2> DEFINE failed == Idx \ alive
               input == KeysOf(f, of[t], FirstK(alive))
    <2>3. alive \subseteq Stored(of[t]) /\ alive \subseteq Idx
      BY <2>2, Zenon DEF Alive, Stored
    <2>4. Steady(t) /\ meta' = meta
      BY <1>17, <2>2, ZenonT(30) DEF RepairFix, RepairOutcome, Goto, Steady, TypeOK, redis
    <2>5. CASE UNCHANGED <<store, wf>>
      <3>1. Duties(t)'
        BY <1>17, <2>1, <2>2, <2>4, <2>5, ZenonT(60) DEF RepairFix, RepairOutcome, Goto, Duties, TypeOK
      <3> QED BY <2>4, <2>5, <3>1, QuietStep, Zenon
    <2>6. CASE ~UNCHANGED <<store, wf>>
      <3> DEFINE Result(p, done, ack) ==
                     /\ store' = Updated({<<p[i], f, of[t].ver, i>> : i \in done},
                                         Decode({store[x] : x \in input}), {})
                     /\ IF ack = failed
                        THEN /\ wf' = [wf EXCEPT ![t].ids = [i \in Idx |-> IF i \in failed THEN p[i] ELSE @[i]]]
                             /\ Goto(t, "pMeta")
                        ELSE Goto(t, "pFail") /\ UNCHANGED wf
      <3>1. PICK p \in Placements(failed, {of[t].ids[i] : i \in alive}) :
               \E done \in SUBSET failed : \E ack \in Acked(p, failed, done) : Result(p, done, ack)
        BY <2>2, <2>6, ZenonT(30) DEF RepairOutcome
      <3> HIDE DEF Result
      <3>2. PICK done \in SUBSET failed, ack \in SUBSET failed : ack \subseteq done /\ Result(p, done, ack)
        BY <3>1, ZenonT(30) DEF Acked
      <3> USE DEF Result
      <3>3. alive \in KSets
        BY <2>2, <2>6, ZenonT(30) DEF RepairOutcome
      <3>4. Decode({store[x] : x \in input}) = of[t].data
        BY <2>1, <2>3, <3>3, RestoredPayload, ZenonT(30)
      <3> DEFINE put == {<<p[i], f, of[t].ver, i>> : i \in done}
      <3>5. store' = Updated(put, of[t].data, {})
        BY <3>2, <3>4, Zenon
      <3>6. \A x \in put : x[2] = f
        OBVIOUS
      <3>7. \A g \in Names \ {f} : \A m \in Meta : Backed(store, g, m) => Backed(store', g, m)
        BY <3>5, <3>6, BackedElsewhere, ZenonT(30)
      <3>8. Backed(store', f, meta[f])
        <4>1. \A i \in Stored(of[t]) : store'[KeyOf(f, of[t], i)] = of[t].data
          BY <2>1, <3>5, KeyType, ZenonT(30) DEF Backed, Updated
        <4> QED BY <2>1, <4>1, ZenonT(30) DEF Backed
      <3>9. Duties(t)'
        <4>1. CASE ack = failed
          <5> DEFINE q == [i \in Idx |-> IF i \in failed THEN p[i] ELSE of[t].ids[i]]
                     w == [of[t] EXCEPT !.ids = q]
          <5>1. wf' = [wf EXCEPT ![t] = w] /\ pc' = [pc EXCEPT ![t] = "pMeta"]
            BY <2>1, <3>2, <4>1, ZenonT(30) DEF Goto, TypeOK
          <5>2. q \in Ids /\ of[t] \in File /\ of[t].ids \in Ids
            BY <2>1, <2>3, <3>1, MetaFile, FileFields, SMTT(60) DEF Ids, Placements
          <5>3. w \in Meta /\ w.ids = q /\ w.ver = of[t].ver /\ w.data = of[t].data
            BY <2>1, <5>2, FileFields, MetaFile, ZenonT(30) DEF Meta
          <5>4. Stored(w) = Idx
            BY <2>3, <3>1, <5>3, ValueAssumption, SMTT(60) DEF Stored, Placements
          <5>5. Idx \in KSets
            BY IntervalKSets, CodingAssumption, SMTT(60) DEF Idx
          <5>6. ASSUME NEW i \in Idx PROVE store'[KeyOf(f, w, i)] = w.data
            <6>1. KeyOf(f, w, i) \in Keys
              BY <2>1, <5>3, <5>4, KeyType, ZenonT(30)
            <6>2. CASE i \in failed
              <7>1. KeyOf(f, w, i) \in put
                BY <3>2, <4>1, <5>3, <6>2, Zenon DEF KeyOf
              <7> QED BY <3>5, <5>3, <6>1, <7>1, ZenonT(30) DEF Updated
            <6>3. CASE i \in alive
              <7>1. KeyOf(f, w, i) = KeyOf(f, of[t], i)
                BY <5>3, <6>3, Zenon DEF KeyOf
              <7>2. store[KeyOf(f, of[t], i)] = of[t].data
                BY <2>1, <2>3, <6>3, ZenonT(30) DEF Backed
              <7> QED BY <3>5, <5>3, <6>1, <7>1, <7>2, ZenonT(30) DEF Updated
            <6> QED BY <6>2, <6>3, Zenon
          <5>7. Backed(store', f, w)
            BY <5>4, <5>5, <5>6, Zenon DEF Backed
          <5>8. wf'[t] = w /\ pc'[t] = "pMeta" /\ of' = of /\ file' = file
            BY <1>17, <5>1, Zenon DEF RepairFix, TypeOK
          <5> QED BY <2>1, <2>4, <5>3, <5>7, <5>8, ZenonT(30) DEF Duties
        <4>2. CASE ack # failed
          BY <3>2, <4>2 DEF Goto, Duties, TypeOK
        <4> QED BY <4>1, <4>2, ZenonT(30)
      <3> QED BY <1>17, <2>4, <3>7, <3>8, <3>9, LockedStep, ZenonT(30) DEF RepairFix, Locked
    <2> QED BY <2>5, <2>6, ZenonT(30)
  <1>18. ASSUME NEW t \in Threads, RepairPutMeta(t) PROVE DataInv'
    <2>1. file[t] \in Names /\ wf[t] \in Meta \cup {NoFile}
      BY <1>18, MetaFile, ZenonT(30) DEF RepairPutMeta, TypeOK, Places, Locked
    <2>2. PICK okay \in BOOLEAN : PutMeta(file[t], wf[t], okay) /\ pc' = [pc EXCEPT ![t] = IF okay THEN "pUnlock" ELSE "pFail"]
      BY <1>18, ZenonT(30) DEF RepairPutMeta, Goto
    <2>3. /\ \A g \in Names \ {file[t]} : meta'[g] = meta[g]
          /\ meta'[file[t]] \in {meta[file[t]], wf[t]} /\ (okay => meta'[file[t]] = wf[t])
      BY <2>1, <2>2, PutMetaType, SMTT(60)
    <2>4. Steady(t) /\ store' = store
      BY <1>18, ZenonT(30) DEF RepairPutMeta, Goto, Steady, TypeOK
    <2>5. Exists(meta'[file[t]]) => Backed(store', file[t], meta'[file[t]])
      BY <1>18, <2>1, <2>3, <2>4, NoFileType, DurableBacked, ZenonT(60) DEF RepairPutMeta, Duties
    <2>6. Duties(t)'
      BY <1>18, <2>1, <2>2, <2>3, <2>4, NoFileType, ZenonT(30) DEF RepairPutMeta, Duties, TypeOK
    <2> QED BY <1>18, <2>3, <2>4, <2>5, <2>6, LockedStep, ZenonT(30) DEF RepairPutMeta, Locked
  <1>19. ASSUME NEW t \in Threads, RepairUnlock(t) PROVE DataInv'
    <2>1. Steady(t) /\ UNCHANGED <<meta, store>>
      <3>1. CASE pc[t] = "pFail"
        BY <1>19, <3>1, SMTT(60) DEF RepairUnlock, Return, Steady, TypeOK
      <3>2. CASE pc[t] # "pFail"
        BY <1>19, <3>2, ZenonT(30) DEF RepairUnlock, Goto, Steady, TypeOK
      <3> QED BY <3>1, <3>2, ZenonT(30)
    <2>2. pc'[t] \in {"idle", "pLock"}
      BY <1>19, ZenonT(30) DEF RepairUnlock, Goto, Return, TypeOK
    <2>3. Duties(t)'
      BY <2>2, ZenonT(30) DEF Duties
    <2> QED BY <2>1, <2>3, QuietStep, Zenon
  <1>20. ASSUME NEW t \in Threads, NEW f \in Names, ReadGetMeta(t, f) PROVE DataInv'
    <2>1. Steady(t) /\ UNCHANGED <<meta, store>>
      BY <1>20, ZenonT(30) DEF ReadGetMeta, Begin, Steady, TypeOK, redis
    <2>2. Duties(t)'
      BY <1>20, ZenonT(30) DEF ReadGetMeta, Begin, Duties, TypeOK, redis
    <2> QED BY <2>1, <2>2, QuietStep, Zenon
  <1>21. ASSUME NEW t \in Threads, ReadChunk(t) PROVE DataInv'
    <2>1. UNCHANGED <<meta, store>>
      BY <1>21, ZenonT(30) DEF ReadChunk, redis
    <2>2. PICK i \in todo[t] : ReadReply(t, i)
      BY <1>21, ZenonT(30) DEF ReadChunk
    <2>3. Steady(t) /\ pc'[t] \in {"gChk", "gEnd", "idle"}
      <3>1. CASE Return(t)
        BY <3>1, ZenonT(30) DEF Return, Steady, TypeOK
      <3>2. CASE ~Return(t)
        <4>1. UNCHANGED <<file, of, wf>> /\ pc' \in {pc, [pc EXCEPT ![t] = "gEnd"], [pc EXCEPT ![t] = "gChk"]}
          BY <2>2, <3>2, ZenonT(30) DEF ReadReply, Goto
        <4> QED BY <1>21, <4>1, ZenonT(30) DEF ReadChunk, Steady, TypeOK
      <3> QED BY <3>1, <3>2, ZenonT(30)
    <2>4. Duties(t)'
      BY <2>3, ZenonT(30) DEF Duties
    <2> QED BY <2>1, <2>3, <2>4, QuietStep, ZenonT(30)
  <1>22. ASSUME NEW t \in Threads, ReadEnd(t) PROVE DataInv'
    <2>1. Steady(t) /\ UNCHANGED <<meta, store>>
      BY <1>22, ZenonT(30) DEF ReadEnd, Return, Steady, TypeOK
    <2>2. Duties(t)'
      BY <1>22, ZenonT(30) DEF ReadEnd, Return, Duties, TypeOK
    <2> QED BY <2>1, <2>2, QuietStep, Zenon
  <1>23. ASSUME NEW f \in Names, ScanMark(f) PROVE DataInv'
    BY <1>23, ZenonT(30) DEF ScanMark, DataInv, Durable, Duties, Backed
  <1>24. CASE Crash
    BY <1>24, ZenonT(30) DEF Crash, DataInv, Durable, Duties, redis
  <1>25. CASE UNCHANGED vars
    BY <1>25, ZenonT(30) DEF vars, DataInv, Durable, Duties, Backed
  <1> QED
    BY <1>1, <1>2, <1>3, <1>4, <1>5, <1>6, <1>7, <1>8, <1>9, <1>10, <1>11, <1>12, <1>13, <1>14, <1>15, <1>16, <1>17, <1>18, <1>19, <1>20, <1>21, <1>22, <1>23, <1>24, <1>25, ZenonT(30)
    DEF Next, Start, Step

\* DataInv holds at the start.
LEMMA DataInvInit == Init => DataInv
  <1> SUFFICES ASSUME Init PROVE DataInv
    BY Zenon
  <1>1. Durable
    BY NoFileType, ZenonT(30) DEF Init, Durable
  <1>2. \A t \in Threads : Duties(t)
    BY ZenonT(30) DEF Init, Duties
  <1> QED BY <1>1, <1>2, Zenon DEF DataInv

\* The metadata never names a chunk that is not there or holds something else, nor
\* too few chunks to decode, through partial writes, failed cleanups, repairs into
\* other containers, errors of putMeta and deleteMeta and crashes: Durable.
THEOREM FilesDurable ==
  ASSUME "getMeta" \notin Faults
  PROVE  Spec => []Durable
  <1>1. Init => LockInv /\ DataInv
    BY LockInvInit, DataInvInit, Zenon
  <1>2. LockInv /\ DataInv /\ [Next]_vars => LockInv' /\ DataInv'
    BY LockInvNext, DataInvNext, Zenon
  <1>3. DataInv => Durable
    BY Zenon DEF DataInv
  <1> QED BY <1>1, <1>2, <1>3, PTL DEF Spec

-----------------------------------------------------------------------------
(***************************************************************************)
(* Updates.  The metadata changes in three ways: a write stores the next   *)
(* version, a repair the same version and payload, a delete none.          *)
(***************************************************************************)
Overwritten(f, m) ==
    \/ m = NoFile
    \/ m \in Meta /\ m.ver = meta[f].ver + 1
    \/ m \in Meta /\ m.ver = meta[f].ver /\ m.data = meta[f].data

\* What a step does to the metadata.
LEMMA MetaStep ==
  ASSUME LockInv, DataInv, [Next]_vars
  PROVE  meta' = meta \/ \E f \in Names : \E m : Overwritten(f, m) /\ meta' = [meta EXCEPT ![f] = m]
  <1>0. TypeOK /\ \A t \in Threads : Places(t) /\ Duties(t)
    BY Zenon DEF LockInv, DataInv
  <1>1. ASSUME NEW t \in Threads, WritePutMeta(t)
        PROVE  meta' = meta \/ meta' = [meta EXCEPT ![file[t]] = wf[t]]
    BY <1>1, Zenon DEF WritePutMeta, PutMeta
  <1>2. ASSUME NEW t \in Threads, WritePutMeta(t) PROVE file[t] \in Names /\ Overwritten(file[t], wf[t])
    BY <1>0, <1>2, MetaFile, SMTT(60) DEF WritePutMeta, Places, Duties, Overwritten, TypeOK, Locked
  <1>3. ASSUME NEW t \in Threads, DeleteMeta(t)
        PROVE  file[t] \in Names /\ (meta' = meta \/ meta' = [meta EXCEPT ![file[t]] = NoFile])
    BY <1>0, <1>3, Zenon DEF DeleteMeta, RemoveMeta, PutMeta, Places, Locked
  <1>4. ASSUME NEW t \in Threads, RepairPutMeta(t)
        PROVE  meta' = meta \/ meta' = [meta EXCEPT ![file[t]] = wf[t]]
    BY <1>4, Zenon DEF RepairPutMeta, PutMeta
  <1>5. ASSUME NEW t \in Threads, RepairPutMeta(t) PROVE file[t] \in Names /\ Overwritten(file[t], wf[t])
    BY <1>0, <1>5, SMTT(60) DEF RepairPutMeta, Places, Duties, Overwritten, Locked
  <1>6. ASSUME NEW t \in Threads, Start(t) PROVE meta' = meta
    BY <1>6, ZenonT(30) DEF Start, WriteLock, DeleteLock, ReadGetMeta, RepairPop, redis
  <1>7. ASSUME NEW t \in Threads, Step(t), ~WritePutMeta(t), ~DeleteMeta(t), ~RepairPutMeta(t)
        PROVE  meta' = meta
    <2>1. WriteGetMeta(t) \/ WriteStripes(t) \/ WriteNoSpace(t) => meta' = meta
      BY ZenonT(30) DEF WriteGetMeta, WriteStripes, WriteNoSpace, redis
    <2>2. WriteDeleteOld(t) \/ DeleteGetMeta(t) \/ DeleteChunks(t) \/ Unlock(t) => meta' = meta
      BY ZenonT(30) DEF WriteDeleteOld, DeleteGetMeta, DeleteChunks, Unlock, redis
    <2>3. RepairLock(t) \/ RepairBusy(t) \/ RepairDone(t) \/ RepairGetMeta(t) => meta' = meta
      BY ZenonT(30) DEF RepairLock, RepairBusy, RepairDone, RepairGetMeta, redis
    <2>4. RepairFix(t) \/ RepairUnlock(t) \/ ReadChunk(t) \/ ReadEnd(t) => meta' = meta
      BY ZenonT(30) DEF RepairFix, RepairUnlock, ReadChunk, ReadEnd, redis
    <2> QED BY <1>7, <2>1, <2>2, <2>3, <2>4, Zenon DEF Step
  <1>8. (\E f \in Names : ScanMark(f)) \/ Crash \/ UNCHANGED vars => meta' = meta
    BY Zenon DEF ScanMark, Crash, vars, redis
  <1> QED BY <1>1, <1>2, <1>3, <1>4, <1>5, <1>6, <1>7, <1>8, SMTT(60) DEF Next, Overwritten

\* No update is lost: however writes and repairs interleave, the version of a file
\* that stays in existence never goes back, and its payload changes only together
\* with the next version: VersionsGrow.
THEOREM NoLostUpdate ==
  ASSUME "getMeta" \notin Faults
  PROVE  Spec => VersionsGrow
  <1> DEFINE Grows == \A f \in Names : Exists(meta[f]) /\ Exists(meta'[f]) =>
                         \/ meta'[f].ver = meta[f].ver /\ meta'[f].data = meta[f].data
                         \/ meta'[f].ver = meta[f].ver + 1
  <1>1. Init => LockInv /\ DataInv
    BY LockInvInit, DataInvInit, Zenon
  <1>2. LockInv /\ DataInv /\ [Next]_vars => LockInv' /\ DataInv'
    BY LockInvNext, DataInvNext, Zenon
  <1>3. LockInv /\ DataInv /\ [Next]_vars => Grows
    <2> SUFFICES ASSUME LockInv, DataInv, [Next]_vars PROVE Grows
      BY Zenon
    <2>1. CASE meta' = meta
      BY <2>1, Zenon
    <2>2. CASE \E f \in Names : \E m : Overwritten(f, m) /\ meta' = [meta EXCEPT ![f] = m]
      BY <2>2, NoFileType, Zenon DEF Overwritten, LockInv, TypeOK
    <2> QED BY <2>1, <2>2, MetaStep, Zenon
  <1> QED BY <1>1, <1>2, <1>3, PTL DEF Spec, VersionsGrow

-----------------------------------------------------------------------------
(***************************************************************************)
(* Refinement.  By Durable, what a file decodes to is what its metadata    *)
(* stands for, and so changes with the metadata only, in one step.         *)
(***************************************************************************)
payload == [f \in Names |-> IF Exists(meta[f]) THEN meta[f].data ELSE Nil]
content == [f \in Names |-> Content(f)]
Decodes == TypeOK /\ Durable => content = payload

\* A durable file decodes to the payload that its metadata stands for.
LEMMA ContentOf == Decodes
  <1> SUFFICES ASSUME TypeOK, Durable, NEW f \in Names, Exists(meta[f]), meta[f].data # Empty
               PROVE  Content(f) = meta[f].data
    BY SMTT(60) DEF Decodes, content, payload, Content
  <1>1. /\ Stored(meta[f]) \in KSets
        /\ \A i \in Stored(meta[f]) : store[KeyOf(f, meta[f], i)] = meta[f].data
    BY Zenon DEF Durable
  <1>2. meta[f].data # Nil
    BY NoFileType, ValueAssumption, ZenonT(30) DEF TypeOK, Meta
  <1>3. Present(f) = Stored(meta[f])
    BY <1>1, <1>2, Zenon DEF Present
  <1>4. Present(f) # {}
    BY <1>1, <1>3, FirstKNonempty, Zenon
  <1>5. {store[KeyOf(f, meta[f], i)] : i \in Present(f)} = {meta[f].data}
    BY <1>1, <1>3, <1>4, Zenon
  <1> QED BY <1>1, <1>3, <1>5, DecodeOne, ZenonT(30) DEF Content

\* The same after a step.
LEMMA ContentOfNext == Decodes'
  BY ContentOf, PTL

\* A change of the metadata is a write or a delete of the file service.
LEMMA ServiceStep ==
  ASSUME TypeOK, content = payload, content' = payload',
         NEW f \in Names, NEW m, Overwritten(f, m), meta' = [meta EXCEPT ![f] = m]
  PROVE  Service!Next \/ content' = content
  <1>1. content' = [content EXCEPT ![f] = IF Exists(m) THEN m.data ELSE Nil]
    BY Zenon DEF payload, TypeOK
  <1>2. CASE m = NoFile
    <2>1. content' = [content EXCEPT ![f] = Nil]
      BY <1>1, <1>2, NoFileType, Zenon
    <2>2. content[f] = Nil => content' = content
      BY <2>1, Zenon DEF content
    <2>3. content[f] # Nil => Service!Delete(f)
      BY <2>1, Zenon DEF Service!Delete, content
    <2> QED BY <2>2, <2>3, Zenon DEF Service!Next
  <1>3. CASE m \in Meta
    <2>1. Exists(m) /\ m.data \in Data \cup {Empty}
      BY <1>3 DEF Meta, Exists, Versions
    <2>2. Service!Write(f, m.data)
      BY <1>1, <2>1, Zenon DEF Service!Write, content
    <2> QED BY <2>1, <2>2, Zenon DEF Service!Next
  <1> QED BY <1>2, <1>3, Zenon DEF Overwritten

\* The proxy implements the file service: what is stored for a file decodes to the
\* payload of one write, and changes with a write or a delete of that file only, in
\* one step, through all failures of chunk requests and metadata updates, repairs
\* and crashes: ServiceSpec.
THEOREM Refinement ==
  ASSUME "getMeta" \notin Faults
  PROVE  Spec => ServiceSpec
  <1>1. Init => LockInv /\ DataInv
    BY LockInvInit, DataInvInit, Zenon
  <1>2. LockInv /\ DataInv /\ [Next]_vars => LockInv' /\ DataInv'
    BY LockInvNext, DataInvNext, Zenon
  <1>3. Init => Service!Init
    <2> SUFFICES ASSUME Init PROVE Service!Init
      BY Zenon
    <2>1. content = payload
      BY <1>1, ContentOf, Zenon DEF Decodes, LockInv, DataInv
    <2>2. payload = [f \in Names |-> Nil]
      BY NoFileType, Zenon DEF Init, payload
    <2> QED BY <2>1, <2>2, Zenon DEF Service!Init, content
  <1>4. LockInv /\ DataInv /\ [Next]_vars => Service!Next \/ content' = content
    <2> SUFFICES ASSUME LockInv, DataInv, [Next]_vars PROVE Service!Next \/ content' = content
      BY Zenon
    <2>1. TypeOK /\ content = payload
      BY ContentOf, Zenon DEF Decodes, LockInv, DataInv
    <2>2. content' = payload'
      BY <1>2, ContentOfNext, Zenon DEF Decodes, LockInv, DataInv
    <2>3. CASE meta' = meta
      BY <2>1, <2>2, <2>3, Zenon DEF payload
    <2> QED BY <2>1, <2>2, <2>3, MetaStep, ServiceStep, Zenon
  <1>5. LockInv /\ DataInv /\ [Next]_vars => [Service!Next]_([f \in Names |-> Content(f)])
    BY <1>4, Zenon DEF content
  <1> QED BY <1>1, <1>2, <1>3, <1>5, PTL DEF Spec, ServiceSpec, Service!Spec

-----------------------------------------------------------------------------
(***************************************************************************)
(* Reads.  A read has no lock.  If chunk checksums are not verified, what  *)
(* it takes for a chunk of its file is one only because no chunk is stored *)
(* a second time under the name of an older one: versions go up, and a     *)
(* repair stores the payload that was there.  A delete makes the versions  *)
(* start over, and so does a failed getMeta of a write.                    *)
(***************************************************************************)
InOrder == "delete" \notin Ops /\ "getMeta" \notin Faults
Reading == {"gChk", "gEnd"}
Deleting == {"dGet", "dMeta", "dDel"}

\* The chunks that a read without a lock is going to ask for are those of its
\* metadata or gone.
ReadsOwn(t) ==
    /\ of[t] \in Meta /\ file[t] \in Names
    /\ meta[file[t]].ver >= of[t].ver
    /\ meta[file[t]].ver = of[t].ver => meta[file[t]].data = of[t].data
    /\ \A i \in Stored(of[t]) : store[KeyOf(file[t], of[t], i)] \in {Nil, of[t].data}

ReadInv(t) ==
    /\ pc[t] \notin Reading => got[t] = {}
    /\ \A g \in got[t] : g[2] = of[t].data
    /\ "delete" \notin Ops => pc[t] \notin Deleting
    /\ InOrder /\ pc[t] \in Reading => ReadsOwn(t)

\* A chunk is stored under the next version, or to restore one of the current version.
StoresInOrder(x) ==
    \/ store'[x] \in {store[x], Nil}
    \/ x[3] = meta[x[2]].ver + 1
    \/ x[3] = meta[x[2]].ver /\ store'[x] = meta[x[2]].data

\* What a step does to the chunks.
LEMMA ChunkStep ==
  ASSUME LockInv, DataInv, [Next]_vars, NEW x \in Keys
  PROVE  StoresInOrder(x)
  <1>0. TypeOK /\ Durable /\ \A t \in Threads : Places(t) /\ Duties(t)
    BY Zenon DEF LockInv, DataInv
  <1>1. ASSUME NEW put, NEW d, NEW del, store' = Updated(put, d, del)
        PROVE  store'[x] \in {store[x], Nil} \/ (x \in put /\ store'[x] = d)
    BY <1>1, Zenon DEF Updated
  <1>2. ASSUME NEW t \in Threads, WriteStripes(t) PROVE StoresInOrder(x)
    <2>0. PICK p, done, ack : WriteOutcome(t, p, done, ack)
      BY <1>2, ZenonT(30) DEF WriteStripes
    <2>1. PICK del : store' = Updated({<<p[i], file[t], wf[t].ver, i>> : i \in done}, wf[t].data, del)
      BY <2>0, ZenonT(30) DEF WriteOutcome
    <2>2. wf[t].ver = meta[file[t]].ver + 1
      BY <1>0, <1>2, ZenonT(30) DEF WriteStripes, Duties
    <2>3. \A y \in {<<p[i], file[t], wf[t].ver, i>> : i \in done} : y[2] = file[t] /\ y[3] = wf[t].ver
      OBVIOUS
    <2> QED BY <1>1, <2>1, <2>2, <2>3, ZenonT(30) DEF StoresInOrder
  <1>3. ASSUME NEW t \in Threads, WriteDeleteOld(t) \/ DeleteChunks(t) PROVE StoresInOrder(x)
    <2>1. PICK del : store' = Updated({}, Nil, del)
      BY <1>3, ZenonT(30) DEF WriteDeleteOld, DeleteChunks
    <2> QED BY <1>1, <2>1, ZenonT(30) DEF StoresInOrder
  <1>4. ASSUME NEW t \in Threads, RepairFix(t) PROVE StoresInOrder(x)
    <2>1. /\ file[t] \in Names /\ of[t] \in Meta /\ of[t] = meta[file[t]]
          /\ of[t].data # Empty /\ Backed(store, file[t], of[t])
      <3>1. pc[t] = "pFix" /\ pc[t] \in Locked
        BY <1>4, Zenon DEF RepairFix, Locked
      <3>2. Places(t) /\ Duties(t) /\ Durable
        BY <1>0, Zenon
      <3>3. file[t] \in Names /\ of[t] \in Meta
        BY <3>1, <3>2, Zenon DEF Places
      <3>4. of[t] = meta[file[t]] /\ of[t].data # Empty
        BY <3>1, <3>2, Zenon DEF Duties
      <3>5. Exists(of[t])
        BY <3>3 DEF Exists, Meta, Versions
      <3> QED BY <3>2, <3>3, <3>4, <3>5, DurableBacked, Zenon
    <2>2. PICK alive \in Alive(of[t]) : RepairOutcome(t, alive)
      BY <1>4, ZenonT(30) DEF RepairFix
    <2>3. CASE store' = store
      BY <2>3, Zenon DEF StoresInOrder
    <2>4. CASE store' # store
      <3>1. PICK p, done :
               /\ alive \in KSets
               /\ store' = Updated({<<p[i], file[t], of[t].ver, i>> : i \in done},
                                   Decode({store[y] : y \in KeysOf(file[t], of[t], FirstK(alive))}), {})
        BY <2>2, <2>4, ZenonT(30) DEF RepairOutcome
      <3>2. Decode({store[y] : y \in KeysOf(file[t], of[t], FirstK(alive))}) = of[t].data
        BY <2>1, <3>1, RestoredPayload, ZenonT(30) DEF Alive
      <3>3. \A y \in {<<p[i], file[t], of[t].ver, i>> : i \in done} : y[2] = file[t] /\ y[3] = of[t].ver
        OBVIOUS
      <3> QED BY <1>1, <2>1, <3>1, <3>2, <3>3, ZenonT(30) DEF StoresInOrder
    <2> QED BY <2>3, <2>4, Zenon
  <1>5. ASSUME NEW t \in Threads, Start(t) PROVE store' = store
    BY <1>5, ZenonT(30) DEF Start, WriteLock, DeleteLock, ReadGetMeta, RepairPop
  <1>6. ASSUME NEW t \in Threads, Step(t), ~WriteStripes(t), ~WriteDeleteOld(t), ~DeleteChunks(t), ~RepairFix(t)
        PROVE  store' = store
    BY <1>6, SMTT(60) DEF Step, WriteGetMeta, WriteNoSpace, WritePutMeta, DeleteGetMeta, DeleteMeta, Unlock,
                RepairLock, RepairBusy, RepairDone, RepairGetMeta, RepairPutMeta, RepairUnlock, ReadChunk, ReadEnd
  <1>7. (\E f \in Names : ScanMark(f)) \/ Crash \/ UNCHANGED vars => store' = store
    BY Zenon DEF ScanMark, Crash, vars
  <1>8. store' = store => StoresInOrder(x)
    BY Zenon DEF StoresInOrder
  <1> QED BY <1>2, <1>3, <1>4, <1>5, <1>6, <1>7, <1>8, ZenonT(30) DEF Next

\* Unless a file is deleted, its version never goes back, and its payload stays with it.
LEMMA VersionStep ==
  ASSUME LockInv, DataInv, [Next]_vars, \A t \in Threads : pc[t] # "dMeta", NEW f \in Names
  PROVE  /\ meta'[f].ver \in Int /\ meta[f].ver \in Int /\ meta'[f].ver >= meta[f].ver
         /\ meta'[f].ver = meta[f].ver => meta'[f].data = meta[f].data
  <1>0. TypeOK /\ TypeOK' /\ \A t \in Threads : Places(t)
    BY LockInvNext, Zenon DEF LockInv
  <1>1. meta[f] \in Meta \cup {NoFile} /\ meta'[f] \in Meta \cup {NoFile}
    BY <1>0, Zenon DEF TypeOK
  <1>2. \A m \in Meta \cup {NoFile} : m.ver \in Int /\ m.ver >= -1 /\ (m.ver = -1 => m = NoFile)
    BY NoFileType, VersionAssumption DEF Meta, Versions
  <1>3. Exists(meta[f]) => meta'[f] # NoFile
    <2> SUFFICES ASSUME Exists(meta[f]), meta'[f] = NoFile PROVE FALSE
      BY Zenon
    <2>1. ~\E t \in Threads : WritePutMeta(t) \/ RepairPutMeta(t)
      <3>1. ASSUME NEW t \in Threads, WritePutMeta(t) \/ RepairPutMeta(t) PROVE FALSE
        <4>1. wf[t] \in Meta
          BY <1>0, <3>1, MetaFile, ZenonT(30) DEF WritePutMeta, RepairPutMeta, Places, TypeOK
        <4>2. file[t] \in Names /\ meta' \in {meta, [meta EXCEPT ![file[t]] = wf[t]]}
          BY <1>0, <3>1, ZenonT(30) DEF WritePutMeta, RepairPutMeta, PutMeta, Places, Locked
        <4>3. wf[t] # NoFile
          BY <4>1, NoFileType, VersionAssumption DEF Meta, Versions
        <4>4. meta[f] # NoFile
          BY NoFileType, Zenon
        <4> QED BY <1>0, <4>2, <4>3, <4>4, ZenonT(30) DEF TypeOK
      <3> QED BY <3>1, Zenon
    <2>2. ~\E t \in Threads : DeleteMeta(t)
      BY Zenon DEF DeleteMeta
    <2>3. ASSUME NEW t \in Threads, Start(t) PROVE meta' = meta
      BY <2>3, ZenonT(30) DEF Start, WriteLock, DeleteLock, ReadGetMeta, RepairPop, redis
    <2>4. ASSUME NEW t \in Threads, Step(t), ~WritePutMeta(t), ~DeleteMeta(t), ~RepairPutMeta(t) PROVE meta' = meta
      BY <2>4, SMTT(60) DEF Step, WriteGetMeta, WriteStripes, WriteNoSpace, WriteDeleteOld, DeleteGetMeta, DeleteChunks,
                Unlock, RepairLock, RepairBusy, RepairDone, RepairGetMeta, RepairFix, RepairUnlock,
                ReadChunk, ReadEnd, redis
    <2>5. (\E g \in Names : ScanMark(g)) \/ Crash \/ UNCHANGED vars => meta' = meta
      BY Zenon DEF ScanMark, Crash, vars, redis
    <2>6. meta' = meta
      BY <2>1, <2>2, <2>3, <2>4, <2>5, ZenonT(30) DEF Next
    <2> QED BY <2>6, NoFileType, Zenon
  <1>4. CASE meta'[f] = meta[f]
    BY <1>1, <1>2, <1>4
  <1>5. CASE \E m : Overwritten(f, m) /\ meta'[f] = m
    BY <1>1, <1>2, <1>3, <1>5, NoFileType DEF Overwritten, Exists
  <1>6. meta'[f] = meta[f] \/ \E m : Overwritten(f, m) /\ meta'[f] = m
    BY <1>0, MetaStep, ZenonT(30) DEF TypeOK
  <1> QED BY <1>4, <1>5, <1>6, Zenon

\* A thread that a step does not move.
Same(u) == pc'[u] = pc[u] /\ file'[u] = file[u] /\ of'[u] = of[u] /\ got'[u] = got[u]

\* A thread that is not reading after a step, and deletes only if it did so or may.
Outside(u) ==
    /\ pc'[u] \notin Reading
    /\ got'[u] = {} \/ (pc[u] \notin Reading /\ got'[u] = got[u])
    /\ pc'[u] \in Deleting => pc[u] \in Deleting \/ "delete" \in Ops

\* What a step does to a thread as a reader.
LEMMA ReaderStep ==
  ASSUME LockInv, [Next]_vars, NEW u \in Threads
  PROVE  Same(u) \/ Outside(u) \/ ReadChunk(u) \/ \E f \in Names : ReadGetMeta(u, f)
  <1>0. TypeOK
    BY Zenon DEF LockInv
  <1>1. ASSUME NEW t \in Threads, NEW f \in Names, NEW d \in Data \cup {Empty}, WriteLock(t, f, d) PROVE Same(u) \/ Outside(u)
    BY <1>0, <1>1, ZenonT(30) DEF WriteLock, Goto, Begin, Return, LockFile, Same, Outside, Reading, Deleting, TypeOK, redis
  <1>2. ASSUME NEW t \in Threads, NEW f \in Names, DeleteLock(t, f), "delete" \in Ops PROVE Same(u) \/ Outside(u)
    BY <1>0, <1>2, ZenonT(30) DEF DeleteLock, Goto, Begin, Return, LockFile, Same, Outside, Reading, Deleting, TypeOK, redis
  <1>3. ASSUME NEW t \in Threads, RepairPop(t) PROVE Same(u) \/ Outside(u)
    BY <1>0, <1>3, ZenonT(30) DEF RepairPop, Goto, Begin, Return, LockFile, Same, Outside, Reading, Deleting, TypeOK, redis
  <1>4. ASSUME NEW t \in Threads, WriteGetMeta(t) PROVE Same(u) \/ Outside(u)
    BY <1>0, <1>4, ZenonT(30) DEF WriteGetMeta, Goto, Begin, Return, LockFile, Same, Outside, Reading, Deleting, TypeOK, redis
  <1>5. ASSUME NEW t \in Threads, WriteStripes(t) PROVE Same(u) \/ Outside(u)
    BY <1>0, <1>5, ZenonT(30) DEF WriteStripes, WriteOutcome, Goto, Begin, Return, LockFile, Same, Outside, Reading, Deleting, TypeOK, redis
  <1>6. ASSUME NEW t \in Threads, WriteNoSpace(t) PROVE Same(u) \/ Outside(u)
    BY <1>0, <1>6, ZenonT(30) DEF WriteNoSpace, Goto, Begin, Return, LockFile, Same, Outside, Reading, Deleting, TypeOK, redis
  <1>7. ASSUME NEW t \in Threads, WritePutMeta(t) PROVE Same(u) \/ Outside(u)
    BY <1>0, <1>7, ZenonT(30) DEF WritePutMeta, Goto, Begin, Return, LockFile, Same, Outside, Reading, Deleting, TypeOK, redis
  <1>8. ASSUME NEW t \in Threads, WriteDeleteOld(t) PROVE Same(u) \/ Outside(u)
    BY <1>0, <1>8, ZenonT(30) DEF WriteDeleteOld, Goto, Begin, Return, LockFile, Same, Outside, Reading, Deleting, TypeOK, redis
  <1>9. ASSUME NEW t \in Threads, DeleteGetMeta(t) PROVE Same(u) \/ Outside(u)
    BY <1>0, <1>9, ZenonT(30) DEF DeleteGetMeta, Goto, Begin, Return, LockFile, Same, Outside, Reading, Deleting, TypeOK, redis
  <1>10. ASSUME NEW t \in Threads, DeleteMeta(t) PROVE Same(u) \/ Outside(u)
    BY <1>0, <1>10, ZenonT(30) DEF DeleteMeta, Goto, Begin, Return, LockFile, Same, Outside, Reading, Deleting, TypeOK, redis
  <1>11. ASSUME NEW t \in Threads, DeleteChunks(t) PROVE Same(u) \/ Outside(u)
    BY <1>0, <1>11, ZenonT(30) DEF DeleteChunks, Goto, Begin, Return, LockFile, Same, Outside, Reading, Deleting, TypeOK, redis
  <1>12. ASSUME NEW t \in Threads, Unlock(t) PROVE Same(u) \/ Outside(u)
    BY <1>0, <1>12, ZenonT(30) DEF Unlock, Goto, Begin, Return, LockFile, Same, Outside, Reading, Deleting, TypeOK, redis
  <1>13. ASSUME NEW t \in Threads, RepairLock(t) PROVE Same(u) \/ Outside(u)
    BY <1>0, <1>13, ZenonT(30) DEF RepairLock, Goto, Begin, Return, LockFile, Same, Outside, Reading, Deleting, TypeOK, redis
  <1>14. ASSUME NEW t \in Threads, RepairBusy(t) PROVE Same(u) \/ Outside(u)
    BY <1>0, <1>14, ZenonT(30) DEF RepairBusy, Goto, Begin, Return, LockFile, Same, Outside, Reading, Deleting, TypeOK, redis
  <1>15. ASSUME NEW t \in Threads, RepairDone(t) PROVE Same(u) \/ Outside(u)
    BY <1>0, <1>15, ZenonT(30) DEF RepairDone, Goto, Begin, Return, LockFile, Same, Outside, Reading, Deleting, TypeOK, redis
  <1>16. ASSUME NEW t \in Threads, RepairGetMeta(t) PROVE Same(u) \/ Outside(u)
    BY <1>0, <1>16, ZenonT(30) DEF RepairGetMeta, Goto, Begin, Return, LockFile, Same, Outside, Reading, Deleting, TypeOK, redis
  <1>17. ASSUME NEW t \in Threads, RepairFix(t) PROVE Same(u) \/ Outside(u)
    BY <1>0, <1>17, ZenonT(30) DEF RepairFix, RepairOutcome, Goto, Begin, Return, LockFile, Same, Outside, Reading, Deleting, TypeOK, redis
  <1>18. ASSUME NEW t \in Threads, RepairPutMeta(t) PROVE Same(u) \/ Outside(u)
    BY <1>0, <1>18, ZenonT(30) DEF RepairPutMeta, Goto, Begin, Return, LockFile, Same, Outside, Reading, Deleting, TypeOK, redis
  <1>19. ASSUME NEW t \in Threads, RepairUnlock(t) PROVE Same(u) \/ Outside(u)
    BY <1>0, <1>19, ZenonT(120) DEF RepairUnlock, Goto, Begin, Return, LockFile, Same, Outside, Reading, Deleting, TypeOK, redis
  <1>20. ASSUME NEW t \in Threads, ReadEnd(t) PROVE Same(u) \/ Outside(u)
    BY <1>0, <1>20, ZenonT(30) DEF ReadEnd, Goto, Begin, Return, LockFile, Same, Outside, Reading, Deleting, TypeOK, redis
  <1>21. ASSUME NEW t \in Threads \ {u}, NEW f \in Names, ReadGetMeta(t, f) PROVE Same(u)
    BY <1>0, <1>21, ZenonT(30) DEF ReadGetMeta, Begin, Same, TypeOK
  <1>22. ASSUME NEW t \in Threads \ {u}, ReadChunk(t) PROVE Same(u)
    BY <1>0, <1>22, ZenonT(120) DEF ReadChunk, ReadReply, Goto, Return, Same, TypeOK
  <1>23. (\E f \in Names : ScanMark(f)) \/ Crash \/ UNCHANGED vars => Same(u) \/ Outside(u)
    BY ZenonT(30) DEF ScanMark, Crash, vars, Same, Outside, Reading, Deleting
  <1> QED BY <1>1, <1>2, <1>3, <1>4, <1>5, <1>6, <1>7, <1>8, <1>9, <1>10, <1>11, <1>12, <1>13, <1>14, <1>15, <1>16, <1>17, <1>18, <1>19, <1>20, <1>21, <1>22, <1>23, ZenonT(30) DEF Next, Start, Step

\* A reader keeps what it has while others write and repair.
LEMMA SoundStays ==
  ASSUME LockInv, DataInv, [Next]_vars, \A t \in Threads : pc[t] # "dMeta",
         NEW u \in Threads, ReadsOwn(u), file'[u] = file[u], of'[u] = of[u]
  PROVE  ReadsOwn(u)'
  <1> DEFINE f == file[u]
             m == of[u]
  <1>1. f \in Names /\ m \in Meta /\ m.ver \in Int
    BY VersionAssumption DEF ReadsOwn, Meta, Versions
  <1>2. /\ meta'[f].ver \in Int /\ meta[f].ver \in Int /\ meta'[f].ver >= meta[f].ver
        /\ meta'[f].ver = meta[f].ver => meta'[f].data = meta[f].data
    BY <1>1, VersionStep, Zenon
  <1>3. meta[f].ver >= m.ver /\ (meta[f].ver = m.ver => meta[f].data = m.data)
    BY Zenon DEF ReadsOwn
  <1>4. meta'[f].ver >= m.ver /\ (meta'[f].ver = m.ver => meta'[f].data = m.data)
    BY <1>1, <1>2, <1>3
  <1>5. ASSUME NEW i \in Stored(m) PROVE store'[KeyOf(f, m, i)] \in {Nil, m.data}
    <2> DEFINE x == KeyOf(f, m, i)
    <2>1. x \in Keys /\ x[2] = f /\ x[3] = m.ver
      BY <1>1, <1>5, KeyType DEF KeyOf
    <2>2. store[x] \in {Nil, m.data}
      BY <1>5, Zenon DEF ReadsOwn
    <2> HIDE DEF x
    <2>3. StoresInOrder(x)
      BY <2>1, ChunkStep, Zenon
    <2>4. m.ver # meta[f].ver + 1
      BY <1>1, <1>2, <1>3
    <2>5. store'[x] \in {Nil, m.data}
      BY <1>3, <2>1, <2>2, <2>3, <2>4, Zenon DEF StoresInOrder
    <2> QED BY <2>5, Zenon DEF x
  <1> QED BY <1>1, <1>4, <1>5, Zenon DEF ReadsOwn

\* Every step keeps ReadInv.
LEMMA ReadInvNext ==
  ASSUME verifyChunkChecksum \/ InOrder, LockInv, InOrder => DataInv, [Next]_vars,
         \A t \in Threads : ReadInv(t), NEW u \in Threads
  PROVE  ReadInv(u)'
  <1>0. TypeOK /\ Places(u) /\ ReadInv(u)
    BY Zenon DEF LockInv
  <1>1. InOrder => \A t \in Threads : pc[t] # "dMeta"
    BY Zenon DEF ReadInv, InOrder, Deleting
  <1>2. CASE Same(u)
    <2>1. InOrder /\ pc[u] \in Reading => ReadsOwn(u)'
      BY <1>0, <1>1, <1>2, SoundStays, ZenonT(30) DEF ReadInv, Same
    <2> QED BY <1>0, <1>2, <2>1, ZenonT(30) DEF ReadInv, Same
  <1>3. CASE Outside(u)
    <2>1. got'[u] = {}
      BY <1>0, <1>3, Zenon DEF ReadInv, Outside
    <2> QED BY <1>0, <1>3, <2>1, ZenonT(30) DEF ReadInv, Outside
  <1>4. ASSUME NEW f \in Names, ReadGetMeta(u, f) PROVE ReadInv(u)'
    <2>1. pc'[u] = "gChk" /\ file'[u] = f /\ of'[u] = meta[f] /\ got'[u] = got[u] /\ pc[u] = "idle"
      BY <1>0, <1>4, ZenonT(30) DEF ReadGetMeta, Begin, TypeOK
    <2>2. got'[u] = {}
      BY <1>0, <2>1, Zenon DEF ReadInv, Reading
    <2>3. meta[f] \in Meta /\ meta' = meta /\ store' = store /\ meta[f].ver \in Int
      BY <1>0, <1>4, NoFileType, VersionAssumption, SMTT(30) DEF ReadGetMeta, TypeOK, redis, Meta, Versions
    <2>4. InOrder => \A i \in Stored(meta[f]) : store[KeyOf(f, meta[f], i)] = meta[f].data
      BY <1>4, Zenon DEF DataInv, Durable, ReadGetMeta
    <2>5. meta[f].ver >= meta[f].ver
      BY <2>3
    <2>6. InOrder => ReadsOwn(u)'
      BY <2>1, <2>3, <2>4, <2>5, ZenonT(30) DEF ReadsOwn
    <2> QED BY <2>1, <2>2, <2>6, ZenonT(30) DEF ReadInv, Reading, Deleting
  <1>5. CASE ReadChunk(u)
    <2>1. PICK i \in todo[u] : ReadReply(u, i)
      BY <1>5, Zenon DEF ReadChunk
    <2>2. meta' = meta /\ store' = store /\ pc[u] = "gChk" /\ i \in Stored(of[u])
      BY <1>0, <1>5, <2>1, ZenonT(30) DEF ReadChunk, redis, Places
    <2>3. CASE Return(u)
      BY <1>0, <2>3, ZenonT(30) DEF Return, ReadInv, TypeOK, Reading, Deleting
    <2>4. CASE ~Return(u)
      <3>1. file' = file /\ of' = of /\ pc'[u] \in Reading
        BY <1>0, <2>1, <2>2, <2>4, ZenonT(30) DEF ReadReply, Goto, Reading, TypeOK
      <3>2. InOrder => ReadsOwn(u)'
        BY <1>0, <2>2, <3>1, ZenonT(30) DEF ReadInv, ReadsOwn, Reading
      <3> DEFINE d == store[KeyOf(file[u], of[u], i)]
      <3>3. got'[u] = got[u] \/ (d # Nil /\ (verifyChunkChecksum => d = of[u].data) /\ got'[u] = got[u] \cup {<<i, d>>})
        BY <1>0, <2>1, <2>4, ZenonT(30) DEF ReadReply, TypeOK
      <3>4. got'[u] = got[u] \/ (got'[u] = got[u] \cup {<<i, d>>} /\ d = of[u].data)
        BY <1>0, <2>2, <3>3, ZenonT(30) DEF ReadInv, ReadsOwn, Reading
      <3> HIDE DEF d
      <3>5. <<i, d>>[2] = d
        OBVIOUS
      <3>6. \A g \in got'[u] : g[2] = of'[u].data
        BY <1>0, <3>1, <3>4, <3>5, ZenonT(30) DEF ReadInv
      <3> QED BY <3>1, <3>2, <3>6, ZenonT(30) DEF ReadInv, Reading, Deleting
    <2> QED BY <2>3, <2>4, Zenon
  <1> QED BY <1>2, <1>3, <1>4, <1>5, ReaderStep, ZenonT(30)

\* A read decodes only chunks of the payload that its metadata stands for, although
\* it takes no lock: always if chunk checksums are verified, and also without that
\* as long as files are written, read and repaired but not deleted, whatever chunk
\* requests and metadata updates fail and whenever the proxy dies: ReadsConsistent.
THEOREM ReadsOnePayload ==
  ASSUME verifyChunkChecksum \/ ("delete" \notin Ops /\ "getMeta" \notin Faults)
  PROVE  Spec => []ReadsConsistent
  <1> DEFINE Inv == LockInv /\ (InOrder => DataInv) /\ \A t \in Threads : ReadInv(t)
  <1>0. verifyChunkChecksum \/ InOrder
    BY Zenon DEF InOrder
  <1>1. Init => Inv
    <2>1. Init => \A t \in Threads : ReadInv(t)
      BY ZenonT(30) DEF Init, ReadInv, Reading, Deleting
    <2> QED BY <2>1, LockInvInit, DataInvInit, Zenon
  <1>2. Inv /\ [Next]_vars => Inv'
    <2> SUFFICES ASSUME Inv, [Next]_vars PROVE Inv'
      BY Zenon
    <2>1. InOrder' <=> InOrder
      BY Zenon DEF InOrder
    <2>2. InOrder => DataInv'
      BY DataInvNext, Zenon DEF InOrder
    <2>3. \A t \in Threads : ReadInv(t)'
      BY <1>0, ReadInvNext, Zenon
    <2> QED BY <2>1, <2>2, <2>3, LockInvNext, Zenon
  <1>3. Inv => ReadsConsistent
    BY Zenon DEF ReadsConsistent, ReadInv
  <1> QED BY <1>1, <1>2, <1>3, PTL DEF Spec

-----------------------------------------------------------------------------
(***************************************************************************)
(* Orphans.  If nothing fails, every chunk in a container is named by the  *)
(* metadata of its file, or by what the thread that has the file locked is *)
(* going to store as its metadata, or by what it is going to delete.       *)
(***************************************************************************)
NothingFails == Flaky = {} /\ Faults = {}

NamedBy(x, m) == \E i \in Stored(m) : x = KeyOf(x[2], m, i)
Caring == {"wMeta", "pMeta", "wDel", "dDel"}
InCare(x, t) ==
    /\ file[t] = x[2]
    /\ \/ pc[t] \in {"wMeta", "pMeta"} /\ NamedBy(x, wf[t])
       \/ pc[t] \in {"wDel", "dDel"} /\ NamedBy(x, of[t])

\* A file of size 0 has no chunks.
Bare(m) == m.data = Empty => m.ids = NoIds

\* What a thread has to keep in mind so that nothing is left behind.
Owed(t) ==
    /\ pc[t] = "dMeta" => of[t] = meta[file[t]]
    /\ pc[t] \in {"wGet", "wPut"} => wf[t].ids = NoIds
    /\ pc[t] = "wMeta" => Bare(wf[t])
    /\ pc[t] = "pMeta" => \A i \in Stored(of[t]) : wf[t].ids[i] = of[t].ids[i]

Claimed(x) == store[x] # Nil => NamedBy(x, meta[x[2]]) \/ \E t \in Threads : InCare(x, t)

OrphanInv ==
    /\ \A x \in Keys : Claimed(x)
    /\ \A f \in Names : Bare(meta[f])
    /\ \A t \in Threads : Owed(t)

\* Without chunks there is nothing to name.
LEMMA NoIdsName ==
  ASSUME NEW m, m.ids = NoIds, NEW x
  PROVE  ~NamedBy(x, m)
  BY Zenon DEF NamedBy, Stored, NoIds

\* The chunks of a locked file are named by its metadata or in the care of the
\* thread that has the lock.
LEMMA HolderClaims ==
  ASSUME LockInv, OrphanInv, NEW t \in Threads, pc[t] \in Locked,
         NEW x \in Keys, x[2] = file[t], store[x] # Nil
  PROVE  NamedBy(x, meta[file[t]]) \/ InCare(x, t)
  BY ZenonT(30) DEF LockInv, Exclusive, Holds, Locked, OrphanInv, Claimed, InCare

\* A step that changes neither metadata nor chunks, of a thread without chunks in care.
LEMMA OrphanQuiet ==
  ASSUME OrphanInv, UNCHANGED <<meta, store>>, NEW t \in Threads, Steady(t), pc[t] \notin Caring, Owed(t)'
  PROVE  OrphanInv'
  <1>1. ASSUME NEW x \in Keys PROVE Claimed(x)'
    <2>1. ASSUME NEW u \in Threads, InCare(x, u) PROVE InCare(x, u)'
      BY <2>1, ZenonT(30) DEF InCare, Steady, Caring
    <2> QED BY <2>1, ZenonT(30) DEF OrphanInv, Claimed
  <1>2. ASSUME NEW u \in Threads \ {t} PROVE Owed(u)'
    <2>1. Owed(u)
      BY <1>2, Zenon DEF OrphanInv
    <2>2. pc'[u] = pc[u] /\ file'[u] = file[u] /\ of'[u] = of[u] /\ wf'[u] = wf[u]
      BY <1>2, Zenon DEF Steady
    <2> QED BY <2>1, <2>2, SMTT(30) DEF Owed
  <1> QED BY <1>1, <1>2, ZenonT(30) DEF OrphanInv

\* A step of a thread that has its file locked, and changes nothing else.
LEMMA OrphanLocked ==
  ASSUME LockInv, OrphanInv, NEW t \in Threads, pc[t] \in Locked, Steady(t),
         \A g \in Names \ {file[t]} : meta'[g] = meta[g],
         \A x \in Keys : x[2] # file[t] => store'[x] = store[x],
         \A x \in Keys : x[2] = file[t] /\ store'[x] # Nil => NamedBy(x, meta'[file[t]]) \/ InCare(x, t)',
         Bare(meta'[file[t]]), Owed(t)'
  PROVE  OrphanInv'
  <1>1. ASSUME NEW x \in Keys PROVE Claimed(x)'
    <2>1. CASE x[2] = file[t]
      BY <2>1, ZenonT(30) DEF Claimed
    <2>2. CASE x[2] # file[t]
      <3>1. x[2] \in Names
        BY DEF Keys
      <3>2. store'[x] = store[x] /\ meta'[x[2]] = meta[x[2]]
        BY <2>2, <3>1, Zenon
      <3>3. ASSUME NEW u \in Threads, InCare(x, u) PROVE InCare(x, u)'
        BY <2>2, <3>3, ZenonT(30) DEF InCare, Steady
      <3> QED BY <3>2, <3>3, ZenonT(30) DEF OrphanInv, Claimed
    <2> QED BY <2>1, <2>2, Zenon
  <1>2. ASSUME NEW u \in Threads \ {t} PROVE Owed(u)'
    <2>1. pc[u] = "dMeta" => file[u] \in Names \ {file[t]}
      BY <1>2, ZenonT(30) DEF LockInv, Exclusive, Holds, Places, Locked
    <2>2. Owed(u)
      BY <1>2, Zenon DEF OrphanInv
    <2>3. pc'[u] = pc[u] /\ file'[u] = file[u] /\ of'[u] = of[u] /\ wf'[u] = wf[u]
      BY <1>2, Zenon DEF Steady
    <2> QED BY <2>1, <2>2, <2>3, SMTT(30) DEF Owed
  <1>3. \A f \in Names : Bare(meta'[f])
    BY ZenonT(30) DEF OrphanInv
  <1> QED BY <1>1, <1>2, <1>3, ZenonT(30) DEF OrphanInv

\* If no container is down, all chunks are alive, and all requests are executed
\* and answered.
LEMMA AllAnswer ==
  ASSUME Flaky = {}
  PROVE  /\ \A m : \A S \in Alive(m) : S = Stored(m)
         /\ \A ids, sent, done : \A S \in Acked(ids, sent, done) : sent \subseteq S /\ S \subseteq done
  BY ZenonT(30) DEF Alive, Acked

\* Every step keeps OrphanInv.
LEMMA OrphanInvNext ==
  ASSUME NothingFails, LockInv, DataInv, OrphanInv, [Next]_vars
  PROVE  OrphanInv'
  <1>0. /\ TypeOK /\ \A t \in Threads : Places(t) /\ Duties(t) /\ Owed(t)
        /\ \A f \in Names : Bare(meta[f])
        /\ Flaky = {} /\ Faults = {}
    BY Zenon DEF LockInv, DataInv, OrphanInv, NothingFails
  <1> USE <1>0
  <1> DEFINE Quiet(t) == Steady(t) /\ UNCHANGED <<meta, store>> /\ pc[t] \notin Caring /\ Owed(t)'
  <1>1. \A t \in Threads : Quiet(t) => OrphanInv'
    BY OrphanQuiet, Zenon
  <1>2. ASSUME NEW t \in Threads, NEW f \in Names, NEW d \in Data \cup {Empty}, WriteLock(t, f, d) PROVE Quiet(t)
    <2>1. Steady(t) /\ UNCHANGED <<meta, store>> /\ pc[t] = "idle" /\ pc'[t] = "wGet" /\ wf'[t] = [NoFile EXCEPT !.data = d]
      BY <1>2, ZenonT(30) DEF WriteLock, Begin, Steady, TypeOK
    <2>2. wf'[t].ids = NoIds
      BY <2>1 DEF NoFile
    <2> QED BY <2>1, <2>2, ZenonT(30) DEF Owed, Caring
  <1>3. ASSUME NEW t \in Threads, NEW f \in Names, DeleteLock(t, f) PROVE Quiet(t)
    BY <1>3, ZenonT(30) DEF DeleteLock, Goto, Begin, Return, LockFile, Steady, Owed, Caring, TypeOK, redis
  <1>4. ASSUME NEW t \in Threads, RepairPop(t) PROVE Quiet(t)
    BY <1>4, ZenonT(30) DEF RepairPop, Goto, Begin, Return, LockFile, Steady, Owed, Caring, TypeOK, redis
  <1>5. ASSUME NEW t \in Threads, WriteNoSpace(t) PROVE Quiet(t)
    BY <1>5, ZenonT(30) DEF WriteNoSpace, Goto, Begin, Return, LockFile, Steady, Owed, Caring, TypeOK, redis
  <1>6. ASSUME NEW t \in Threads, DeleteGetMeta(t) PROVE Quiet(t)
    <2>1. Steady(t) /\ UNCHANGED <<meta, store, file>> /\ pc[t] = "dGet" /\ pc'[t] \in {"dMeta", "unlock"}
      BY <1>6, ZenonT(30) DEF DeleteGetMeta, Goto, Steady, TypeOK, redis
    <2>2. of'[t] = meta[file[t]]
      BY <1>6, ZenonT(30) DEF DeleteGetMeta, GetMeta, TypeOK
    <2> QED BY <2>1, <2>2, ZenonT(30) DEF Owed, Caring
  <1>7. ASSUME NEW t \in Threads, Unlock(t) PROVE Quiet(t)
    BY <1>7, ZenonT(30) DEF Unlock, Goto, Begin, Return, LockFile, Steady, Owed, Caring, TypeOK, redis
  <1>8. ASSUME NEW t \in Threads, RepairLock(t) PROVE Quiet(t)
    BY <1>8, ZenonT(30) DEF RepairLock, Goto, Begin, Return, LockFile, Steady, Owed, Caring, TypeOK, redis
  <1>9. ASSUME NEW t \in Threads, RepairBusy(t) PROVE Quiet(t)
    BY <1>9, ZenonT(30) DEF RepairBusy, Goto, Begin, Return, LockFile, Steady, Owed, Caring, TypeOK, redis
  <1>10. ASSUME NEW t \in Threads, RepairDone(t) PROVE Quiet(t)
    BY <1>10, ZenonT(30) DEF RepairDone, Goto, Begin, Return, LockFile, Steady, Owed, Caring, TypeOK, redis
  <1>11. ASSUME NEW t \in Threads, RepairGetMeta(t) PROVE Quiet(t)
    BY <1>11, ZenonT(30) DEF RepairGetMeta, Goto, Begin, Return, LockFile, Steady, Owed, Caring, TypeOK, redis
  <1>12. ASSUME NEW t \in Threads, RepairUnlock(t) PROVE Quiet(t)
    BY <1>12, ZenonT(90) DEF RepairUnlock, Goto, Begin, Return, LockFile, Steady, Owed, Caring, TypeOK, redis
  <1>13. ASSUME NEW t \in Threads, ReadEnd(t) PROVE Quiet(t)
    BY <1>13, ZenonT(30) DEF ReadEnd, Goto, Begin, Return, LockFile, Steady, Owed, Caring, TypeOK, redis
  <1>14. ASSUME NEW t \in Threads, NEW f \in Names, ReadGetMeta(t, f) PROVE Quiet(t)
    BY <1>14, ZenonT(30) DEF ReadGetMeta, Goto, Begin, Return, LockFile, Steady, Owed, Caring, TypeOK, redis
  <1>15. ASSUME NEW t \in Threads, WriteGetMeta(t) PROVE Quiet(t)
    <2>1. Steady(t) /\ UNCHANGED <<meta, store>> /\ pc[t] = "wGet" /\ pc'[t] \in {"wPut", "wMeta"}
      BY <1>15, ZenonT(30) DEF WriteGetMeta, Goto, Steady, TypeOK, redis
    <2>2. PICK v : wf' = [wf EXCEPT ![t].ver = v]
      BY <1>15, ZenonT(30) DEF WriteGetMeta
    <2>3. wf'[t].ids = wf[t].ids
      BY <2>2 DEF TypeOK, File
    <2>4. wf'[t].ids = NoIds
      BY <2>1, <2>3, Zenon DEF Owed
    <2> QED BY <2>1, <2>4, ZenonT(30) DEF Owed, Caring, Bare
  <1>16. ASSUME NEW t \in Threads, ReadChunk(t) PROVE Quiet(t)
    <2>1. UNCHANGED <<meta, store>> /\ pc[t] = "gChk"
      BY <1>16, ZenonT(30) DEF ReadChunk, redis
    <2>2. Steady(t) /\ pc'[t] \in {"gChk", "gEnd", "idle"}
      BY <1>16, ZenonT(120) DEF ReadChunk, ReadReply, Goto, Return, Steady, TypeOK
    <2> QED BY <2>1, <2>2, ZenonT(30) DEF Owed, Caring
  <1>17. ASSUME NEW t \in Threads, WriteStripes(t) PROVE OrphanInv'
    <2> DEFINE f == file[t]
    <2>1. pc[t] = "wPut" /\ f \in Names /\ wf[t] \in File /\ wf[t].data # Empty
      BY <1>17, ValueAssumption, ZenonT(30) DEF WriteStripes, TypeOK, Places, Locked
    <2>2. PICK numSpare \in K .. N : \E p \in Placements(0 .. numSpare - 1, {}) :
             \E done \in SUBSET DOMAIN p : \E ack \in Acked(p, DOMAIN p, done) : WriteOutcome(t, p, done, ack)
      BY <1>17, Zenon DEF WriteStripes
    <2>3. PICK p, ack :
             /\ p \in [0 .. numSpare - 1 -> Containers] /\ ack = 0 .. numSpare - 1
             /\ WriteOutcome(t, p, ack, ack)
      <3>1. PICK p \in Placements(0 .. numSpare - 1, {}) : \E done \in SUBSET DOMAIN p :
               \E ack \in Acked(p, DOMAIN p, done) : WriteOutcome(t, p, done, ack)
        BY <2>2, Zenon
      <3>2. PICK done \in SUBSET DOMAIN p : \E ack \in Acked(p, DOMAIN p, done) : WriteOutcome(t, p, done, ack)
        BY <3>1, Zenon
      <3> PICK ack \in Acked(p, DOMAIN p, done) : WriteOutcome(t, p, done, ack)
        BY <3>2, Zenon
      <3>3. DOMAIN p \subseteq ack /\ ack \subseteq done
        BY <3>2, AllAnswer, ZenonT(30)
      <3>4. ack = DOMAIN p /\ done = DOMAIN p
        BY <3>2, <3>3, ZenonT(30)
      <3>5. p \in [0 .. numSpare - 1 -> Containers] /\ DOMAIN p = 0 .. numSpare - 1
        BY <3>1, ZenonT(30) DEF Placements
      <3> QED BY <3>2, <3>4, <3>5, Zenon
    <2> DEFINE q == [i \in Idx |-> IF i \in ack THEN p[i] ELSE INVALID_CONTAINER_ID]
               w == [wf[t] EXCEPT !.ids = q]
               put == {<<p[i], f, wf[t].ver, i>> : i \in ack}
    <2>4. ack \subseteq Idx
      BY <2>3, CodingAssumption, SMTT(30) DEF Idx
    <2>5. store' = Updated(put, wf[t].data, {}) /\ wf' = [wf EXCEPT ![t] = w] /\ pc' = [pc EXCEPT ![t] = "wMeta"]
      BY <2>3, ZenonT(30) DEF WriteOutcome, StripeStands, Goto
    <2>6. q \in Ids
      BY <2>3, <2>4, ZenonT(30) DEF Ids
    <2>7. w.ids = q /\ w.ver = wf[t].ver /\ w.data = wf[t].data
      BY <2>1, <2>6, FileFields, Zenon
    <2>8. Steady(t) /\ UNCHANGED <<meta, file>> /\ pc'[t] = "wMeta" /\ wf'[t] = w
      BY <1>17, <2>5, ZenonT(30) DEF WriteStripes, Steady, TypeOK, redis
    <2>9. ASSUME NEW i \in ack PROVE i \in Stored(w) /\ <<p[i], f, wf[t].ver, i>> = KeyOf(f, w, i)
      BY <2>3, <2>4, <2>7, <2>9, ValueAssumption, SMTT(30) DEF Stored, KeyOf
    <2> HIDE DEF w, q
    <2>10. ASSUME NEW x \in put PROVE x[2] = f /\ NamedBy(x, w)
      <3>1. PICK i \in ack : x = <<p[i], f, wf[t].ver, i>>
        BY <2>10, Zenon
      <3>2. x[2] = f
        BY <3>1
      <3> QED BY <2>9, <3>1, <3>2, Zenon DEF NamedBy
    <2> HIDE DEF put
    <2>11. \A x \in Keys : x[2] # f => store'[x] = store[x]
      BY <2>5, <2>10, ZenonT(30) DEF Updated
    <2>12. ASSUME NEW x \in Keys, x[2] = f, store'[x] # Nil PROVE NamedBy(x, meta'[f]) \/ InCare(x, t)'
      <3>1. CASE x \in put
        BY <2>8, <2>10, <2>12, <3>1, ZenonT(30) DEF InCare
      <3>2. CASE x \notin put
        <4>1. store[x] # Nil
          BY <2>5, <2>12, <3>2, ZenonT(30) DEF Updated
        <4>2. ~InCare(x, t)
          BY <2>1, ZenonT(30) DEF InCare
        <4> QED BY <2>1, <2>8, <2>12, <4>1, <4>2, HolderClaims, ZenonT(30) DEF Locked
      <3> QED BY <3>1, <3>2, Zenon
    <2>13. Owed(t)'
      BY <2>1, <2>7, <2>8, ZenonT(30) DEF Owed, Bare
    <2> QED BY <2>1, <2>8, <2>11, <2>12, <2>13, OrphanLocked, ZenonT(30) DEF Locked
  <1>18. ASSUME NEW t \in Threads, WritePutMeta(t) PROVE OrphanInv'
    <2> DEFINE f == file[t]
    <2>1. pc[t] = "wMeta" /\ f \in Names /\ of[t] = meta[f]
      BY <1>18, ZenonT(30) DEF WritePutMeta, Places, Duties, Locked
    <2>2. meta' = [meta EXCEPT ![f] = wf[t]] /\ pc' = [pc EXCEPT ![t] = IF Exists(of[t]) THEN "wDel" ELSE "unlock"]
      BY <1>18, ZenonT(30) DEF WritePutMeta, PutMeta, Goto
    <2>3. Steady(t) /\ UNCHANGED <<store, file, of>>
      BY <1>18, <2>2, ZenonT(30) DEF WritePutMeta, Steady, TypeOK
    <2>4. meta'[f] = wf[t] /\ \A g \in Names \ {f} : meta'[g] = meta[g]
      BY <2>1, <2>2, ZenonT(30) DEF TypeOK
    <2>5. ASSUME NEW x \in Keys, x[2] = f, store'[x] # Nil PROVE NamedBy(x, meta'[f]) \/ InCare(x, t)'
      <3>1. NamedBy(x, of[t]) \/ NamedBy(x, wf[t])
        BY <2>1, <2>3, <2>5, HolderClaims, ZenonT(30) DEF Locked, InCare
      <3>2. CASE NamedBy(x, of[t])
        <4>1. Exists(of[t])
          <5>1. NoFile.ids = NoIds
            BY DEF NoFile
          <5>2. of[t] # NoFile
            BY <3>2, <5>1, NoIdsName, Zenon
          <5> QED BY <2>1, <5>2, SMTT(30) DEF TypeOK, Exists, Meta, Versions
        <4>2. pc'[t] = "wDel"
          BY <2>2, <4>1, ZenonT(30) DEF TypeOK
        <4> QED BY <2>3, <2>5, <3>2, <4>2, ZenonT(30) DEF InCare
      <3> QED BY <2>4, <3>1, <3>2, Zenon
    <2>6. Bare(meta'[f])
      BY <2>1, <2>4, ZenonT(30) DEF Owed
    <2>7. Owed(t)'
      BY <2>2, ZenonT(30) DEF Owed, TypeOK
    <2>8. \A x \in Keys : x[2] # f => store'[x] = store[x]
      BY <2>3, Zenon
    <2> QED BY <2>1, <2>3, <2>4, <2>5, <2>6, <2>7, <2>8, OrphanLocked, ZenonT(30) DEF Locked
  <1>19. ASSUME NEW t \in Threads, WriteDeleteOld(t) PROVE OrphanInv'
    <2> DEFINE f == file[t]
    <2>1. pc[t] = "wDel" /\ f \in Names
      BY <1>19, ZenonT(30) DEF WriteDeleteOld, Places, Locked
    <2>2. store' = Updated({}, Nil, KeysOf(f, of[t], Stored(of[t])))
      <3>1. PICK alive \in Alive(of[t]) : \E del \in SUBSET alive :
               /\ Acked(of[t].ids, alive, del) # {}
               /\ store' = Updated({}, Nil, KeysOf(f, of[t], del))
        BY <1>19, Zenon DEF WriteDeleteOld
      <3>2. PICK del \in SUBSET alive :
               Acked(of[t].ids, alive, del) # {} /\ store' = Updated({}, Nil, KeysOf(f, of[t], del))
        BY <3>1, Zenon
      <3>3. alive = Stored(of[t]) /\ alive \subseteq del
        BY <3>2, AllAnswer, ZenonT(30)
      <3>4. del = alive
        BY <3>2, <3>3, Zenon
      <3> QED BY <3>2, <3>3, <3>4, Zenon
    <2>3. Steady(t) /\ UNCHANGED <<meta, file>> /\ pc'[t] = "unlock"
      BY <1>19, ZenonT(30) DEF WriteDeleteOld, Goto, Steady, TypeOK, redis
    <2>4. \A x \in KeysOf(f, of[t], Stored(of[t])) : x[2] = f
      BY KeysNamed, Zenon
    <2>5. \A x \in Keys : x[2] # f => store'[x] = store[x]
      BY <2>2, <2>4, ZenonT(30) DEF Updated
    <2>6. ASSUME NEW x \in Keys, x[2] = f, store'[x] # Nil PROVE NamedBy(x, meta'[f])
      <3>1. store[x] # Nil /\ x \notin KeysOf(f, of[t], Stored(of[t]))
        BY <2>2, <2>6, ZenonT(30) DEF Updated
      <3>2. ~InCare(x, t)
        BY <2>1, <2>6, <3>1, ZenonT(30) DEF InCare, NamedBy, KeysOf
      <3> QED BY <2>1, <2>3, <2>6, <3>1, <3>2, HolderClaims, ZenonT(30) DEF Locked
    <2>7. Bare(meta'[f]) /\ Owed(t)'
      BY <2>1, <2>3, ZenonT(30) DEF Owed
    <2> QED BY <2>1, <2>3, <2>5, <2>6, <2>7, OrphanLocked, ZenonT(30) DEF Locked
  <1>20. ASSUME NEW t \in Threads, DeleteChunks(t) PROVE OrphanInv'
    <2> DEFINE f == file[t]
    <2>1. pc[t] = "dDel" /\ f \in Names
      BY <1>20, ZenonT(30) DEF DeleteChunks, Places, Locked
    <2>2. store' = Updated({}, Nil, KeysOf(f, of[t], Stored(of[t])))
      <3>1. PICK alive \in Alive(of[t]) : \E done \in SUBSET alive :
               /\ Acked(of[t].ids, alive, done) # {}
               /\ store' = Updated({}, Nil, KeysOf(f, of[t], done))
        BY <1>20, ZenonT(30) DEF DeleteChunks
      <3>2. PICK done \in SUBSET alive :
               Acked(of[t].ids, alive, done) # {} /\ store' = Updated({}, Nil, KeysOf(f, of[t], done))
        BY <3>1, Zenon
      <3>3. alive = Stored(of[t]) /\ alive \subseteq done
        BY <3>2, AllAnswer, ZenonT(30)
      <3>4. done = alive
        BY <3>2, <3>3, Zenon
      <3> QED BY <3>2, <3>3, <3>4, Zenon
    <2>3. Steady(t) /\ UNCHANGED <<meta, file>> /\ pc'[t] = "unlock"
      BY <1>20, ZenonT(30) DEF DeleteChunks, Goto, Steady, TypeOK, redis
    <2>4. \A x \in KeysOf(f, of[t], Stored(of[t])) : x[2] = f
      BY KeysNamed, Zenon
    <2>5. \A x \in Keys : x[2] # f => store'[x] = store[x]
      BY <2>2, <2>4, ZenonT(30) DEF Updated
    <2>6. ASSUME NEW x \in Keys, x[2] = f, store'[x] # Nil PROVE NamedBy(x, meta'[f])
      <3>1. store[x] # Nil /\ x \notin KeysOf(f, of[t], Stored(of[t]))
        BY <2>2, <2>6, ZenonT(30) DEF Updated
      <3>2. ~InCare(x, t)
        BY <2>1, <2>6, <3>1, ZenonT(30) DEF InCare, NamedBy, KeysOf
      <3> QED BY <2>1, <2>3, <2>6, <3>1, <3>2, HolderClaims, ZenonT(30) DEF Locked
    <2>7. Bare(meta'[f]) /\ Owed(t)'
      BY <2>1, <2>3, ZenonT(30) DEF Owed
    <2> QED BY <2>1, <2>3, <2>5, <2>6, <2>7, OrphanLocked, ZenonT(30) DEF Locked
  <1>21. ASSUME NEW t \in Threads, DeleteMeta(t) PROVE OrphanInv'
    <2> DEFINE f == file[t]
    <2>1. pc[t] = "dMeta" /\ f \in Names /\ of[t] = meta[f]
      BY <1>21, ZenonT(30) DEF DeleteMeta, Places, Owed, Locked
    <2>2. meta' = [meta EXCEPT ![f] = NoFile] /\ pc' = [pc EXCEPT ![t] = IF of[t].data # Empty THEN "dDel" ELSE "unlock"]
      BY <1>21, ZenonT(30) DEF DeleteMeta, RemoveMeta, PutMeta, Goto
    <2>3. Steady(t) /\ UNCHANGED <<store, file, of>>
      BY <1>21, <2>2, ZenonT(30) DEF DeleteMeta, Steady, TypeOK
    <2>4. meta'[f] = NoFile /\ \A g \in Names \ {f} : meta'[g] = meta[g]
      BY <2>1, <2>2, ZenonT(30) DEF TypeOK
    <2>5. ASSUME NEW x \in Keys, x[2] = f, store'[x] # Nil PROVE InCare(x, t)'
      <3>1. NamedBy(x, of[t])
        BY <2>1, <2>3, <2>5, HolderClaims, ZenonT(30) DEF Locked, InCare
      <3>2. of[t].data # Empty
        BY <2>1, <3>1, NoIdsName, ZenonT(30) DEF Bare
      <3>3. pc'[t] = "dDel"
        BY <2>2, <3>2, ZenonT(30) DEF TypeOK
      <3> QED BY <2>3, <2>5, <3>1, <3>3, ZenonT(30) DEF InCare
    <2>6. Bare(meta'[f])
      BY <2>4 DEF Bare, NoFile
    <2>7. Owed(t)'
      BY <2>2, ZenonT(30) DEF Owed, TypeOK
    <2>8. \A x \in Keys : x[2] # f => store'[x] = store[x]
      BY <2>3, Zenon
    <2> QED BY <2>1, <2>3, <2>4, <2>5, <2>6, <2>7, <2>8, OrphanLocked, ZenonT(30) DEF Locked
  <1>22. ASSUME NEW t \in Threads, RepairPutMeta(t) PROVE OrphanInv'
    <2> DEFINE f == file[t]
    <2>1. pc[t] = "pMeta" /\ f \in Names /\ of[t] = meta[f] /\ wf[t].ver = of[t].ver /\ wf[t].data = of[t].data
          /\ of[t].data # Empty /\ \A i \in Stored(of[t]) : wf[t].ids[i] = of[t].ids[i]
      BY <1>22, ZenonT(30) DEF RepairPutMeta, Places, Duties, Owed, Locked
    <2>2. meta' = [meta EXCEPT ![f] = wf[t]] /\ pc' = [pc EXCEPT ![t] = "pUnlock"]
      BY <1>22, ZenonT(30) DEF RepairPutMeta, PutMeta, Goto
    <2>3. Steady(t) /\ UNCHANGED <<store, file, of>>
      BY <1>22, <2>2, ZenonT(30) DEF RepairPutMeta, Steady, TypeOK
    <2>4. meta'[f] = wf[t] /\ \A g \in Names \ {f} : meta'[g] = meta[g]
      BY <2>1, <2>2, ZenonT(30) DEF TypeOK
    <2>5. ASSUME NEW x \in Keys, x[2] = f, store'[x] # Nil PROVE NamedBy(x, meta'[f])
      <3>1. NamedBy(x, of[t]) \/ NamedBy(x, wf[t])
        BY <2>1, <2>3, <2>5, HolderClaims, ZenonT(30) DEF Locked, InCare
      <3>2. NamedBy(x, of[t]) => NamedBy(x, wf[t])
        BY <2>1, ZenonT(30) DEF NamedBy, Stored, KeyOf
      <3> QED BY <2>4, <3>1, <3>2, Zenon
    <2>6. Bare(meta'[f])
      BY <2>1, <2>4, ZenonT(30) DEF Bare
    <2>7. Owed(t)'
      BY <2>2, ZenonT(30) DEF Owed, TypeOK
    <2>8. \A x \in Keys : x[2] # f => store'[x] = store[x]
      BY <2>3, Zenon
    <2> QED BY <2>1, <2>3, <2>4, <2>5, <2>6, <2>7, <2>8, OrphanLocked, ZenonT(30) DEF Locked
  <1>23. ASSUME NEW t \in Threads, RepairFix(t) PROVE OrphanInv'
    <2> DEFINE f == file[t]
               m == of[t]
               failed == Idx \ Stored(m)
    <2>1. /\ pc[t] = "pFix" /\ f \in Names /\ m \in Meta /\ m = meta[f] /\ wf[t] = m /\ m.data # Empty
          /\ m \in File
      BY <1>23, MetaFile, ZenonT(30) DEF RepairFix, Places, Duties, Locked
    <2>2. RepairOutcome(t, Stored(m))
      BY <1>23, AllAnswer, ZenonT(30) DEF RepairFix
    <2>3. Steady(t) /\ UNCHANGED <<meta, file, of>> /\ pc'[t] \in {"pMeta", "pFail"}
      BY <1>23, <2>2, ZenonT(30) DEF RepairFix, RepairOutcome, Goto, Steady, TypeOK, redis
    <2>4. ASSUME NEW x \in Keys, x[2] = f, store[x] # Nil PROVE NamedBy(x, meta[f])
      BY <2>1, <2>4, HolderClaims, ZenonT(30) DEF Locked, InCare
    <2>5. CASE UNCHANGED <<store, wf>>
      <3>1. Owed(t)'
        BY <2>1, <2>3, <2>5, ZenonT(30) DEF Owed
      <3> QED BY <2>1, <2>3, <2>5, <3>1, OrphanQuiet, ZenonT(30) DEF Caring
    <2>6. CASE ~UNCHANGED <<store, wf>>
      <3> DEFINE Result(p, done, ack) ==
                     /\ store' = Updated({<<p[i], f, m.ver, i>> : i \in done},
                                         Decode({store[x] : x \in KeysOf(f, m, FirstK(Stored(m)))}), {})
                     /\ IF ack = failed
                        THEN /\ wf' = [wf EXCEPT ![t].ids = [i \in Idx |-> IF i \in failed THEN p[i] ELSE @[i]]]
                             /\ Goto(t, "pMeta")
                        ELSE Goto(t, "pFail") /\ UNCHANGED wf
      <3>1. PICK p \in Placements(failed, {m.ids[i] : i \in Stored(m)}) :
               \E done \in SUBSET failed : \E ack \in Acked(p, failed, done) : Result(p, done, ack)
        BY <2>2, <2>6, ZenonT(30) DEF RepairOutcome
      <3> HIDE DEF Result
      <3>2. PICK done \in SUBSET failed : \E ack \in Acked(p, failed, done) : Result(p, done, ack)
        BY <3>1, Zenon
      <3>3. PICK ack \in Acked(p, failed, done) : Result(p, done, ack)
        BY <3>2, Zenon
      <3>4. failed \subseteq ack /\ ack \subseteq done
        BY <3>3, AllAnswer, ZenonT(60)
      <3>5. ack = failed /\ done = failed
        BY <3>2, <3>4, Zenon
      <3> DEFINE q == [i \in Idx |-> IF i \in failed THEN p[i] ELSE m.ids[i]]
                 w == [m EXCEPT !.ids = q]
                 put == {<<p[i], f, m.ver, i>> : i \in failed}
      <3>6. /\ \E d : store' = Updated(put, d, {})
            /\ wf' = [wf EXCEPT ![t] = w] /\ pc' = [pc EXCEPT ![t] = "pMeta"]
        BY <2>1, <3>3, <3>5, ZenonT(30) DEF Result, Goto, TypeOK
      <3>7. q \in Ids
        BY <2>1, <3>1, FileFields, SMTT(60) DEF Ids, Placements
      <3>8. w.ids = q /\ w.ver = m.ver /\ w.data = m.data
        BY <2>1, <3>7, FileFields, Zenon
      <3>9. wf'[t] = w /\ pc'[t] = "pMeta"
        BY <3>6, Zenon DEF TypeOK
      <3>10. ASSUME NEW i \in failed PROVE i \in Stored(w) /\ <<p[i], f, m.ver, i>> = KeyOf(f, w, i)
        <4>1. i \in Idx /\ p[i] \in Containers
          BY <3>1, <3>10, ZenonT(30) DEF Placements
        <4>2. w.ids[i] = p[i]
          BY <3>8, <3>10, <4>1, Zenon
        <4> QED BY <3>8, <4>1, <4>2, ValueAssumption, Zenon DEF Stored, KeyOf
      <3>11. ASSUME NEW i \in Stored(m) PROVE w.ids[i] = m.ids[i] /\ i \in Stored(w) /\ KeyOf(f, m, i) = KeyOf(f, w, i)
        <4>1. i \in Idx /\ i \notin failed /\ m.ids[i] # INVALID_CONTAINER_ID
          BY <3>11, Zenon DEF Stored
        <4>2. w.ids[i] = m.ids[i]
          BY <3>8, <4>1, Zenon
        <4> QED BY <3>8, <4>1, <4>2, Zenon DEF Stored, KeyOf
      <3> HIDE DEF w, q
      <3>12. ASSUME NEW x \in put PROVE x[2] = f /\ NamedBy(x, w)
        <4>1. PICK i \in failed : x = <<p[i], f, m.ver, i>>
          BY <3>12, Zenon
        <4>2. x[2] = f
          BY <4>1
        <4> QED BY <3>10, <4>1, <4>2, Zenon DEF NamedBy
      <3> HIDE DEF put
      <3>13. \A x \in Keys : x[2] # f => store'[x] = store[x]
        BY <3>6, <3>12, ZenonT(30) DEF Updated
      <3>14. ASSUME NEW x \in Keys, x[2] = f, store'[x] # Nil PROVE NamedBy(x, meta'[f]) \/ InCare(x, t)'
        <4>1. CASE x \in put
          BY <2>3, <3>9, <3>12, <3>14, <4>1, ZenonT(30) DEF InCare
        <4>2. CASE x \notin put
          <5>1. store[x] # Nil
            BY <3>6, <3>14, <4>2, ZenonT(30) DEF Updated
          <5> QED BY <2>3, <2>4, <3>14, <5>1, Zenon
        <4> QED BY <4>1, <4>2, Zenon
      <3>15. Owed(t)'
        BY <2>3, <3>9, <3>11, ZenonT(30) DEF Owed
      <3>16. Bare(meta'[f])
        BY <2>1, <2>3, Zenon
      <3> QED BY <2>1, <2>3, <3>13, <3>14, <3>15, <3>16, OrphanLocked, ZenonT(30) DEF Locked
    <2> QED BY <2>5, <2>6, Zenon
  <1>24. ASSUME (\E f \in Names : ScanMark(f)) \/ UNCHANGED vars PROVE OrphanInv'
    <2>1. UNCHANGED <<meta, store, pc, file, of, wf>>
      BY <1>24, ZenonT(30) DEF ScanMark, vars
    <2>2. ASSUME NEW x PROVE Claimed(x)' <=> Claimed(x)
      BY <2>1, ZenonT(30) DEF Claimed, InCare
    <2>3. ASSUME NEW t \in Threads PROVE Owed(t)' <=> Owed(t)
      BY <2>1, SMTT(30) DEF Owed
    <2> QED BY <2>1, <2>2, <2>3, ZenonT(30) DEF OrphanInv
  <1>25. ~Crash
    BY Zenon DEF Crash
  <1> QED
    BY <1>1, <1>2, <1>3, <1>4, <1>5, <1>6, <1>7, <1>8, <1>9, <1>10, <1>11, <1>12, <1>13, <1>14, <1>15, <1>16, <1>17,
       <1>18, <1>19, <1>20, <1>21, <1>22, <1>23, <1>24, <1>25, ZenonT(30)
    DEF Next, Start, Step

\* As long as no request, metadata update or proxy fails, nothing is left behind:
\* when no operation runs, every chunk in a container is named by the metadata of
\* its file, after any overwrites, deletes and repairs, by any threads: NoOrphans.
THEOREM NothingLeftBehind ==
  ASSUME Flaky = {}, Faults = {}
  PROVE  Spec => []NoOrphans
  <1> DEFINE Inv == LockInv /\ DataInv /\ OrphanInv
  <1>0. NothingFails /\ "getMeta" \notin Faults
    BY Zenon DEF NothingFails
  <1>1. Init => Inv
    <2> SUFFICES ASSUME Init PROVE OrphanInv
      BY LockInvInit, DataInvInit, Zenon
    <2>1. Bare(NoFile)
      BY DEF Bare, NoFile
    <2> QED BY <2>1, ZenonT(30) DEF Init, OrphanInv, Claimed, Owed
  <1>2. Inv /\ [Next]_vars => Inv'
    BY <1>0, LockInvNext, DataInvNext, OrphanInvNext, Zenon
  <1>3. Inv => NoOrphans
    BY ZenonT(30) DEF OrphanInv, Claimed, InCare, NamedBy, NoOrphans
  <1> QED BY <1>1, <1>2, <1>3, PTL DEF Spec

=============================================================================
