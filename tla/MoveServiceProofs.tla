-------------------------- MODULE MoveServiceProofs --------------------------
(***************************************************************************)
(* Chunks and metadata under renames and copies.  The metadata of a file   *)
(* names its chunks, except while they are moved away from it or copied    *)
(* over its own (MovingBy), and on a file that a dead proxy left locked.   *)
(*                                                                         *)
(* A rename finds out, or sees to it, that its destination does not exist, *)
(* and unlocks it before it moves anything to it.  That this is still so   *)
(* then is why the proofs are about one request at a time: the repair      *)
(* threads beside it bring no file into existence.                         *)
(***************************************************************************)
EXTENDS FileMoveProofs

\* One request at a time, the containers answer, and Redis reports no error.
\* Repair threads, deaths of the proxy and the constants are arbitrary.
OneRequest ==
    /\ \A t, u \in Workers : t = u
    /\ Flaky = {} /\ Faults \subseteq {"crash"}

RepairLabels == {"idle", "pLock", "pGet", "pFix", "pMeta", "pUnlock", "pFail"}

\* Where the destination of a rename is known not to exist.
DstFree == {"nDel", "nUnlock", "mLockDst", "mMove", "mMeta", "mRevert"}

MovingBy(t, f) ==
    \/ pc[t] \in {"mMeta", "mRevert"} /\ file[t] = f
    \/ pc[t] = "cMeta" /\ dst[t] = f

Settled == \A f \in Names : Exists(meta[f]) /\ ~Moving(f) => Backed(store, f, meta[f])

\* What a thread knows of its files where it changes chunks or metadata.
MDuties(t) ==
    /\ t \in Repairers => pc[t] \in RepairLabels
    /\ pc[t] \in {"wPut", "wMeta"} => of[t] = meta[file[t]] /\ wf[t].ver = meta[file[t]].ver + 1
    /\ pc[t] = "wMeta" => Backed(store, file[t], wf[t])
    /\ pc[t] = "wDel" => of[t].ver # meta[file[t]].ver
    /\ pc[t] = "dDel" => ~Exists(meta[file[t]])
    /\ pc[t] \in {"pFix", "pMeta"} =>
          /\ of[t] = meta[file[t]] /\ of[t].data # Empty
          /\ wf[t].ver = of[t].ver /\ wf[t].data = of[t].data
    /\ pc[t] = "pFix" => wf[t] = of[t]
    /\ pc[t] = "pMeta" => Backed(store, file[t], wf[t])
    /\ pc[t] \in SrcKnown => of[t] = meta[file[t]]
    /\ pc[t] \in DstFree => ~Exists(meta[dst[t]])
    /\ pc[t] \in {"mMeta", "mRevert"} => Backed(store, dst[t], of[t]) /\ (of[t].data # Empty => wf[t] = of[t])
    /\ pc[t] = "cMeta" => Backed(store, dst[t], wf[t]) /\ wf[t].data = of[t].data

MDataInv == Settled /\ \A t \in Threads : MDuties(t)

\* What a step of t has to see to.
Keeps(t) ==
    /\ \A g \in Names : ~MHolds(t, g) => \A m \in Meta : Backed(store, g, m) => Backed(store', g, m)
    /\ \A g \in Names : MHolds(t, g) /\ Exists(meta'[g]) /\ ~MovingBy(t, g)' => Backed(store', g, meta'[g])
    /\ t \in Workers \/ \A g \in Names : Exists(meta'[g]) => Exists(meta[g])
    /\ MDuties(t)'

\* A moving file is held by the thread that moves it.
LEMMA MovingHeld ==
  ASSUME NEW t, NEW f, MovingBy(t, f)
  PROVE  MHolds(t, f)
  BY Zenon DEF MovingBy, MHolds, LockedSrc, LockedDst

\* A file that a thread holds and does not move is as its metadata says.
LEMMA HeldBacked ==
  ASSUME MLockInv, MDataInv, NEW t \in Threads, NEW f \in Names, MHolds(t, f), ~MovingBy(t, f), Exists(meta[f])
  PROVE  meta[f] \in Meta /\ Backed(store, f, meta[f])
  <1>1. ~LeftLocked(f)
    BY Zenon DEF LeftLocked
  <1>2. \A u \in Threads : ~MovingBy(u, f)
    BY MovingHeld, Zenon DEF MLockInv, MExclusive
  <1>3. ~Moving(f)
    BY <1>1, <1>2, Zenon DEF Moving, MovingBy
  <1> QED BY <1>3, NoFileType, Zenon DEF MDataInv, Settled, MLockInv, MTypeOK

\* A step that does keeps the invariant.
LEMMA KeepsStep ==
  ASSUME OneRequest, MLockInv, MDataInv, NEW t \in Threads, Sound(t), Keeps(t)
  PROVE  MDataInv'
  <1>1. ASSUME NEW f \in Names, Exists(meta'[f]), ~Moving(f)' PROVE Backed(store', f, meta'[f])
    <2>1. CASE MHolds(t, f)
      <3>1. ~MovingBy(t, f)'
        BY <1>1, Zenon DEF Moving, MovingBy
      <3> QED BY <1>1, <2>1, <3>1, Zenon DEF Keeps
    <2>2. CASE ~MHolds(t, f)
      <3>1. \A u \in Threads \ {t} : (MHolds(u, f)' <=> MHolds(u, f)) /\ (MovingBy(u, f)' <=> MovingBy(u, f))
        BY Zenon DEF Sound, MOthers, MHolds, MovingBy
      <3>2. LeftLocked(f) => LeftLocked(f)'
        BY <2>2, <3>1, Zenon DEF LeftLocked, Sound, LockStep
      <3>3. \A u \in Threads : ~MovingBy(u, f)
        <4>1. \A u \in Threads : ~MovingBy(u, f)'
          BY <1>1, Zenon DEF Moving, MovingBy
        <4> QED BY <2>2, <3>1, <4>1, MovingHeld, Zenon
      <3>4. ~Moving(f)
        BY <1>1, <3>2, <3>3, Zenon DEF Moving, MovingBy
      <3>5. meta'[f] = meta[f]
        BY <2>2, Zenon DEF Sound, MetaFrame
      <3>6. meta[f] \in Meta /\ Backed(store, f, meta[f])
        BY <1>1, <3>4, <3>5, NoFileType, Zenon DEF MDataInv, Settled, MLockInv, MTypeOK
      <3> QED BY <2>2, <3>5, <3>6, Zenon DEF Keeps
    <2> QED BY <2>1, <2>2, Zenon
  <1>2. ASSUME NEW u \in Threads \ {t} PROVE MDuties(u)'
    <2>1. MDuties(u) /\ MPlaces(u)
      BY Zenon DEF MDataInv, MLockInv
    <2>2. pc'[u] = pc[u] /\ file'[u] = file[u] /\ dst'[u] = dst[u] /\ of'[u] = of[u] /\ wf'[u] = wf[u]
      BY Zenon DEF Sound, MOthers
    <2>3. ASSUME NEW g \in Names, MHolds(u, g)
          PROVE  meta'[g] = meta[g] /\ \A m \in Meta : Backed(store, g, m) => Backed(store', g, m)
      <3>1. ~MHolds(t, g)
        BY <2>3, Zenon DEF MLockInv, MExclusive
      <3> QED BY <3>1, Zenon DEF Sound, MetaFrame, Keeps
    <2>4. pc[u] \in LockedSrc =>
             /\ file[u] \in Names /\ meta'[file[u]] = meta[file[u]]
             /\ \A m \in Meta : Backed(store, file[u], m) => Backed(store', file[u], m)
      BY <2>1, <2>3, Zenon DEF MPlaces, MHolds, LockedSrc, Locked
    <2>5. pc[u] \in LockedDst =>
             /\ dst[u] \in Names /\ meta'[dst[u]] = meta[dst[u]]
             /\ \A m \in Meta : Backed(store, dst[u], m) => Backed(store', dst[u], m)
      BY <2>1, <2>3, Zenon DEF MPlaces, MHolds, LockedDst, MoveLabels
    <2>6. pc[u] \in DstFree => ~Exists(meta'[dst[u]])
      <3> SUFFICES ASSUME pc[u] \in DstFree PROVE ~Exists(meta'[dst[u]])
        BY Zenon
      <3>1. u \in Workers /\ dst[u] \in Names
        BY <2>1, Zenon DEF MDuties, MPlaces, DstFree, RepairLabels, MoveLabels, Threads
      <3>2. t \notin Workers
        BY <1>2, <3>1, Zenon DEF OneRequest
      <3> QED BY <2>1, <3>1, <3>2, Zenon DEF MDuties, Keeps
    <2>7. wf[u] \in File /\ (pc[u] = "wMeta" => wf[u] \in Meta) /\ (pc[u] \in {"pMeta", "cMeta"} => wf[u] \in Meta)
          /\ (pc[u] \in {"mMeta", "mRevert"} => of[u] \in Meta)
      BY <2>1, MetaFile, Zenon DEF MPlaces, MLockInv, MTypeOK, SrcKnown
    <2> HIDE DEF Backed, Exists
    <2>8. /\ pc[u] = "wMeta" \/ pc[u] = "pMeta" => Backed(store', file[u], wf[u])
          /\ pc[u] = "cMeta" => Backed(store', dst[u], wf[u])
          /\ pc[u] \in {"mMeta", "mRevert"} => Backed(store', dst[u], of[u])
      BY <2>1, <2>4, <2>5, <2>7, ZenonT(30) DEF MDuties, LockedSrc, LockedDst, Locked
    <2>9. pc[u] \in {"wPut", "wMeta", "wDel", "dDel", "pFix", "pMeta"} \cup SrcKnown => pc[u] \in LockedSrc
      BY Zenon DEF LockedSrc, Locked, SrcKnown
    <2> QED BY <2>1, <2>2, <2>4, <2>6, <2>8, <2>9, ZenonT(60) DEF MDuties
  <1> QED BY <1>1, <1>2, Zenon DEF MDataInv, Settled, Keeps

\* A step that changes neither metadata nor chunks.
LEMMA QuietKeeps ==
  ASSUME MLockInv, MDataInv, NEW t \in Threads, UNCHANGED <<meta, store>>,
         pc[t] \notin {"mMeta", "mRevert", "cMeta"}, MDuties(t)'
  PROVE  Keeps(t)
  <1>1. ASSUME NEW g \in Names, MHolds(t, g), Exists(meta[g]) PROVE Backed(store, g, meta[g])
    BY <1>1, HeldBacked, Zenon DEF MovingBy
  <1> QED BY <1>1, Zenon DEF Keeps

\* A step of a thread that holds one file only.
LEMMA LockedKeeps ==
  ASSUME NEW t \in Threads, pc[t] \in Locked,
         \A g \in Names \ {file[t]} : \A m \in Meta : Backed(store, g, m) => Backed(store', g, m),
         Exists(meta'[file[t]]) => Backed(store', file[t], meta'[file[t]]),
         t \in Workers \/ \A g \in Names : Exists(meta'[g]) => Exists(meta[g]),
         MDuties(t)'
  PROVE  Keeps(t)
  <1>1. \A g \in Names : MHolds(t, g) <=> g = file[t]
    BY Zenon DEF MHolds, LockedSrc, LockedDst, Locked
  <1> QED BY <1>1, Zenon DEF Keeps

\* Only a repair thread is at the places of a repair.
LEMMA WorkerPlaces ==
  ASSUME NEW t \in Threads, MDuties(t), pc[t] \notin RepairLabels
  PROVE  t \in Workers
  BY Zenon DEF MDuties, Threads

\* The steps of writeFile.
LEMMA WriteKeeps ==
  ASSUME Decodable, OneRequest, MLockInv, MDataInv, NEW t \in Threads, DstKept(t),
         \/ t \in Workers /\ \E f \in Names, d \in Data \cup {Empty} : WriteLock(t, f, d)
         \/ WriteGetMeta(t) \/ WriteStripes(t) \/ WriteNoSpace(t) \/ WritePutMeta(t) \/ WriteDeleteOld(t)
  PROVE  Keeps(t)
  <1>0. MTypeOK /\ MPlaces(t) /\ MDuties(t)
    BY Zenon DEF MLockInv, MDataInv
  <1>a. "getMeta" \notin Faults /\ "putMeta" \notin Faults /\ Flaky = {}
    BY Zenon DEF OneRequest
  <1>b. pc[t] \in {"wGet", "wPut", "wMeta", "wDel"} => t \in Workers /\ t \notin Repairers /\ pc[t] \in Locked
    BY <1>0, WorkerPlaces, ValueAssumption, Zenon DEF RepairLabels, Locked
  <1>1. ASSUME NEW f \in Names, NEW d \in Data \cup {Empty}, t \in Workers, WriteLock(t, f, d) PROVE Keeps(t)
    <2>1. pc[t] = "idle" /\ UNCHANGED <<meta, store>>
      BY <1>1, Zenon DEF WriteLock, Begin
    <2>2. pc'[t] = "wGet" /\ t \notin Repairers
      BY <1>0, <1>1, ValueAssumption, Zenon DEF WriteLock, Begin, MTypeOK
    <2>3. MDuties(t)'
      BY <2>2, Zenon DEF MDuties, SrcKnown, DstFree
    <2> QED BY <2>1, <2>3, QuietKeeps, Zenon
  <1>2. ASSUME WriteGetMeta(t) PROVE Keeps(t)
    <2>1. pc[t] = "wGet" /\ UNCHANGED <<meta, store, file>>
      BY <1>2, ZenonT(40) DEF WriteGetMeta, redis
    <2>2. wf[t] \in File /\ meta[file[t]] \in File /\ meta[file[t]].ver + 1 \in Versions
      BY <1>0, <2>1, NoFileType, MetaFile, FileFields, VersionAssumption, SMTT(60) DEF MPlaces, MTypeOK, Versions
    <2>3. of'[t] = meta[file[t]] /\ wf'[t] = [wf[t] EXCEPT !.ver = meta[file[t]].ver + 1]
      BY <1>0, <1>2, <1>a, ZenonT(30) DEF WriteGetMeta, GetMeta, MTypeOK
    <2>4. wf'[t].ver = meta[file[t]].ver + 1 /\ wf'[t].data = wf[t].data
      BY <2>2, <2>3, FileFields, SMTT(30)
    <2>5. pc'[t] = IF wf[t].data = Empty THEN "wMeta" ELSE "wPut"
      BY <1>0, <1>2, ZenonT(30) DEF WriteGetMeta, Goto, MTypeOK
    <2>6. MDuties(t)'
      BY <1>b, <2>1, <2>3, <2>4, <2>5, ZenonT(30) DEF MDuties, Backed, SrcKnown, DstFree
    <2> QED BY <2>1, <2>6, QuietKeeps, Zenon
  <1>3. ASSUME WriteStripes(t) PROVE Keeps(t)
    <2> DEFINE f == file[t]
    <2>0. pc[t] = "wPut" /\ UNCHANGED <<meta, file, of>>
      BY <1>3, Zenon DEF WriteStripes, redis
    <2>1. f \in Names /\ wf[t] \in Meta /\ wf[t].data # Empty /\ MHolds(t, f) /\ (\A g : ~MovingBy(t, g))
      BY <1>0, <2>0, MetaFile, ValueAssumption, ZenonT(30) DEF MTypeOK, MPlaces, MHolds, LockedSrc, Locked, MovingBy
    <2>2. PICK numSpare \in K .. N : \E p \in Placements(0 .. numSpare - 1, {}) :
             \E done \in SUBSET DOMAIN p : \E ack \in Acked(p, DOMAIN p, done) : WriteOutcome(t, p, done, ack)
      BY <1>3, Zenon DEF WriteStripes
    <2>3. PICK p, done, ack :
             /\ p \in [0 .. numSpare - 1 -> Containers] /\ ack \subseteq done /\ done \subseteq 0 .. numSpare - 1
             /\ WriteOutcome(t, p, done, ack)
      BY <2>2, ZenonT(30) DEF Placements, Acked
    <2> DEFINE q == [i \in Idx |-> IF i \in ack THEN p[i] ELSE INVALID_CONTAINER_ID]
               w == [wf[t] EXCEPT !.ids = q]
               put == {<<p[i], f, wf[t].ver, i>> : i \in done}
    <2>4. 0 .. numSpare - 1 \in KSets /\ 0 .. numSpare - 1 \subseteq Idx
      BY Zenon DEF Decodable, KSets
    <2>5. q \in Ids /\ wf[t] \in File
      BY <2>1, <2>3, MetaFile, ZenonT(30) DEF Ids
    <2>6. w \in Meta /\ w.ids = q /\ w.ver = wf[t].ver /\ w.data = wf[t].data
      BY <2>1, <2>5, FileFields, MetaFile, Zenon DEF Meta
    <2>7. Stored(w) = ack
      BY <2>3, <2>4, <2>6, ValueAssumption, SMTT(30) DEF Stored
    <2>8. PICK del : store' = Updated(put, wf[t].data, KeysOf(f, w, del))
      <3>1. {} = KeysOf(f, w, {})
        BY Zenon DEF KeysOf
      <3> QED BY <2>3, <3>1, ZenonT(30) DEF WriteOutcome
    <2>9. \A x \in put \cup KeysOf(f, w, del) : x[2] = f /\ x[3] = wf[t].ver
      <3>1. \A x \in put : x[2] = f /\ x[3] = wf[t].ver
        OBVIOUS
      <3>2. \A m, S : \A x \in KeysOf(f, m, S) : x[2] = f /\ x[3] = m.ver
        BY KeysOfName, SMT
      <3> HIDE DEF w
      <3> QED BY <2>6, <3>1, <3>2, SMTT(60)
    <2>11. \A g \in Names \ {f} : \A m \in Meta : Backed(store, g, m) => Backed(store', g, m)
      BY <2>8, <2>9, BackedElsewhere, SMTT(20)
    <2>12. Exists(meta[f]) => Backed(store', f, meta[f])
      <3>1. ASSUME Exists(meta[f]) PROVE meta[f] \in Meta /\ Backed(store, f, meta[f])
        BY <2>1, <3>1, HeldBacked, ZenonT(30)
      <3>2. ASSUME Exists(meta[f]) PROVE wf[t].ver # meta[f].ver
        BY <1>0, <2>0, <3>1, <3>2, SMTT(30) DEF MDuties, Meta, Versions
      <3> QED BY <2>1, <2>8, <2>9, <3>1, <3>2, BackedElsewhere, ZenonT(30)
    <2>13. MDuties(t)'
      <3>1. CASE StripeStands(DOMAIN p, ack)
        <4>1. wf' = [wf EXCEPT ![t] = w] /\ pc' = [pc EXCEPT ![t] = "wMeta"] /\ store' = Updated(put, wf[t].data, {})
          BY <2>3, <3>1, Zenon DEF WriteOutcome, Goto
        <4>2. wf'[t] = w /\ pc'[t] = "wMeta"
          BY <1>0, <4>1, Zenon DEF MTypeOK
        <4>3. ack \in KSets
          BY <2>3, <2>4, <3>1, Zenon DEF StripeStands
        <4>4. ASSUME NEW i \in ack PROVE store'[KeyOf(f, w, i)] = w.data
          <5>1. KeyOf(f, w, i) \in Keys
            BY <2>1, <2>6, <2>7, KeyType, Zenon
          <5>2. KeyOf(f, w, i) \in put
            BY <2>3, <2>4, <2>6, Zenon DEF KeyOf
          <5> QED BY <2>6, <4>1, <5>1, <5>2, ZenonT(30) DEF Updated
        <4>5. Backed(store', f, w)
          BY <2>7, <4>3, <4>4, Zenon DEF Backed
        <4> QED BY <1>0, <1>b, <2>0, <2>6, <4>2, <4>5, ZenonT(30) DEF MDuties, SrcKnown, DstFree
      <3>2. CASE ~StripeStands(DOMAIN p, ack)
        <4>1. pc'[t] = "unlock"
          BY <1>0, <2>3, <3>2, ZenonT(30) DEF WriteOutcome, Goto, MTypeOK
        <4> QED BY <1>b, <2>0, <4>1, Zenon DEF MDuties, SrcKnown, DstFree
      <3> QED BY <3>1, <3>2, Zenon
    <2> QED BY <1>b, <2>0, <2>11, <2>12, <2>13, LockedKeeps, ZenonT(30)
  <1>4. ASSUME WriteNoSpace(t) PROVE Keeps(t)
    <2>1. pc[t] = "wPut" /\ UNCHANGED <<meta, store>>
      BY <1>4, Zenon DEF WriteNoSpace, redis
    <2>2. pc'[t] = "unlock"
      BY <1>0, <1>4, Zenon DEF WriteNoSpace, Goto, MTypeOK
    <2>3. MDuties(t)'
      BY <1>b, <2>1, <2>2, Zenon DEF MDuties, SrcKnown, DstFree
    <2> QED BY <2>1, <2>3, QuietKeeps, Zenon
  <1>5. ASSUME WritePutMeta(t) PROVE Keeps(t)
    <2>0. pc[t] = "wMeta" /\ UNCHANGED <<store, file, of, wf>>
      BY <1>5, Zenon DEF WritePutMeta
    <2>1. file[t] \in Names /\ wf[t] \in Meta
      BY <1>0, <2>0, MetaFile, ZenonT(30) DEF MTypeOK, MPlaces
    <2>2. PICK okay \in BOOLEAN : PutMeta(file[t], wf[t], okay) /\ pc' = [pc EXCEPT ![t] = IF okay /\ Exists(of[t]) THEN "wDel" ELSE "unlock"]
      BY <1>5, ZenonT(30) DEF WritePutMeta, Goto
    <2>3. meta'[file[t]] = wf[t]
      BY <1>0, <1>a, <2>1, <2>2, Zenon DEF PutMeta, MTypeOK
    <2>4. Backed(store', file[t], meta'[file[t]])
      BY <1>0, <2>0, <2>3, Zenon DEF MDuties
    <2>5. pc'[t] \in {"wDel", "unlock"}
      BY <1>0, <2>2, ZenonT(30) DEF MTypeOK
    <2>6. of[t].ver # wf[t].ver
      <3>1. of[t] = meta[file[t]] /\ wf[t].ver = meta[file[t]].ver + 1
        BY <1>0, <2>0, ZenonT(30) DEF MDuties
      <3>2. meta[file[t]] \in Meta \/ meta[file[t]] = NoFile
        BY <1>0, <2>1, ZenonT(30) DEF MTypeOK
      <3>3. meta[file[t]].ver \in Int
        BY <3>2, NoFileType, SMTT(60) DEF Meta, Versions
      <3> QED BY <3>1, <3>3, SMTT(60)
    <2>7. MDuties(t)'
      BY <1>b, <2>0, <2>3, <2>5, <2>6, ZenonT(30) DEF MDuties, SrcKnown, DstFree
    <2> QED BY <1>b, <2>0, <2>4, <2>7, LockedKeeps, ZenonT(30)
  <1>6. ASSUME WriteDeleteOld(t) PROVE Keeps(t)
    <2>0. pc[t] = "wDel" /\ UNCHANGED <<meta, file>>
      BY <1>6, Zenon DEF WriteDeleteOld, redis
    <2>1. PICK del : store' = Updated({}, Nil, KeysOf(file[t], of[t], del))
      BY <1>6, ZenonT(30) DEF WriteDeleteOld
    <2>2. \A x \in {} \cup KeysOf(file[t], of[t], del) : x[2] = file[t] /\ x[3] = of[t].ver
      <3>1. \A x \in KeysOf(file[t], of[t], del) : x[2] = file[t] /\ x[3] = of[t].ver
        BY KeysOfName, SMT
      <3> DEFINE ks == KeysOf(file[t], of[t], del)
      <3>2. \A x \in {} \cup ks : x \in ks
        BY Zenon
      <3> QED BY <3>1, <3>2, Zenon
    <2>3. file[t] \in Names /\ MHolds(t, file[t]) /\ ~MovingBy(t, file[t])
      BY <1>0, <2>0, ZenonT(30) DEF MPlaces, MHolds, LockedSrc, Locked, MovingBy
    <2>4. \A g \in Names \ {file[t]} : \A m \in Meta : Backed(store, g, m) => Backed(store', g, m)
      BY <2>1, <2>2, BackedElsewhere, ZenonT(30)
    <2>5. Exists(meta[file[t]]) => Backed(store', file[t], meta[file[t]])
      <3>1. Exists(meta[file[t]]) => meta[file[t]] \in Meta /\ Backed(store, file[t], meta[file[t]])
        BY <2>3, HeldBacked, ZenonT(30)
      <3>2. of[t].ver # meta[file[t]].ver
        BY <1>0, <2>0, ZenonT(30) DEF MDuties
      <3> QED BY <2>1, <2>2, <2>3, <3>1, <3>2, BackedElsewhere, ZenonT(30)
    <2>6. pc'[t] = "unlock"
      BY <1>0, <1>6, Zenon DEF WriteDeleteOld, Goto, MTypeOK
    <2>7. MDuties(t)'
      BY <1>b, <2>0, <2>6, Zenon DEF MDuties, SrcKnown, DstFree
    <2> QED BY <1>b, <2>0, <2>4, <2>5, <2>7, LockedKeeps, ZenonT(30)
  <1> QED BY <1>1, <1>2, <1>3, <1>4, <1>5, <1>6, ZenonT(30)

\* The steps of deleteFile.
LEMMA DeleteKeeps ==
  ASSUME OneRequest, MLockInv, MDataInv, NEW t \in Threads, DstKept(t),
         \/ t \in Workers /\ \E f \in Names : DeleteLock(t, f)
         \/ DeleteGetMeta(t) \/ DeleteMeta(t) \/ DeleteChunks(t) \/ Unlock(t)
  PROVE  Keeps(t)
  <1>0. MTypeOK /\ MPlaces(t) /\ MDuties(t)
    BY Zenon DEF MLockInv, MDataInv
  <1>a. "getMeta" \notin Faults /\ "putMeta" \notin Faults /\ Flaky = {}
    BY Zenon DEF OneRequest
  <1>b. pc[t] \in {"dGet", "dMeta", "dDel", "unlock"} => t \in Workers /\ t \notin Repairers /\ pc[t] \in Locked
    BY <1>0, WorkerPlaces, ValueAssumption, Zenon DEF RepairLabels, Locked
  <1>1. ASSUME NEW f \in Names, t \in Workers, DeleteLock(t, f) PROVE Keeps(t)
    <2>1. pc[t] = "idle" /\ UNCHANGED <<meta, store>>
      BY <1>1, Zenon DEF DeleteLock, Begin
    <2>2. pc'[t] = "dGet" /\ t \notin Repairers
      BY <1>0, <1>1, ValueAssumption, Zenon DEF DeleteLock, Begin, MTypeOK
    <2>3. MDuties(t)'
      BY <2>2, Zenon DEF MDuties, SrcKnown, DstFree
    <2> QED BY <2>1, <2>3, QuietKeeps, Zenon
  <1>2. ASSUME DeleteGetMeta(t) PROVE Keeps(t)
    <2>1. pc[t] = "dGet" /\ UNCHANGED <<meta, store>>
      BY <1>2, Zenon DEF DeleteGetMeta, redis
    <2>2. pc'[t] \in {"dMeta", "unlock"}
      BY <1>0, <1>2, ZenonT(30) DEF DeleteGetMeta, Goto, MTypeOK
    <2>3. MDuties(t)'
      BY <1>b, <2>1, <2>2, Zenon DEF MDuties, SrcKnown, DstFree
    <2> QED BY <2>1, <2>3, QuietKeeps, Zenon
  <1>3. ASSUME DeleteMeta(t) PROVE Keeps(t)
    <2>0. pc[t] = "dMeta" /\ UNCHANGED <<store, file, of, wf>>
      BY <1>3, Zenon DEF DeleteMeta
    <2>1. file[t] \in Names
      BY <1>0, <2>0, Zenon DEF MPlaces
    <2>2. PICK okay \in BOOLEAN : PutMeta(file[t], NoFile, okay)
      BY <1>3, ZenonT(30) DEF DeleteMeta, RemoveMeta
    <2>3. meta'[file[t]] = NoFile
      BY <1>0, <1>a, <2>1, <2>2, Zenon DEF PutMeta, MTypeOK
    <2>4. ~Exists(meta'[file[t]])
      BY <2>3, NoFileType, Zenon
    <2>5. pc'[t] \in {"dDel", "unlock"}
      BY <1>0, <1>3, ZenonT(30) DEF DeleteMeta, Goto, MTypeOK
    <2>6. MDuties(t)'
      BY <1>b, <2>0, <2>4, <2>5, ZenonT(30) DEF MDuties, SrcKnown, DstFree
    <2> QED BY <1>b, <2>0, <2>4, <2>6, LockedKeeps, ZenonT(30)
  <1>4. ASSUME DeleteChunks(t) PROVE Keeps(t)
    <2>0. pc[t] = "dDel" /\ UNCHANGED <<meta, file>>
      BY <1>4, Zenon DEF DeleteChunks
    <2>1. PICK del : store' = Updated({}, Nil, KeysOf(file[t], of[t], del))
      BY <1>4, ZenonT(30) DEF DeleteChunks
    <2>2. \A x \in {} \cup KeysOf(file[t], of[t], del) : x[2] = file[t] /\ x[3] = of[t].ver
      BY KeysOfName, SMTT(60)
    <2>3. file[t] \in Names /\ ~Exists(meta[file[t]])
      BY <1>0, <2>0, ZenonT(30) DEF MPlaces, MDuties
    <2>4. \A g \in Names \ {file[t]} : \A m \in Meta : Backed(store, g, m) => Backed(store', g, m)
      BY <2>1, <2>2, BackedElsewhere, ZenonT(30)
    <2>5. pc'[t] = "unlock"
      BY <1>0, <1>4, Zenon DEF DeleteChunks, Goto, MTypeOK
    <2>6. MDuties(t)'
      BY <1>b, <2>0, <2>5, Zenon DEF MDuties, SrcKnown, DstFree
    <2> QED BY <1>b, <2>0, <2>3, <2>4, <2>6, LockedKeeps, ZenonT(30)
  <1>5. ASSUME Unlock(t) PROVE Keeps(t)
    <2>1. pc[t] = "unlock" /\ UNCHANGED <<meta, store>>
      BY <1>5, Zenon DEF Unlock
    <2>2. pc'[t] = "idle"
      BY <1>0, <1>5, Zenon DEF Unlock, Return, MTypeOK
    <2>3. MDuties(t)'
      BY <2>2, Zenon DEF MDuties, SrcKnown, DstFree, RepairLabels
    <2> QED BY <2>1, <2>3, QuietKeeps, Zenon
  <1> QED BY <1>1, <1>2, <1>3, <1>4, <1>5, ZenonT(30)

\* The steps of readFile.
LEMMA ReadKeeps ==
  ASSUME MLockInv, MDataInv, NEW t \in Threads, DstKept(t),
         \/ t \in Workers /\ \E f \in Names : ReadGetMeta(t, f)
         \/ ReadChunk(t) \/ ReadEnd(t)
  PROVE  Keeps(t)
  <1>0. MTypeOK /\ MPlaces(t) /\ MDuties(t)
    BY Zenon DEF MLockInv, MDataInv
  <1>1. UNCHANGED <<meta, store>> /\ pc[t] \in {"idle", "gChk", "gEnd"}
    BY Zenon DEF ReadGetMeta, Begin, ReadChunk, ReadEnd, redis
  <1>2. pc'[t] \in {"idle", "gChk", "gEnd"} /\ (pc'[t] # "idle" => t \notin Repairers)
    <2>1. ASSUME NEW f \in Names, t \in Workers, ReadGetMeta(t, f) PROVE pc'[t] = "gChk" /\ t \notin Repairers
      BY <1>0, <2>1, ValueAssumption, Zenon DEF ReadGetMeta, Begin, MTypeOK
    <2>2. ASSUME ReadEnd(t) PROVE pc'[t] = "idle"
      BY <1>0, <2>2, Zenon DEF ReadEnd, Return, MTypeOK
    <2>3. ASSUME ReadChunk(t) PROVE pc'[t] \in {"idle", "gChk", "gEnd"} /\ t \notin Repairers
      <3>1. pc[t] = "gChk" /\ \E i \in todo[t] : ReadReply(t, i)
        BY <2>3, Zenon DEF ReadChunk
      <3>2. pc' \in {pc, [pc EXCEPT ![t] = "gEnd"], [pc EXCEPT ![t] = "gChk"], [pc EXCEPT ![t] = "idle"]}
        BY <3>1, ZenonT(30) DEF ReadReply, Goto, Return
      <3> QED BY <1>0, <3>1, <3>2, Zenon DEF MTypeOK, MDuties, RepairLabels
    <2> QED BY <2>1, <2>2, <2>3, Zenon
  <1>3. MDuties(t)'
    BY <1>2, Zenon DEF MDuties, SrcKnown, DstFree, RepairLabels
  <1> QED BY <1>1, <1>3, QuietKeeps, Zenon

\* The steps of backgroundRepair and repairFile.
LEMMA RepairKeeps ==
  ASSUME Decodable, OneRequest, MLockInv, MDataInv, NEW t \in Threads, DstKept(t),
         \/ RepairPop(t) \/ RepairLock(t) \/ RepairBusy(t) \/ RepairDone(t) \/ RepairGetMeta(t)
         \/ RepairFix(t) \/ RepairPutMeta(t) \/ RepairUnlock(t)
  PROVE  Keeps(t)
  <1>0. MTypeOK /\ MPlaces(t) /\ MDuties(t)
    BY Zenon DEF MLockInv, MDataInv
  <1>a. "getMeta" \notin Faults /\ "putMeta" \notin Faults
    BY Zenon DEF OneRequest
  <1>1. ASSUME RepairPop(t) \/ RepairLock(t) \/ RepairBusy(t) \/ RepairDone(t) PROVE Keeps(t)
    <2>1. pc[t] \in {"idle", "pLock"} /\ UNCHANGED <<meta, store>>
      BY <1>1, Zenon DEF RepairPop, RepairLock, RepairBusy, RepairDone, redis
    <2>2. pc'[t] \in {"idle", "pLock", "pGet"}
      BY <1>0, <1>1, Zenon DEF RepairPop, RepairLock, RepairBusy, RepairDone, Goto, Return, MTypeOK
    <2>3. MDuties(t)'
      BY <2>2, ZenonT(30) DEF MDuties, SrcKnown, DstFree, RepairLabels
    <2> QED BY <2>1, <2>3, QuietKeeps, Zenon
  <1>2. ASSUME RepairGetMeta(t) PROVE Keeps(t)
    <2>1. pc[t] = "pGet" /\ UNCHANGED <<meta, store, file>>
      BY <1>2, ZenonT(30) DEF RepairGetMeta, redis
    <2>2. \/ pc'[t] \in {"pUnlock", "pFail"}
          \/ pc'[t] = "pFix" /\ of'[t] = meta[file[t]] /\ wf'[t] = meta[file[t]] /\ meta[file[t]].data # Empty
      <3> DEFINE m == meta[file[t]]
      <3>1. IF Exists(m) /\ of[t].ver \in {-1, m.ver}
            THEN /\ of' = [of EXCEPT ![t] = m]
                 /\ wf' = [wf EXCEPT ![t] = m]
                 /\ pc' = [pc EXCEPT ![t] = IF m.data = Empty THEN "pUnlock" ELSE "pFix"]
            ELSE pc' = [pc EXCEPT ![t] = "pFail"]
        BY <1>2, <1>a, ZenonT(30) DEF RepairGetMeta, GetMeta, Goto
      <3> QED BY <1>0, <3>1, ZenonT(30) DEF MTypeOK
    <2>3. MDuties(t)'
      BY <2>1, <2>2, ZenonT(30) DEF MDuties, SrcKnown, DstFree, RepairLabels
    <2> QED BY <2>1, <2>3, QuietKeeps, Zenon
  <1>3. ASSUME RepairFix(t) PROVE Keeps(t)
    <2> DEFINE f == file[t]
    <2>0. pc[t] = "pFix" /\ UNCHANGED <<meta, file, of>> /\ pc[t] \in Locked
      BY <1>3, ZenonT(30) DEF RepairFix, redis, Locked
    <2>1. /\ f \in Names /\ of[t] \in Meta /\ of[t] = meta[f] /\ wf[t] = of[t]
          /\ of[t].data # Empty /\ Backed(store, f, of[t])
      <3>1. f \in Names /\ of[t] \in Meta /\ of[t] = meta[f] /\ wf[t] = of[t] /\ of[t].data # Empty
        BY <1>0, <2>0, ZenonT(30) DEF MPlaces, MDuties
      <3>2. Exists(meta[f]) /\ MHolds(t, f) /\ ~MovingBy(t, f)
        <4>1. Exists(meta[f])
          BY <3>1, SMTT(60) DEF Exists, Meta, Versions
        <4>2. MHolds(t, f)
          BY <2>0, ZenonT(30) DEF MHolds, LockedSrc
        <4>3. ~MovingBy(t, f)
          BY <2>0, ZenonT(30) DEF MovingBy
        <4> QED BY <4>1, <4>2, <4>3, ZenonT(30)
      <3> QED BY <3>1, <3>2, HeldBacked, ZenonT(30)
    <2>2. PICK alive \in Alive(of[t]) : RepairOutcome(t, alive)
      BY <1>3, ZenonT(30) DEF RepairFix
    <2> DEFINE failed == Idx \ alive
               input == KeysOf(f, of[t], FirstK(alive))
    <2>3. alive \subseteq Stored(of[t]) /\ alive \subseteq Idx
      BY <2>2, Zenon DEF Alive, Stored
    <2>4. pc'[t] \in {"pMeta", "pFail"}
      <3>1. pc' = [pc EXCEPT ![t] = "pMeta"] \/ pc' = [pc EXCEPT ![t] = "pFail"]
        BY <2>2, ZenonT(30) DEF RepairOutcome, Goto
      <3> QED BY <1>0, <3>1, Zenon DEF MTypeOK
    <2>5. CASE UNCHANGED <<store, wf>>
      <3>1. MDuties(t)'
        BY <1>0, <2>0, <2>1, <2>4, <2>5, ZenonT(30) DEF MDuties, SrcKnown, DstFree, RepairLabels
      <3> QED BY <2>0, <2>5, <3>1, QuietKeeps, Zenon
    <2>6. CASE ~UNCHANGED <<store, wf>>
      <3> DEFINE Result(p, done, ack) ==
                     /\ store' = Updated({<<p[i], f, of[t].ver, i>> : i \in done},
                                         Decode({store[x] : x \in input}), {})
                     /\ IF ack = failed
                        THEN /\ wf' = [wf EXCEPT ![t].ids = [i \in Idx |-> IF i \in failed THEN p[i] ELSE @[i]]]
                             /\ Goto(t, "pMeta")
                        ELSE Goto(t, "pFail") /\ UNCHANGED wf
      <3>1. PICK p \in Placements(failed, {of[t].ids[i] : i \in alive}) :
               \E done \in SUBSET failed : \E ack \in Acked(p, failed, done) : Result(p, done, ack)
        BY <2>2, <2>6, ZenonT(30) DEF RepairOutcome
      <3> HIDE DEF Result
      <3>2. PICK done \in SUBSET failed, ack \in SUBSET failed : ack \subseteq done /\ Result(p, done, ack)
        BY <3>1, ZenonT(30) DEF Acked
      <3> USE DEF Result
      <3>3. alive \in KSets
        BY <2>2, <2>6, ZenonT(30) DEF RepairOutcome
      <3>4. Decode({store[x] : x \in input}) = of[t].data
        <4>1. \A x \in input : store[x] = of[t].data
          BY <2>1, <2>3, <3>3, ZenonT(30) DEF Decodable, KeysOf, Backed
        <4>2. input # {}
          BY <3>3, SMTT(60) DEF Decodable, KeysOf
        <4>3. {store[x] : x \in input} = {of[t].data}
          BY <4>1, <4>2, ZenonT(30)
        <4> QED BY <4>3, DecodeOne, ZenonT(30)
      <3> DEFINE put == {<<p[i], f, of[t].ver, i>> : i \in done}
      <3>5. store' = Updated(put, of[t].data, {})
        BY <3>2, <3>4, Zenon
      <3>6. \A x \in put : x[2] = f
        OBVIOUS
      <3>7. \A g \in Names \ {f} : \A m \in Meta : Backed(store, g, m) => Backed(store', g, m)
        BY <3>5, <3>6, BackedElsewhere, ZenonT(30)
      <3>8. Backed(store', f, meta[f])
        <4>1. \A i \in Stored(of[t]) : store'[KeyOf(f, of[t], i)] = of[t].data
          BY <2>1, <3>5, KeyType, ZenonT(30) DEF Backed, Updated
        <4> QED BY <2>1, <4>1, ZenonT(30) DEF Backed
      <3>9. MDuties(t)'
        <4>1. CASE ack = failed
          <5> DEFINE q == [i \in Idx |-> IF i \in failed THEN p[i] ELSE of[t].ids[i]]
                     w == [of[t] EXCEPT !.ids = q]
          <5>1. wf' = [wf EXCEPT ![t] = w] /\ pc' = [pc EXCEPT ![t] = "pMeta"]
            BY <1>0, <2>1, <3>2, <4>1, ZenonT(30) DEF Goto, MTypeOK
          <5>2. q \in Ids /\ of[t] \in File /\ of[t].ids \in Ids
            BY <2>1, <2>3, <3>1, MetaFile, FileFields, SMTT(60) DEF Ids, Placements
          <5>3. w \in Meta /\ w.ids = q /\ w.ver = of[t].ver /\ w.data = of[t].data
            BY <2>1, <5>2, FileFields, MetaFile, ZenonT(30) DEF Meta
          <5>4. Stored(w) = Idx
            BY <2>3, <3>1, <5>3, ValueAssumption, SMTT(60) DEF Stored, Placements
          <5>5. Idx \in KSets
            BY CodingAssumption, SMTT(60) DEF Decodable, Idx
          <5>6. ASSUME NEW i \in Idx PROVE store'[KeyOf(f, w, i)] = w.data
            <6>1. KeyOf(f, w, i) \in Keys
              BY <2>1, <5>3, <5>4, KeyType, ZenonT(30)
            <6>2. CASE i \in failed
              <7>1. KeyOf(f, w, i) \in put
                BY <3>2, <4>1, <5>3, <6>2, ZenonT(30) DEF KeyOf
              <7> QED BY <3>5, <5>3, <6>1, <7>1, ZenonT(30) DEF Updated
            <6>3. CASE i \in alive
              <7>1. KeyOf(f, w, i) = KeyOf(f, of[t], i)
                BY <5>3, <6>3, Zenon DEF KeyOf
              <7>2. store[KeyOf(f, of[t], i)] = of[t].data
                BY <2>1, <2>3, <6>3, ZenonT(30) DEF Backed
              <7> QED BY <3>5, <5>3, <6>1, <7>1, <7>2, ZenonT(30) DEF Updated
            <6> QED BY <6>2, <6>3, Zenon
          <5>7. Backed(store', f, w)
            BY <5>4, <5>5, <5>6, Zenon DEF Backed
          <5>8. wf'[t] = w /\ pc'[t] = "pMeta"
            BY <1>0, <5>1, Zenon DEF MTypeOK
          <5> QED BY <2>0, <2>1, <5>3, <5>7, <5>8, ZenonT(30) DEF MDuties, SrcKnown, DstFree, RepairLabels
        <4>2. CASE ack # failed
          <5>1. pc'[t] = "pFail"
            BY <1>0, <3>2, <4>2, ZenonT(30) DEF Goto, MTypeOK
          <5> QED BY <5>1, Zenon DEF MDuties, SrcKnown, DstFree, RepairLabels
        <4> QED BY <4>1, <4>2, ZenonT(30)
      <3> QED BY <2>0, <3>7, <3>8, <3>9, LockedKeeps, ZenonT(30)
    <2> QED BY <2>5, <2>6, Zenon
  <1>4. ASSUME RepairPutMeta(t) PROVE Keeps(t)
    <2>0. pc[t] = "pMeta" /\ UNCHANGED <<store, file, of, wf>> /\ pc[t] \in Locked
      BY <1>4, Zenon DEF RepairPutMeta, Locked
    <2>1. file[t] \in Names /\ wf[t] \in Meta /\ meta[file[t]] \in Meta
      BY <1>0, <2>0, ZenonT(30) DEF MPlaces, MDuties
    <2>2. PICK okay \in BOOLEAN : PutMeta(file[t], wf[t], okay)
      BY <1>4, ZenonT(30) DEF RepairPutMeta
    <2>3. meta' = [meta EXCEPT ![file[t]] = wf[t]]
      BY <1>a, <2>2, Zenon DEF PutMeta
    <2>4. meta'[file[t]] = wf[t] /\ \A g \in Names : Exists(meta'[g]) => Exists(meta[g])
      BY <1>0, <2>1, <2>3 DEF MTypeOK, Exists, Meta, Versions
    <2>5. Backed(store', file[t], meta'[file[t]])
      BY <1>0, <2>0, <2>4, Zenon DEF MDuties
    <2>6. pc'[t] \in {"pUnlock", "pFail"}
      BY <1>0, <1>4, Zenon DEF RepairPutMeta, Goto, MTypeOK
    <2>7. MDuties(t)'
      BY <2>6, Zenon DEF MDuties, SrcKnown, DstFree, RepairLabels
    <2>8. \A g \in Names \ {file[t]} : \A m \in Meta : Backed(store, g, m) => Backed(store', g, m)
      BY <2>0, Zenon
    <2> QED BY <2>0, <2>4, <2>5, <2>7, <2>8, LockedKeeps, ZenonT(30)
  <1>5. ASSUME RepairUnlock(t) PROVE Keeps(t)
    <2>1. pc[t] \in {"pUnlock", "pFail"} /\ UNCHANGED <<meta, store>>
      BY <1>5, Zenon DEF RepairUnlock
    <2>2. pc'[t] \in {"idle", "pLock"}
      BY <1>0, <1>5, ZenonT(30) DEF RepairUnlock, Goto, Return, MTypeOK
    <2>3. MDuties(t)'
      BY <2>2, Zenon DEF MDuties, SrcKnown, DstFree, RepairLabels
    <2> QED BY <2>1, <2>3, QuietKeeps, Zenon
  <1> QED BY <1>1, <1>2, <1>3, <1>4, <1>5, ZenonT(30)

\* The steps of FileStore.
LEMMA StoreStepKeeps ==
  ASSUME Decodable, OneRequest, MLockInv, MDataInv, NEW t \in Threads, StoreStep(t)
  PROVE  Keeps(t)
  <1>1. DstKept(t) /\ (Start(t) \/ Step(t))
    BY Zenon DEF StoreStep, DstKept
  <1> QED BY <1>1, WriteKeeps, DeleteKeeps, RepairKeeps, ReadKeeps, ZenonT(30) DEF Start, Step

-----------------------------------------------------------------------------
\* Moving or copying chunks from f to g makes no difference to other files, and
\* copying none to f.
LEMMA ModifiedElsewhere ==
  ASSUME NEW f, NEW g, NEW m, NEW ver, NEW done, NEW del, NEW c \in BOOLEAN,
         NEW h \in Names, h # g, c \/ h # f, NEW n \in Meta, Backed(store, h, n)
  PROVE  Backed(Modified(f, m, g, ver, done, del, c), h, n)
  <1>1. ASSUME NEW i \in Stored(n) PROVE Modified(f, m, g, ver, done, del, c)[KeyOf(h, n, i)] = store[KeyOf(h, n, i)]
    <2> DEFINE x == KeyOf(h, n, i)
    <2>1. x \in Keys /\ x[2] = h
      BY <1>1, KeyType, Zenon DEF KeyOf
    <2>2. (\A j : x # <<m.ids[j], g, ver, j>>) /\ (c \/ \A j : x # KeyOf(f, m, j))
      BY <2>1, Zenon DEF KeyOf
    <2> HIDE DEF x
    <2>3. Modified(f, m, g, ver, done, del, c)[x] = store[x]
      BY <2>1, <2>2, Zenon DEF Modified
    <2> QED BY <2>3, Zenon DEF x
  <1> QED BY <1>1, Zenon DEF Backed

\* When all chunks of f have gone to g, the metadata of f is right for g.
LEMMA ModifiedThere ==
  ASSUME NEW f \in Names, NEW g \in Names, f # g, NEW m \in Meta, NEW w \in Meta, NEW c \in BOOLEAN,
         w.ids = m.ids, w.data = m.data, Backed(store, f, m)
  PROVE  Backed(Modified(f, m, g, w.ver, Stored(m), {}, c), g, w)
  <1>1. Stored(w) = Stored(m)
    BY Zenon DEF Stored
  <1>2. ASSUME NEW i \in Stored(m)
        PROVE  Modified(f, m, g, w.ver, Stored(m), {}, c)[KeyOf(g, w, i)] = store[KeyOf(f, m, i)]
    <2> DEFINE x == KeyOf(g, w, i)
    <2>1. x \in Keys /\ x = <<m.ids[i], g, w.ver, i>> /\ x[4] = i /\ x # KeyOf(f, m, i)
      BY <1>1, <1>2, KeyType, Zenon DEF KeyOf
    <2> HIDE DEF x
    <2>2. Modified(f, m, g, w.ver, Stored(m), {}, c)[x] = store[KeyOf(f, m, i)]
      BY <1>2, <2>1, Zenon DEF Modified
    <2> QED BY <2>2, Zenon DEF x
  <1> QED BY <1>1, <1>2, Zenon DEF Backed

\* With containers that answer, all chunks are there to be moved, and all are.
LEMMA AllMoved ==
  ASSUME Flaky = {}, NEW f \in Names, NEW m \in Meta, m.data # Empty, Backed(store, f, m)
  PROVE  Movable(f, m) = Stored(m) /\ Stored(m) \in KSets
  <1>1. m.data # Nil
    BY ValueAssumption, Zenon DEF Meta
  <1> QED BY <1>1, Zenon DEF Movable, Backed

\* Chunks that all containers acknowledge are all there.
LEMMA AllAcked ==
  ASSUME Flaky = {}, NEW ids, NEW S, NEW done \in SUBSET S, NEW ack \in Acked(ids, S, done)
  PROVE  done = S /\ ack = S
  BY Zenon DEF Acked

\* The steps of renameFile and copyFile that lock, unlock and read metadata.
LEMMA MoveQuietKeeps ==
  ASSUME OneRequest, MLockInv, MDataInv, NEW t \in Threads,
         \/ MStart(t) \/ SrcLock(t) \/ SrcGetMeta(t) \/ DstLock(t) \/ UnlockSrc(t) \/ UnlockDst(t)
         \/ RenameGetDst(t) \/ NestedGetMeta(t) \/ NestedUnlock(t)
  PROVE  Keeps(t)
  <1>0. MTypeOK /\ MPlaces(t) /\ MDuties(t)
    BY Zenon DEF MLockInv, MDataInv
  <1>a. "getMeta" \notin Faults
    BY Zenon DEF OneRequest
  <1>b. pc[t] \in MoveLabels => t \in Workers /\ t \notin Repairers
    BY <1>0, WorkerPlaces, ValueAssumption, Zenon DEF RepairLabels, MoveLabels
  <1>1. ASSUME MStart(t) PROVE Keeps(t)
    <2>1. pc[t] = "idle" /\ UNCHANGED <<meta, store>>
      BY <1>1, Zenon DEF MStart, RenameStart, CopyStart, Begin, redis
    <2>2. pc'[t] \in {"mLock", "cLock"} /\ t \notin Repairers
      BY <1>0, <1>1, ValueAssumption, Zenon DEF MStart, RenameStart, CopyStart, Begin, MTypeOK
    <2>3. MDuties(t)'
      BY <2>2, Zenon DEF MDuties, SrcKnown, DstFree
    <2> QED BY <2>1, <2>3, QuietKeeps, Zenon
  <1>2. ASSUME SrcLock(t) PROVE Keeps(t)
    <2>1. pc[t] \in {"mLock", "cLock"} /\ UNCHANGED <<meta, store>>
      BY <1>2, Zenon DEF SrcLock
    <2>2. pc'[t] \in {"mGet", "cGet", "idle"}
      BY <1>0, <1>2, Zenon DEF SrcLock, Goto, MReturn, Return, MTypeOK
    <2>3. MDuties(t)'
      BY <1>b, <2>1, <2>2, Zenon DEF MDuties, SrcKnown, DstFree, MoveLabels
    <2> QED BY <2>1, <2>3, QuietKeeps, Zenon
  <1>3. ASSUME SrcGetMeta(t) PROVE Keeps(t)
    <2>1. pc[t] \in {"mGet", "cGet"} /\ UNCHANGED <<meta, store, file, dst>>
      BY <1>3, Zenon DEF SrcGetMeta, redis
    <2>2. of'[t] = meta[file[t]]
      BY <1>0, <1>3, <1>a, ZenonT(30) DEF SrcGetMeta, GetMeta, MTypeOK
    <2>3. pc'[t] \in {"unlock", "mDst", "cLockDst"}
      BY <1>0, <1>3, ZenonT(30) DEF SrcGetMeta, Goto, MTypeOK
    <2>4. MDuties(t)'
      BY <1>b, <2>1, <2>2, <2>3, Zenon DEF MDuties, SrcKnown, DstFree, MoveLabels
    <2> QED BY <2>1, <2>4, QuietKeeps, Zenon
  <1>4. ASSUME DstLock(t) PROVE Keeps(t)
    <2>1. pc[t] \in {"nLock", "mLockDst", "cLockDst"} /\ UNCHANGED <<meta, store, file, dst, of>>
      BY <1>4, Zenon DEF DstLock
    <2>2. pc'[t] \in {"nGet", "cCopy", "unlock"} \/ (pc[t] = "mLockDst" /\ pc'[t] = "mMove")
      BY <1>0, <1>4, Zenon DEF DstLock, Goto, MTypeOK
    <2>3. MDuties(t)'
      BY <1>0, <1>b, <2>1, <2>2, ZenonT(30) DEF MDuties, SrcKnown, DstFree, MoveLabels
    <2> QED BY <2>1, <2>3, QuietKeeps, Zenon
  <1>5. ASSUME UnlockSrc(t) \/ UnlockDst(t) PROVE Keeps(t)
    <2>1. pc[t] \in {"mUnlock", "mUnlockDst"} /\ UNCHANGED <<meta, store>>
      BY <1>5, Zenon DEF UnlockSrc, UnlockDst
    <2>2. pc'[t] \in {"mUnlockDst", "idle"}
      BY <1>0, <1>5, Zenon DEF UnlockSrc, UnlockDst, Goto, MReturn, Return, MTypeOK
    <2>3. MDuties(t)'
      BY <1>b, <2>1, <2>2, Zenon DEF MDuties, SrcKnown, DstFree, MoveLabels
    <2> QED BY <2>1, <2>3, QuietKeeps, Zenon
  <1>6. ASSUME RenameGetDst(t) PROVE Keeps(t)
    <2>1. pc[t] = "mDst" /\ UNCHANGED <<meta, store, file, dst, of>>
      BY <1>6, Zenon DEF RenameGetDst, redis
    <2>2. pc'[t] = IF Exists(meta[dst[t]]) THEN "nLock" ELSE "mLockDst"
      BY <1>0, <1>6, <1>a, ZenonT(30) DEF RenameGetDst, GetMeta, Goto, MTypeOK
    <2>3. MDuties(t)'
      BY <1>0, <1>b, <2>1, <2>2, ZenonT(30) DEF MDuties, SrcKnown, DstFree, MoveLabels
    <2> QED BY <2>1, <2>3, QuietKeeps, Zenon
  <1>7. ASSUME NestedGetMeta(t) PROVE Keeps(t)
    <2>1. pc[t] = "nGet" /\ UNCHANGED <<meta, store, file, dst, of>>
      BY <1>7, Zenon DEF NestedGetMeta, redis
    <2>2. pc'[t] \in {"nMeta", "nFail"}
      BY <1>0, <1>7, ZenonT(30) DEF NestedGetMeta, Goto, MTypeOK
    <2>3. MDuties(t)'
      BY <1>0, <1>b, <2>1, <2>2, ZenonT(30) DEF MDuties, SrcKnown, DstFree, MoveLabels
    <2> QED BY <2>1, <2>3, QuietKeeps, Zenon
  <1>8. ASSUME NestedUnlock(t) PROVE Keeps(t)
    <2>1. pc[t] \in {"nUnlock", "nFail"} /\ UNCHANGED <<meta, store, file, dst, of>>
      BY <1>8, Zenon DEF NestedUnlock
    <2>2. pc'[t] = IF pc[t] = "nUnlock" THEN "mLockDst" ELSE "unlock"
      BY <1>0, <1>8, ZenonT(30) DEF NestedUnlock, Goto, MTypeOK
    <2>3. MDuties(t)'
      BY <1>0, <1>b, <2>1, <2>2, ZenonT(30) DEF MDuties, SrcKnown, DstFree, MoveLabels
    <2> QED BY <2>1, <2>3, QuietKeeps, Zenon
  <1> QED BY <1>1, <1>2, <1>3, <1>4, <1>5, <1>6, <1>7, <1>8, ZenonT(30)

\* A step of a rename or copy that has both its files locked.
LEMMA PairKeeps ==
  ASSUME NEW t \in Threads, pc[t] \in LockedDst \ {"mUnlockDst"}, t \in Workers,
         UNCHANGED <<file, dst>>,
         \A g \in Names \ {file[t], dst[t]} : \A m \in Meta : Backed(store, g, m) => Backed(store', g, m),
         Exists(meta'[file[t]]) /\ ~MovingBy(t, file[t])' => Backed(store', file[t], meta'[file[t]]),
         Exists(meta'[dst[t]]) /\ ~MovingBy(t, dst[t])' => Backed(store', dst[t], meta'[dst[t]]),
         MDuties(t)'
  PROVE  Keeps(t)
  <1>1. \A g \in Names : MHolds(t, g) <=> g \in {file[t], dst[t]}
    BY Zenon DEF MHolds, LockedSrc, LockedDst, Locked
  <1>2. ASSUME NEW g \in Names, MHolds(t, g), Exists(meta'[g]), ~MovingBy(t, g)' PROVE Backed(store', g, meta'[g])
    <2>1. CASE g = file[t]
      BY <1>2, <2>1, ZenonT(30) DEF MovingBy
    <2>2. CASE g = dst[t]
      BY <1>2, <2>2, ZenonT(30) DEF MovingBy
    <2> QED BY <1>1, <1>2, <2>1, <2>2, Zenon
  <1>3. \A g \in Names : ~MHolds(t, g) => \A m \in Meta : Backed(store, g, m) => Backed(store', g, m)
    BY <1>1, ZenonT(30)
  <1> QED BY <1>2, <1>3, ZenonT(30) DEF Keeps

\* What is known where both files are locked.
LEMMA PairFacts ==
  ASSUME MLockInv, MDataInv, NEW t \in Threads,
         pc[t] \in {"nMeta", "nDel", "mMove", "mMeta", "mRevert", "cCopy", "cMeta"}
  PROVE  /\ file[t] \in Names /\ dst[t] \in Names /\ file[t] # dst[t] /\ t \in Workers /\ t \notin Repairers
         /\ pc[t] \in LockedDst \ {"mUnlockDst"}
         /\ of[t] \in Meta /\ of[t] = meta[file[t]] /\ Exists(of[t])
         /\ pc[t] \notin {"mMeta", "mRevert"} => Backed(store, file[t], of[t])
  <1>0. MTypeOK /\ MPlaces(t) /\ MDuties(t)
    BY Zenon DEF MLockInv, MDataInv
  <1>1. /\ file[t] \in Names /\ dst[t] \in Names /\ file[t] # dst[t]
        /\ pc[t] \in LockedDst \ {"mUnlockDst"} /\ of[t] \in Meta
    BY <1>0, Zenon DEF MPlaces, LockedDst, MoveLabels, SrcKnown
  <1>2. t \in Workers /\ t \notin Repairers
    BY <1>0, WorkerPlaces, ValueAssumption, Zenon DEF RepairLabels
  <1>3. of[t] = meta[file[t]]
    BY <1>0, Zenon DEF MDuties, SrcKnown
  <1>4. Exists(of[t])
    BY <1>1 DEF Exists, Meta, Versions
  <1>5. MHolds(t, file[t]) /\ (pc[t] \notin {"mMeta", "mRevert"} => ~MovingBy(t, file[t]))
    BY <1>1, Zenon DEF MHolds, LockedSrc, MovingBy
  <1> QED BY <1>1, <1>2, <1>3, <1>4, <1>5, HeldBacked, Zenon

\* The deletion of the destination before a rename.
LEMMA NestedKeeps ==
  ASSUME OneRequest, MLockInv, MDataInv, NEW t \in Threads, NestedDeleteMeta(t) \/ NestedDeleteChunks(t)
  PROVE  Keeps(t)
  <1>0. MTypeOK /\ MPlaces(t) /\ MDuties(t)
    BY Zenon DEF MLockInv, MDataInv
  <1>a. "putMeta" \notin Faults
    BY Zenon DEF OneRequest
  <1>b. pc[t] \in {"nMeta", "nDel"} /\ UNCHANGED <<file, of, wf, dst>>
    BY Zenon DEF NestedDeleteMeta, NestedDeleteChunks
  <1>c. /\ file[t] \in Names /\ dst[t] \in Names /\ file[t] # dst[t] /\ t \in Workers /\ t \notin Repairers
        /\ pc[t] \in LockedDst \ {"mUnlockDst"}
        /\ of[t] \in Meta /\ of[t] = meta[file[t]] /\ Backed(store, file[t], of[t])
    BY <1>b, PairFacts, Zenon
  <1>1. ASSUME NestedDeleteMeta(t) PROVE Keeps(t)
    <2>1. PICK okay \in BOOLEAN : PutMeta(dst[t], NoFile, okay)
      BY <1>1, ZenonT(30) DEF NestedDeleteMeta, RemoveMeta
    <2>2. meta' = [meta EXCEPT ![dst[t]] = NoFile]
      BY <1>a, <2>1, Zenon DEF PutMeta
    <2>3. meta'[file[t]] = of[t] /\ ~Exists(meta'[dst[t]]) /\ store' = store
      BY <1>0, <1>1, <1>c, <2>2, NoFileType, ZenonT(30) DEF MTypeOK, NestedDeleteMeta
    <2>4. pc'[t] \in {"nDel", "nUnlock", "nFail"}
      BY <1>0, <1>1, ZenonT(30) DEF NestedDeleteMeta, Goto, MTypeOK
    <2>5. MDuties(t)'
      BY <1>b, <1>c, <2>3, <2>4, ZenonT(30) DEF MDuties, SrcKnown, DstFree
    <2> QED BY <1>b, <1>c, <2>3, <2>5, PairKeeps, ZenonT(30)
  <1>2. ASSUME NestedDeleteChunks(t) PROVE Keeps(t)
    <2>1. PICK del : store' = Updated({}, Nil, KeysOf(dst[t], df[t], del))
      BY <1>2, ZenonT(30) DEF NestedDeleteChunks
    <2>2. \A x \in {} \cup KeysOf(dst[t], df[t], del) : x[2] = dst[t]
      BY KeysOfName, SMTT(60)
    <2>3. \A g \in Names \ {dst[t]} : \A m \in Meta : Backed(store, g, m) => Backed(store', g, m)
      BY <2>1, <2>2, BackedElsewhere, ZenonT(30)
    <2>4. meta' = meta /\ ~Exists(meta[dst[t]])
      BY <1>0, <1>2, ZenonT(30) DEF NestedDeleteChunks, MDuties, DstFree
    <2>5. pc'[t] \in {"nUnlock", "nFail"}
      BY <1>0, <1>2, ZenonT(30) DEF NestedDeleteChunks, Goto, MTypeOK
    <2>6. MDuties(t)'
      BY <1>b, <1>c, <2>4, <2>5, ZenonT(30) DEF MDuties, SrcKnown, DstFree
    <2>7. Backed(store', file[t], meta'[file[t]])
      BY <1>c, <2>3, <2>4, ZenonT(30)
    <2>8. \A g \in Names \ {file[t], dst[t]} : \A m \in Meta : Backed(store, g, m) => Backed(store', g, m)
      BY <2>3, ZenonT(30)
    <2> QED BY <1>b, <1>c, <2>4, <2>6, <2>7, <2>8, PairKeeps, ZenonT(30)
  <1> QED BY <1>1, <1>2, Zenon

\* moveFile of a rename, and the way back.
LEMMA MoveKeeps ==
  ASSUME OneRequest, MLockInv, MDataInv, NEW t \in Threads, RenameMove(t) \/ RenameRevert(t)
  PROVE  Keeps(t)
  <1>0. MTypeOK /\ MPlaces(t) /\ MDuties(t)
    BY Zenon DEF MLockInv, MDataInv
  <1>a. Flaky = {}
    BY Zenon DEF OneRequest
  <1>b. pc[t] \in {"mMove", "mRevert"} /\ UNCHANGED <<meta, file, of, dst>>
    BY ZenonT(30) DEF RenameMove, RenameRevert, redis
  <1> DEFINE s == file[t]
             d == dst[t]
             m == of[t]
  <1>c. /\ s \in Names /\ d \in Names /\ s # d /\ t \in Workers /\ t \notin Repairers
        /\ pc[t] \in LockedDst \ {"mUnlockDst"}
        /\ m \in Meta /\ m = meta[s] /\ (pc[t] # "mRevert" => Backed(store, s, m))
    BY <1>b, PairFacts, Zenon
  <1>d. ~Exists(meta[d])
    BY <1>0, <1>b, Zenon DEF MDuties, DstFree
  <1> HIDE DEF s, d, m
  <1>1. ASSUME RenameMove(t) PROVE Keeps(t)
    <2> DEFINE w(ack) == [m EXCEPT !.ids = [i \in Idx |-> IF i \in ack THEN @[i] ELSE INVALID_CONTAINER_ID]]
               ok(ack) == ack \in KSets \/ m.data = Empty
               Moved(done, ack) ==
                 /\ store' = Modified(s, m, d, m.ver, done, {}, FALSE)
                 /\ wf' = [wf EXCEPT ![t] = w(ack)]
                 /\ pc' = [pc EXCEPT ![t] = "mMeta"]
    <2>1. pc[t] = "mMove" /\ Backed(store, s, m)
      BY <1>1, <1>c, Zenon DEF RenameMove
    <2>2. PICK done \in SUBSET Movable(s, m) : \E ack \in Acked(m.ids, Movable(s, m), done) :
             ok(ack) => Moved(done, ack)
      BY <1>1, ZenonT(30) DEF RenameMove, Goto, s, d, m
    <2> HIDE DEF Moved, ok
    <2>3. PICK ack \in Acked(m.ids, Movable(s, m), done) : ok(ack) => Moved(done, ack)
      BY <2>2, Zenon
    <2>4. done = Movable(s, m) /\ ack = Movable(s, m)
      BY <1>a, <2>2, <2>3, AllAcked, ZenonT(30)
    <2>5. m.data # Empty => Movable(s, m) = Stored(m) /\ Stored(m) \in KSets
      BY <1>a, <1>c, <2>1, AllMoved, ZenonT(30)
    <2>6. ok(ack)
      BY <2>4, <2>5, Zenon DEF ok
    <2>7. /\ store' = Modified(s, m, d, m.ver, done, {}, FALSE)
          /\ wf' = [wf EXCEPT ![t] = w(ack)] /\ pc' = [pc EXCEPT ![t] = "mMeta"]
      BY <2>3, <2>6, Zenon DEF Moved
    <2>8. m.data # Empty => w(ack) = m
      <3> SUFFICES ASSUME m.data # Empty PROVE w(ack) = m
        BY Zenon
      <3>1. ack = Stored(m)
        BY <2>4, <2>5, Zenon
      <3>2. [i \in Idx |-> IF i \in ack THEN m.ids[i] ELSE INVALID_CONTAINER_ID] = m.ids
        BY <1>c, <3>1, Zenon DEF Stored, Meta, Ids
      <3> QED BY <1>c, <3>2, ZenonT(30) DEF Meta
    <2>9. pc'[t] = "mMeta" /\ wf'[t] = w(ack)
      BY <1>0, <2>7, Zenon DEF MTypeOK
    <2> HIDE DEF w
    <2>10. Backed(store', d, m)
      <3>1. CASE m.data = Empty
        BY <3>1, Zenon DEF Backed
      <3>2. CASE m.data # Empty
        <4>1. store' = Modified(s, m, d, m.ver, Stored(m), {}, FALSE)
          BY <2>4, <2>5, <2>7, <3>2, ZenonT(30)
        <4> QED BY <1>c, <2>1, <4>1, ModifiedThere, ZenonT(30)
      <3> QED BY <3>1, <3>2, Zenon
    <2>11. MDuties(t)'
      BY <1>b, <1>c, <1>d, <2>8, <2>9, <2>10, ZenonT(30) DEF MDuties, SrcKnown, DstFree, s, d, m
    <2>12. \A g \in Names \ {s, d} : \A n \in Meta : Backed(store, g, n) => Backed(store', g, n)
      BY <2>7, ModifiedElsewhere, ZenonT(30)
    <2>13. MovingBy(t, s)'
      BY <1>b, <2>9, Zenon DEF MovingBy, s
    <2> QED BY <1>b, <1>c, <1>d, <2>11, <2>12, <2>13, PairKeeps, ZenonT(30) DEF s, d
  <1>2. ASSUME RenameRevert(t) PROVE Keeps(t)
    <2> DEFINE n == wf[t]
    <2>1. pc[t] = "mRevert"
      BY <1>2, Zenon DEF RenameRevert
    <2>2. Backed(store, d, m) /\ (m.data # Empty => n = m)
      BY <1>0, <2>1, ZenonT(30) DEF MDuties, d, m
    <2>3. \E done \in SUBSET Movable(d, n) : \E ack \in Acked(n.ids, Movable(d, n), done) : \E del \in SUBSET ack :
             /\ IF ack \in KSets THEN del = {} ELSE Acked(n.ids, ack, del) # {}
             /\ store' = Modified(d, n, s, n.ver, done, del, FALSE)
      BY <1>2, ZenonT(30) DEF RenameRevert, s, d
    <2> HIDE DEF n
    <2>4. PICK done, ack, del :
             /\ done \in SUBSET Movable(d, n) /\ ack \in Acked(n.ids, Movable(d, n), done)
             /\ ack \in KSets => del = {}
             /\ store' = Modified(d, n, s, n.ver, done, del, FALSE)
      BY <2>3, ZenonT(30)
    <2>5. done = Movable(d, n) /\ ack = Movable(d, n)
      BY <1>a, <2>4, AllAcked, ZenonT(30)
    <2>6. Backed(store', s, m)
      <3>1. CASE m.data = Empty
        BY <3>1, Zenon DEF Backed
      <3>2. CASE m.data # Empty
        <4>1. n = m /\ Movable(d, m) = Stored(m) /\ Stored(m) \in KSets
          BY <1>a, <1>c, <2>2, <3>2, AllMoved, ZenonT(30)
        <4>2. store' = Modified(d, m, s, m.ver, Stored(m), {}, FALSE)
          BY <2>4, <2>5, <4>1, ZenonT(30)
        <4> QED BY <1>c, <2>2, <4>2, ModifiedThere, ZenonT(30)
      <3> QED BY <3>1, <3>2, Zenon
    <2>7. \A g \in Names \ {s, d} : \A o \in Meta : Backed(store, g, o) => Backed(store', g, o)
      BY <2>4, ModifiedElsewhere, ZenonT(30)
    <2>8. pc'[t] = "mUnlock"
      BY <1>0, <1>2, Zenon DEF RenameRevert, Goto, MTypeOK
    <2>9. MDuties(t)'
      BY <1>c, <2>8, Zenon DEF MDuties, SrcKnown, DstFree
    <2> QED BY <1>b, <1>c, <1>d, <2>6, <2>7, <2>9, PairKeeps, ZenonT(30) DEF s, d
  <1> QED BY <1>1, <1>2, Zenon

\* The metadata of a rename, and the chunks and metadata of a copy.
LEMMA CommitKeeps ==
  ASSUME OneRequest, MLockInv, MDataInv, NEW t \in Threads, RenameMeta(t) \/ CopyChunks(t) \/ CopyPutMeta(t)
  PROVE  Keeps(t)
  <1>0. MTypeOK /\ MPlaces(t) /\ MDuties(t)
    BY Zenon DEF MLockInv, MDataInv
  <1>a. "putMeta" \notin Faults /\ Flaky = {}
    BY Zenon DEF OneRequest
  <1>b. pc[t] \in {"mMeta", "cCopy", "cMeta"} /\ UNCHANGED <<file, of, dst>>
    BY ZenonT(30) DEF RenameMeta, CopyChunks, CopyPutMeta, redis
  <1> DEFINE s == file[t]
             d == dst[t]
             m == of[t]
  <1>c. /\ s \in Names /\ d \in Names /\ s # d /\ t \in Workers /\ t \notin Repairers
        /\ pc[t] \in LockedDst \ {"mUnlockDst"}
        /\ m \in Meta /\ m = meta[s] /\ (pc[t] # "mMeta" => Backed(store, s, m))
    BY <1>b, PairFacts, Zenon
  <1> HIDE DEF s, d, m
  <1>1. ASSUME RenameMeta(t) PROVE Keeps(t)
    <2>1. pc[t] = "mMeta" /\ UNCHANGED <<store, wf>>
      BY <1>1, Zenon DEF RenameMeta
    <2>2. ~Exists(meta[d]) /\ Backed(store, d, m) /\ (m.data # Empty => wf[t] = m)
      BY <1>0, <2>1, ZenonT(30) DEF MDuties, DstFree, d, m
    <2>3. \/ meta' = [meta EXCEPT ![d] = meta[s], ![s] = NoFile] /\ pc' = [pc EXCEPT ![t] = "mUnlock"]
          \/ meta' = meta /\ pc' = [pc EXCEPT ![t] = "mRevert"]
      BY <1>1, <1>a, ZenonT(30) DEF RenameMeta, Goto, s, d
    <2>4. CASE pc' = [pc EXCEPT ![t] = "mUnlock"] /\ meta' = [meta EXCEPT ![d] = meta[s], ![s] = NoFile]
      <3>1. pc'[t] = "mUnlock" /\ meta'[d] = m /\ ~Exists(meta'[s])
        BY <1>0, <1>c, <2>4, NoFileType, ZenonT(30) DEF MTypeOK
      <3>2. MDuties(t)'
        BY <1>c, <3>1, Zenon DEF MDuties, SrcKnown, DstFree
      <3> QED BY <1>b, <1>c, <2>1, <2>2, <3>1, <3>2, PairKeeps, ZenonT(30) DEF s, d
    <2>5. CASE pc' = [pc EXCEPT ![t] = "mRevert"] /\ meta' = meta
      <3>1. pc'[t] = "mRevert"
        BY <1>0, <2>5, Zenon DEF MTypeOK
      <3>2. MDuties(t)'
        BY <1>b, <1>c, <2>1, <2>2, <2>5, <3>1, ZenonT(30) DEF MDuties, SrcKnown, DstFree, s, d, m
      <3>3. MovingBy(t, s)'
        BY <1>b, <3>1, Zenon DEF MovingBy, s
      <3> QED BY <1>b, <1>c, <2>1, <2>2, <2>5, <3>2, <3>3, PairKeeps, ZenonT(30) DEF s, d
    <2> QED BY <2>3, <2>4, <2>5, Zenon
  <1>2. ASSUME CopyChunks(t) PROVE Keeps(t)
    <2> DEFINE w(ack) == [m EXCEPT !.ver = 0,
                            !.ids = [i \in Idx |-> IF i \in ack THEN m.ids[i] ELSE INVALID_CONTAINER_ID]]
               ok(ack) == ack \in KSets \/ m.data = Empty
               Copied(ack) == wf' = [wf EXCEPT ![t] = w(ack)] /\ pc' = [pc EXCEPT ![t] = "cMeta"]
    <2>1. pc[t] = "cCopy" /\ Backed(store, s, m) /\ meta' = meta
      BY <1>2, <1>c, ZenonT(30) DEF CopyChunks, redis
    <2>2. PICK done \in SUBSET Movable(s, m) : \E ack \in Acked(m.ids, Movable(s, m), done) :
             store' = Modified(s, m, d, 0, done, {}, TRUE) /\ (ok(ack) => Copied(ack))
      BY <1>2, ZenonT(30) DEF CopyChunks, Goto, s, d, m
    <2> HIDE DEF Copied, ok
    <2>3. PICK ack \in Acked(m.ids, Movable(s, m), done) :
             store' = Modified(s, m, d, 0, done, {}, TRUE) /\ (ok(ack) => Copied(ack))
      BY <2>2, Zenon
    <2>4. done = Movable(s, m) /\ ack = Movable(s, m)
      BY <1>a, <2>2, <2>3, AllAcked, ZenonT(30)
    <2>5. m.data # Empty => Movable(s, m) = Stored(m) /\ Stored(m) \in KSets
      BY <1>a, <1>c, <2>1, AllMoved, ZenonT(30)
    <2>6. ok(ack)
      BY <2>4, <2>5, Zenon DEF ok
    <2>7. wf'[t] = w(ack) /\ pc'[t] = "cMeta"
      BY <1>0, <2>3, <2>6, ZenonT(30) DEF Copied, MTypeOK
    <2> DEFINE q == [i \in Idx |-> IF i \in ack THEN m.ids[i] ELSE INVALID_CONTAINER_ID]
    <2>8. w(ack) \in Meta /\ w(ack).ids = q /\ w(ack).ver = 0 /\ w(ack).data = m.data
      <3>1. m \in Meta
        BY <1>c, Zenon
      <3> QED BY <3>1, MovedMeta, ZenonT(60)
    <2>9. m.data # Empty => q = m.ids
      <3> SUFFICES ASSUME m.data # Empty PROVE q = m.ids
        BY Zenon
      <3>1. ack = Stored(m)
        BY <2>4, <2>5, Zenon
      <3> QED BY <1>c, <3>1, Zenon DEF Stored, Meta, Ids
    <2> HIDE DEF w, q
    <2>10. Backed(store', d, w(ack))
      <3>1. CASE m.data = Empty
        BY <2>8, <3>1, Zenon DEF Backed
      <3>2. CASE m.data # Empty
        <4>1. store' = Modified(s, m, d, w(ack).ver, Stored(m), {}, TRUE)
          BY <2>3, <2>4, <2>5, <2>8, <3>2, ZenonT(30)
        <4>2. w(ack).ids = m.ids
          BY <2>8, <2>9, <3>2, Zenon
        <4> QED BY <1>c, <2>1, <2>8, <4>1, <4>2, ModifiedThere, ZenonT(30)
      <3> QED BY <3>1, <3>2, Zenon
    <2>11. \A g \in Names \ {d} : \A n \in Meta : Backed(store, g, n) => Backed(store', g, n)
      BY <2>3, ModifiedElsewhere, ZenonT(30)
    <2>12. MDuties(t)'
      BY <1>b, <1>c, <2>1, <2>7, <2>8, <2>10, ZenonT(30) DEF MDuties, SrcKnown, DstFree, s, d, m
    <2>13. MovingBy(t, d)' /\ Backed(store', s, meta'[s])
      BY <1>b, <1>c, <2>1, <2>7, <2>11, ZenonT(30) DEF MovingBy, d
    <2>14. \A g \in Names \ {s, d} : \A n \in Meta : Backed(store, g, n) => Backed(store', g, n)
      BY <2>11, ZenonT(30)
    <2> QED BY <1>b, <1>c, <2>12, <2>13, <2>14, PairKeeps, ZenonT(30) DEF s, d
  <1>3. ASSUME CopyPutMeta(t) PROVE Keeps(t)
    <2>1. pc[t] = "cMeta" /\ UNCHANGED <<store, wf>> /\ Backed(store, s, m)
      BY <1>3, <1>c, Zenon DEF CopyPutMeta
    <2>2. PICK okay \in BOOLEAN : PutMeta(d, wf[t], okay)
      BY <1>3, ZenonT(30) DEF CopyPutMeta, d
    <2>3. meta' = [meta EXCEPT ![d] = wf[t]]
      BY <1>a, <2>2, Zenon DEF PutMeta
    <2>4. meta'[d] = wf[t] /\ meta'[s] = m
      BY <1>0, <1>c, <2>3, Zenon DEF MTypeOK
    <2>5. Backed(store, d, wf[t])
      BY <1>0, <2>1, ZenonT(30) DEF MDuties, d
    <2>6. pc'[t] = "mUnlock"
      BY <1>0, <1>3, Zenon DEF CopyPutMeta, Goto, MTypeOK
    <2>7. MDuties(t)'
      BY <1>c, <2>6, Zenon DEF MDuties, SrcKnown, DstFree
    <2> QED BY <1>b, <1>c, <2>1, <2>4, <2>5, <2>7, PairKeeps, ZenonT(30) DEF s, d
  <1> QED BY <1>1, <1>2, <1>3, Zenon

\* MDataInv holds at the start and after every step.
LEMMA MDataInvInit == MInit => MDataInv
  <1> SUFFICES ASSUME MInit PROVE MDataInv
    BY Zenon
  <1>1. Settled
    BY NoFileType, ZenonT(30) DEF MInit, Init, Settled
  <1>2. \A t \in Threads : MDuties(t)
    BY Zenon DEF MInit, Init, MDuties, SrcKnown, DstFree, RepairLabels
  <1> QED BY <1>1, <1>2, Zenon DEF MDataInv

\* Every step keeps MDataInv.
LEMMA MDataInvNext ==
  ASSUME Decodable, OneRequest
  PROVE  MLockInv /\ MDataInv /\ [MNext]_mvars => MDataInv'
  <1> SUFFICES ASSUME MLockInv, MDataInv, [MNext]_mvars PROVE MDataInv'
    BY Zenon
  <1>1. ASSUME NEW t \in Threads, MStart(t) \/ MStep(t) PROVE MDataInv'
    <2>1. Keeps(t)
      BY <1>1, MoveQuietKeeps, NestedKeeps, MoveKeeps, CommitKeeps, ZenonT(30) DEF MStep
    <2> QED BY <1>1, <2>1, MoveStepSound, KeepsStep, Zenon
  <1>2. ASSUME NEW t \in Threads, StoreStep(t) PROVE MDataInv'
    BY <1>2, StoreStepKeeps, StoreStepSound, KeepsStep, Zenon
  <1>3. ASSUME UNCHANGED <<fileLock, meta, store, pc, file, dst, of, wf>> PROVE MDataInv'
    <2>1. \A f \in Names : Moving(f)' <=> Moving(f)
      BY <1>3, Zenon DEF Moving, LeftLocked, MHolds
    <2>2. Settled'
      BY <1>3, <2>1, Zenon DEF MDataInv, Settled
    <2>3. \A t \in Threads : MDuties(t)'
      BY <1>3, ZenonT(30) DEF MDataInv, MDuties
    <2> QED BY <2>2, <2>3, Zenon DEF MDataInv
  <1>4. CASE MCrash
    <2>1. UNCHANGED <<fileLock, meta, store>> /\ \A t \in Threads : pc'[t] = "idle"
      BY <1>4, Zenon DEF MCrash, Crash, redis
    <2>2. \A f \in Names : \A t \in Threads : ~MHolds(t, f)'
      BY <2>1, Zenon DEF MHolds, LockedSrc, LockedDst, Locked
    <2>3. ASSUME NEW f \in Names, Moving(f) PROVE Moving(f)'
      <3>1. f \in fileLock
        BY <2>3, MovingHeld, Zenon DEF Moving, LeftLocked, MLockInv, MExclusive, MovingBy
      <3> QED BY <2>1, <2>2, <3>1, Zenon DEF Moving, LeftLocked
    <2>4. Settled'
      BY <2>1, <2>3, Zenon DEF MDataInv, Settled
    <2>5. \A t \in Threads : MDuties(t)'
      BY <2>1, Zenon DEF MDuties, SrcKnown, DstFree, RepairLabels
    <2> QED BY <2>4, <2>5, Zenon DEF MDataInv
  <1>5. (\E f \in Names : ScanMark(f) /\ UNCHANGED <<dst, df>>) \/ UNCHANGED mvars =>
           UNCHANGED <<fileLock, meta, store, pc, file, dst, of, wf>>
    BY Zenon DEF ScanMark, mvars
  <1> QED BY <1>1, <1>2, <1>3, <1>4, <1>5, ZenonT(30) DEF MNext

-----------------------------------------------------------------------------
(***************************************************************************)
(* Refinement.  What a file is taken for is the payload that its metadata  *)
(* stands for, and so changes with the metadata only.                      *)
(***************************************************************************)
mpayload == [f \in Names |-> IF Exists(meta[f]) THEN meta[f].data ELSE Nil]
mcontent == [f \in Names |-> IF Moving(f) /\ Exists(meta[f]) THEN meta[f].data ELSE Content(f)]
TakenFor == MLockInv /\ MDataInv => mcontent = mpayload

\* A file whose chunks are those its metadata names decodes to its payload.
LEMMA BackedContent ==
  ASSUME Decodable, NEW f \in Names, meta[f] \in Meta, Backed(store, f, meta[f])
  PROVE  Content(f) = meta[f].data
  <1>0. Exists(meta[f]) /\ meta[f].data # Nil
    BY ValueAssumption DEF Exists, Meta, Versions
  <1>1. CASE meta[f].data = Empty
    BY <1>0, <1>1, Zenon DEF Content
  <1>2. CASE meta[f].data # Empty
    <2>1. Stored(meta[f]) \in KSets /\ \A i \in Stored(meta[f]) : store[KeyOf(f, meta[f], i)] = meta[f].data
      BY <1>2, Zenon DEF Backed
    <2>2. Present(f) = Stored(meta[f])
      BY <1>0, <2>1, Zenon DEF Present
    <2>3. Present(f) # {}
      BY <2>1, <2>2, Zenon DEF Decodable
    <2>4. {store[KeyOf(f, meta[f], i)] : i \in Present(f)} = {meta[f].data}
      BY <2>1, <2>2, <2>3, Zenon
    <2> QED BY <1>0, <1>2, <2>1, <2>2, <2>4, DecodeOne, ZenonT(30) DEF Content
  <1> QED BY <1>1, <1>2, Zenon

\* What a file is taken for is the payload its metadata stands for.
LEMMA TakenForPayload ==
  ASSUME Decodable
  PROVE  TakenFor
  <1> SUFFICES ASSUME MLockInv, MDataInv, NEW f \in Names, Exists(meta[f]), ~Moving(f)
               PROVE  Content(f) = meta[f].data
    BY ZenonT(30) DEF TakenFor, mcontent, mpayload, Content
  <1>1. meta[f] \in Meta /\ Backed(store, f, meta[f])
    BY NoFileType, Zenon DEF MDataInv, Settled, MLockInv, MTypeOK
  <1> QED BY <1>1, BackedContent, Zenon

\* The same after a step.
LEMMA TakenForNext ==
  ASSUME Decodable
  PROVE  TakenFor'
  BY TakenForPayload, PTL

\* What a step does to the metadata.
Rewritten(f, m) == meta' = [meta EXCEPT ![f] = m]
MetaChange ==
    \/ meta' = meta
    \/ \E f \in Names : Rewritten(f, NoFile) \/ \E m \in Meta : Rewritten(f, m)
    \/ \E s, d \in Names :
          /\ s # d /\ Exists(meta[s]) /\ ~Exists(meta[d])
          /\ meta' = [meta EXCEPT ![d] = meta[s], ![s] = NoFile]

\* One file, or both files of a rename, change at a time.
LEMMA MetaChanges ==
  ASSUME OneRequest, MLockInv, MDataInv, [MNext]_mvars
  PROVE  MetaChange
  <1>0. MTypeOK /\ \A t \in Threads : MPlaces(t) /\ MDuties(t)
    BY Zenon DEF MLockInv, MDataInv
  <1>a. "putMeta" \notin Faults
    BY Zenon DEF OneRequest
  <1>1. ASSUME NEW t \in Threads, WritePutMeta(t) \/ RepairPutMeta(t) PROVE MetaChange
    <2>1. file[t] \in Names /\ wf[t] \in Meta
      BY <1>0, <1>1, MetaFile, ZenonT(30) DEF WritePutMeta, RepairPutMeta, MTypeOK, MPlaces
    <2>2. meta' = [meta EXCEPT ![file[t]] = wf[t]]
      BY <1>1, <1>a, Zenon DEF WritePutMeta, RepairPutMeta, PutMeta
    <2> QED BY <2>1, <2>2, ZenonT(30) DEF MetaChange, Rewritten
  <1>2. ASSUME NEW t \in Threads, CopyPutMeta(t) PROVE MetaChange
    <2>1. dst[t] \in Names /\ wf[t] \in Meta
      BY <1>0, <1>2, ZenonT(30) DEF CopyPutMeta, MPlaces, MoveLabels
    <2>2. meta' = [meta EXCEPT ![dst[t]] = wf[t]]
      BY <1>2, <1>a, Zenon DEF CopyPutMeta, PutMeta
    <2> QED BY <2>1, <2>2, ZenonT(30) DEF MetaChange, Rewritten
  <1>3. ASSUME NEW t \in Threads, DeleteMeta(t) PROVE MetaChange
    <2>1. file[t] \in Names
      BY <1>0, <1>3, Zenon DEF DeleteMeta, MPlaces
    <2>2. meta' = [meta EXCEPT ![file[t]] = NoFile]
      BY <1>3, <1>a, ZenonT(30) DEF DeleteMeta, RemoveMeta, PutMeta
    <2> QED BY <2>1, <2>2, ZenonT(30) DEF MetaChange, Rewritten
  <1>4. ASSUME NEW t \in Threads, NestedDeleteMeta(t) PROVE MetaChange
    <2>1. dst[t] \in Names
      BY <1>0, <1>4, Zenon DEF NestedDeleteMeta, MPlaces, MoveLabels
    <2>2. meta' = [meta EXCEPT ![dst[t]] = NoFile]
      BY <1>4, <1>a, ZenonT(30) DEF NestedDeleteMeta, RemoveMeta, PutMeta
    <2> QED BY <2>1, <2>2, ZenonT(30) DEF MetaChange, Rewritten
  <1>5. ASSUME NEW t \in Threads, RenameMeta(t) PROVE MetaChange
    <2>1. pc[t] = "mMeta"
      BY <1>5, Zenon DEF RenameMeta
    <2>2. file[t] \in Names /\ dst[t] \in Names /\ file[t] # dst[t] /\ Exists(meta[file[t]])
      BY <2>1, PairFacts, Zenon
    <2>3. ~Exists(meta[dst[t]])
      BY <1>0, <2>1, Zenon DEF MDuties, DstFree
    <2>4. meta' = meta \/ meta' = [meta EXCEPT ![dst[t]] = meta[file[t]], ![file[t]] = NoFile]
      BY <1>5, ZenonT(30) DEF RenameMeta
    <2> QED BY <2>2, <2>3, <2>4, ZenonT(30) DEF MetaChange
  <1>6. ASSUME NEW t \in Threads, StoreStep(t), ~WritePutMeta(t), ~RepairPutMeta(t), ~DeleteMeta(t) PROVE meta' = meta
    <2>1. Start(t) => meta' = meta
      BY Zenon DEF Start, WriteLock, DeleteLock, ReadGetMeta, RepairPop, redis
    <2>2. Step(t) => meta' = meta
      BY <1>6, ZenonT(60) DEF Step, WriteGetMeta, WriteStripes, WriteNoSpace, WriteDeleteOld, DeleteGetMeta, DeleteChunks,
                Unlock, RepairLock, RepairBusy, RepairDone, RepairGetMeta, RepairFix, RepairUnlock,
                ReadChunk, ReadEnd, redis
    <2> QED BY <1>6, <2>1, <2>2, Zenon DEF StoreStep
  <1>7. ASSUME NEW t \in Threads, MStart(t) \/ MStep(t), ~CopyPutMeta(t), ~NestedDeleteMeta(t), ~RenameMeta(t)
        PROVE  meta' = meta
    <2>1. MStart(t) => meta' = meta
      BY Zenon DEF MStart, RenameStart, CopyStart, redis
    <2>2. SrcLock(t) \/ SrcGetMeta(t) \/ DstLock(t) \/ UnlockSrc(t) \/ UnlockDst(t) \/ RenameGetDst(t) => meta' = meta
      BY Zenon DEF SrcLock, SrcGetMeta, DstLock, UnlockSrc, UnlockDst, RenameGetDst, redis
    <2>3. NestedGetMeta(t) \/ NestedDeleteChunks(t) \/ NestedUnlock(t) \/ RenameMove(t) \/ RenameRevert(t)
          \/ CopyChunks(t) => meta' = meta
      BY ZenonT(30) DEF NestedGetMeta, NestedDeleteChunks, NestedUnlock, RenameMove, RenameRevert, CopyChunks, redis
    <2> QED BY <1>7, <2>1, <2>2, <2>3, Zenon DEF MStep
  <1>8. (\E f \in Names : ScanMark(f)) \/ MCrash \/ UNCHANGED mvars => meta' = meta
    BY Zenon DEF ScanMark, MCrash, Crash, mvars, redis
  <1>9. meta' = meta => MetaChange
    BY Zenon DEF MetaChange
  <1> QED BY <1>1, <1>2, <1>3, <1>4, <1>5, <1>6, <1>7, <1>8, <1>9, ZenonT(30) DEF MNext

\* A change of the metadata is a step of the file service.
LEMMA MoverStep ==
  ASSUME MTypeOK, MetaChange, mcontent = mpayload, mcontent' = mpayload'
  PROVE  \/ mcontent' = mcontent
         \/ Mover!Next
         \/ \E s, d \in Names : Mover!Rename(s, d)
  <1>1. CASE meta' = meta
    BY <1>1, Zenon DEF mpayload
  <1>2. ASSUME NEW f \in Names, Rewritten(f, NoFile) PROVE Mover!Next \/ mcontent' = mcontent
    <2>1. mcontent' = [mcontent EXCEPT ![f] = Nil]
      BY <1>2, NoFileType, Zenon DEF Rewritten, mpayload, MTypeOK
    <2>2. mcontent[f] = Nil => mcontent' = mcontent
      BY <2>1, Zenon DEF mcontent
    <2>3. mcontent[f] # Nil => Mover!Delete(f)
      BY <2>1, Zenon DEF Mover!Delete, mcontent
    <2> QED BY <2>2, <2>3, Zenon DEF Mover!Next
  <1>3. ASSUME NEW f \in Names, NEW m \in Meta, Rewritten(f, m) PROVE Mover!Next
    <2>1. Exists(m) /\ m.data \in Data \cup {Empty}
      BY DEF Meta, Exists, Versions
    <2>2. mcontent' = [mcontent EXCEPT ![f] = m.data]
      BY <1>3, <2>1, Zenon DEF Rewritten, mpayload, MTypeOK
    <2>3. Mover!Write(f, m.data)
      BY <2>2, Zenon DEF Mover!Write, mcontent
    <2> QED BY <2>1, <2>3, Zenon DEF Mover!Next
  <1>4. ASSUME NEW s \in Names, NEW d \in Names, s # d, Exists(meta[s]), ~Exists(meta[d]),
               meta' = [meta EXCEPT ![d] = meta[s], ![s] = NoFile]
        PROVE  Mover!Rename(s, d)
    <2>1. mpayload' = [mpayload EXCEPT ![d] = mpayload[s], ![s] = Nil]
      BY <1>4, NoFileType, Zenon DEF mpayload, MTypeOK
    <2>2. mpayload[s] = meta[s].data /\ mpayload[d] = Nil
      BY <1>4, Zenon DEF mpayload
    <2>3. meta[s].data # Nil
      BY <1>4, NoFileType, ValueAssumption, SMTT(30) DEF MTypeOK, Meta
    <2>4. mcontent[s] # Nil /\ mcontent[d] = Nil /\ mcontent' = [mcontent EXCEPT ![d] = mcontent[s], ![s] = Nil]
      BY <2>1, <2>2, <2>3, Zenon
    <2> QED BY <2>4, Zenon DEF Mover!Rename, mcontent
  <1> QED BY <1>1, <1>2, <1>3, <1>4, Zenon DEF MetaChange

-----------------------------------------------------------------------------
(* What renameFile and copyFile promise, from MDataInv.                    *)

\* With one request at a time, beside any number of repairs and whenever the proxy
\* dies, the metadata of a file that is not locked names chunks of that file only,
\* and enough of them: renameFile and copyFile are seen as a whole or not at all.
THEOREM MovesSettle ==
  ASSUME OneRequest
  PROVE  MSpec => []SettledDurable
  <1>1. MLockInv /\ MDataInv => SettledDurable
    <2> SUFFICES ASSUME MLockInv, MDataInv, NEW f \in Names \ fileLock, Exists(meta[f]), meta[f].data # Empty
                 PROVE  Good(f) = Stored(meta[f]) /\ Good(f) \in KSets
      BY Zenon DEF SettledDurable
    <2>1. ~Moving(f)
      BY MovingHeld, Zenon DEF Moving, LeftLocked, MLockInv, MExclusive, MovingBy
    <2>2. Backed(store, f, meta[f])
      BY <2>1, ZenonT(30) DEF MDataInv, Settled
    <2> QED BY <2>2, Zenon DEF Backed, Good
  <1>2. MInit => MLockInv /\ MDataInv
    BY MLockInvInit, MDataInvInit, ZenonT(30)
  <1>3. MLockInv /\ MDataInv /\ [MNext]_mvars => MLockInv' /\ MDataInv'
    BY MLockInvNext, MDataInvNext, DecodableAlways, ZenonT(30)
  <1> QED BY <1>1, <1>2, <1>3, PTL DEF MSpec

\* With one request at a time, renameFile and copyFile are atomic beside writes,
\* deletes and repairs, also when the proxy dies: the payload of the source goes to
\* the destination in one step of the file service.
THEOREM MovesRefine ==
  ASSUME OneRequest
  PROVE  MSpec => MoveServiceSpec
  <1> DEFINE MoverNext == Mover!Next \/ \E s, d \in Names : Mover!Rename(s, d) \/ Mover!Copy(s, d)
  <1>1. MInit => MLockInv /\ MDataInv
    BY MLockInvInit, MDataInvInit, Zenon
  <1>2. MLockInv /\ MDataInv /\ [MNext]_mvars => MLockInv' /\ MDataInv'
    BY MLockInvNext, MDataInvNext, DecodableAlways, Zenon
  <1>3. MInit => Mover!Init
    <2> SUFFICES ASSUME MInit PROVE Mover!Init
      BY Zenon
    <2>1. mcontent = mpayload
      BY <1>1, TakenForPayload, DecodableAlways, ZenonT(30) DEF TakenFor
    <2>2. mpayload = [f \in Names |-> Nil]
      BY NoFileType, ZenonT(30) DEF MInit, Init, mpayload
    <2> QED BY <2>1, <2>2, Zenon DEF Mover!Init, mcontent
  <1>4. MLockInv /\ MDataInv /\ [MNext]_mvars =>
           [MoverNext]_([f \in Names |-> IF Moving(f) /\ Exists(meta[f]) THEN meta[f].data ELSE Content(f)])
    <2> SUFFICES ASSUME MLockInv, MDataInv, [MNext]_mvars PROVE MoverNext \/ mcontent' = mcontent
      BY Zenon DEF mcontent
    <2>1. MTypeOK /\ mcontent = mpayload
      BY TakenForPayload, DecodableAlways, ZenonT(30) DEF TakenFor, MLockInv
    <2>2. mcontent' = mpayload'
      BY <1>2, TakenForNext, DecodableAlways, ZenonT(30) DEF TakenFor
    <2>3. MetaChange
      BY MetaChanges, Zenon
    <2> QED BY <2>1, <2>2, <2>3, MoverStep, ZenonT(30)
  <1> QED BY <1>1, <1>2, <1>3, <1>4, PTL DEF MSpec, MoveServiceSpec, Mover!MSpec

=============================================================================
