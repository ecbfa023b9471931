------------------------------ MODULE FileStore ------------------------------
(***************************************************************************)
(* The life of a file in the proxy: write, read, delete and repair of      *)
(* erasure-coded files, run by concurrent threads over the shared Redis    *)
(* metadata store and the storage containers behind the agents.            *)
(*                                                                         *)
(* A file is one stripe of N chunks, any K of which restore it.  The name  *)
(* of a chunk is (file, version, chunk id); two chunks of that name in two *)
(* containers are two chunks.  What a chunk holds is abstracted to the     *)
(* payload of the write that produced it, so that a set of chunks decodes  *)
(* to a payload exactly when they all hold it.                             *)
(*                                                                         *)
(* The configuration modelled is that of sample/proxy.ini: overwrite_files *)
(* on (no versioning), no staging, no deduplication, all chunk requests in *)
(* the foreground.  One step is one access to shared state: one Redis      *)
(* command sequence, or one round of chunk requests.                       *)
(***************************************************************************)
EXTENDS Integers, FiniteSets

CONSTANTS
    Names,                  \* file names
    Workers,                \* proxy threads that serve file requests
    Repairers,              \* background repair threads, one per proxy
    Containers,             \* storage containers
    N, K,                   \* coding parameters
    Data,                   \* payloads of non-empty files
    Empty,                  \* the payload of a file of size 0
    Garbage,                \* what chunks of different payloads decode to
    Nil,                    \* nothing: no such chunk, no file at hand
    INVALID_CONTAINER_ID,
    MaxVersion,             \* bound on file versions
    batchSize,              \* recovery.recover_batch_size
    Ops,                    \* which requests there are: subset of OpKinds
    Flaky,                  \* containers that may be down, or fail to answer
    Faults,                 \* which other calls may fail: subset of FaultKinds
    verifyChunkChecksum     \* general.ini data_integrity.verify_chunk_checksum

OpKinds == {"write", "delete", "read"}
FaultKinds == {"putMeta",   \* putMeta or deleteMeta reports an error
               "getMeta",   \* getMeta reports an error on an existing file
               "crash"}     \* the proxy process dies and restarts

Threads == Workers \cup Repairers
Idx == 0 .. N - 1
Versions == 0 .. MaxVersion
Keys == Containers \X Names \X Versions \X Idx

ASSUME CodingAssumption == N \in Nat /\ K \in Nat /\ 1 <= K /\ K <= N
ASSUME VersionAssumption == MaxVersion \in Nat
ASSUME ValueAssumption ==
    /\ INVALID_CONTAINER_ID \notin Containers
    /\ Workers \cap Repairers = {}
    /\ Empty \notin Data /\ Garbage \notin Data \cup {Empty}
    /\ Nil \notin Data \cup {Empty, Garbage} /\ Nil \notin Names
ASSUME SwitchAssumption ==
    /\ Ops \subseteq OpKinds /\ Faults \subseteq FaultKinds
    /\ Flaky \subseteq Containers /\ verifyChunkChecksum \in BOOLEAN

\* File (ds/file.hh): version, container of each chunk, and the payload that
\* its size and checksums stand for.  A File that was not found keeps version -1.
Ids == [Idx -> Containers \cup {INVALID_CONTAINER_ID}]
File == [ver : Versions \cup {-1}, ids : Ids, data : Data \cup {Empty}]
Meta == [ver : Versions, ids : Ids, data : Data \cup {Empty}]
NoIds == [i \in Idx |-> INVALID_CONTAINER_ID]
NoFile == [ver |-> -1, ids |-> NoIds, data |-> Empty]

\* The sets of chunk ids that suffice to decode.
KSets == {S \in SUBSET Idx : Cardinality(S) >= K}

VARIABLES
    fileLock,   \* Redis set FILE_LOCK_KEY: names of the locked files
    meta,       \* Redis hash of each file name
    stubs,      \* names whose Redis hash holds timestamps and nothing else
    repairQ,    \* Redis set FILE_REPAIR_KEY: <<name, version>>, -1 unspecified
    store,      \* what the containers hold: chunk name and container -> payload
    pc,         \* where each thread is in its operation
    file,       \* the name the thread operates on
    of,         \* the thread's copy of the stored metadata
    wf,         \* the metadata the thread is going to store
    todo,       \* read: chunks not requested so far
    got,        \* read: <<chunk id, payload>> of the replies so far
    batch       \* repair: entries popped from repairQ and not yet tried

redis == <<fileLock, meta, stubs, repairQ>>
vars == <<fileLock, meta, stubs, repairQ, store, pc, file, of, wf, todo, got, batch>>

Init ==
    /\ fileLock = {} /\ stubs = {} /\ repairQ = {}
    /\ meta = [f \in Names |-> NoFile]
    /\ store = [x \in Keys |-> Nil]
    /\ pc = [t \in Threads |-> "idle"]
    /\ file = [t \in Threads |-> Nil]
    /\ of = [t \in Threads |-> NoFile]
    /\ wf = [t \in Threads |-> NoFile]
    /\ todo = [t \in Threads |-> {}]
    /\ got = [t \in Threads |-> {}]
    /\ batch = [t \in Threads |-> {}]

-----------------------------------------------------------------------------
(* Chunks.                                                                 *)

Exists(m) == m.ver # -1
Stored(m) == {i \in Idx : m.ids[i] # INVALID_CONTAINER_ID}
KeyOf(f, m, i) == <<m.ids[i], f, m.ver, i>>
KeysOf(f, m, S) == {KeyOf(f, m, i) : i \in S}

\* The store after payload d went to the keys put and the keys del were removed.
Updated(put, d, del) ==
    [x \in Keys |-> IF x \in del THEN Nil ELSE IF x \in put THEN d ELSE store[x]]

\* checkContainerLiveness: the chunks of m that are found alive.
Alive(m) == {S \in SUBSET Stored(m) : \A i \in Stored(m) \ S : m.ids[i] \in Flaky}

\* sendChunkRequestToAgent for the chunks in sent, chunk i to container ids[i],
\* of which those in done are executed: the ones that are answered with success.
Acked(ids, sent, done) == {S \in SUBSET done : \A i \in sent \ S : ids[i] \in Flaky}

FirstK(S) == {i \in S : Cardinality({j \in S : j < i}) < K}

Decode(payloads) ==
    IF \E d \in payloads : payloads = {d} THEN CHOOSE d \in payloads : TRUE ELSE Garbage

\* Coordinator::findSpareContainers: distinct containers, none of them in use.
Placements(S, used) ==
    {p \in [S -> Containers \ used] : \A i, j \in S : p[i] = p[j] => i = j}

-----------------------------------------------------------------------------
(* Threads.                                                                *)

Goto(t, l) == pc' = [pc EXCEPT ![t] = l]

Begin(t, f, l) ==
    /\ pc[t] = "idle"
    /\ pc' = [pc EXCEPT ![t] = l]
    /\ file' = [file EXCEPT ![t] = f]

Return(t) ==
    /\ pc' = [pc EXCEPT ![t] = "idle"]
    /\ file' = [file EXCEPT ![t] = Nil]
    /\ of' = [of EXCEPT ![t] = NoFile]
    /\ wf' = [wf EXCEPT ![t] = NoFile]
    /\ todo' = [todo EXCEPT ![t] = {}]
    /\ got' = [got EXCEPT ![t] = {}]

\* Mutant: the reply of SADD is not looked at.
LockFileUnchecked(f) == fileLock' = fileLock \cup {f}

\* SADD succeeds only when the name was not a member.  A thread that finds the
\* file locked in all its attempts gives up without having changed anything.  The
\* replies to SADD and SREM are not lost.
LockFile(f) == f \notin fileLock /\ fileLock' = fileLock \cup {f}

\* The reply of getMeta: a failed request is no different from a missing file.
GetMeta(f, m) == m = meta[f] \/ ("getMeta" \in Faults /\ m = NoFile)

\* putMeta: success, or an error before or after Redis executed the command.
PutMeta(f, m, okay) ==
    \/ /\ okay \/ "putMeta" \in Faults
       /\ meta' = [meta EXCEPT ![f] = m]
       /\ stubs' = stubs \ {f}
    \/ /\ ~okay /\ "putMeta" \in Faults
       /\ UNCHANGED <<meta, stubs>>

\* deleteMeta, with the same outcomes.
RemoveMeta(f, okay) == PutMeta(f, NoFile, okay)

\* updateTimestamps sets fields of the file's hash, and makes one if there is none.
UpdateTimestamps(f) == stubs' = IF Exists(meta[f]) THEN stubs ELSE stubs \cup {f}

\* markFileRepairStatus: SADD and SREM of the name, with the version if specified.
MarkFileAsNeedsRepair(f, ver) == repairQ' = repairQ \cup {<<f, ver>>}
MarkFileAsRepaired(f, ver) == repairQ' = repairQ \ {<<f, ver>>}

-----------------------------------------------------------------------------
(* Proxy::writeFile                                                        *)

WriteLock(t, f, d) ==
    /\ meta[f].ver < MaxVersion
    /\ LockFile(f)
    /\ Begin(t, f, "wGet")
    /\ wf' = [wf EXCEPT ![t] = [NoFile EXCEPT !.data = d]]
    /\ UNCHANGED <<meta, stubs, repairQ, store, of, todo, got, batch>>

\* Mutant: an overwrite keeps the version.
WriteGetMetaSameVersion(t) ==
    /\ pc[t] = "wGet"
    /\ of' = [of EXCEPT ![t] = meta[file[t]]]
    /\ wf' = [wf EXCEPT ![t].ver = IF Exists(meta[file[t]]) THEN meta[file[t]].ver ELSE 0]
    /\ Goto(t, IF wf[t].data = Empty THEN "wMeta" ELSE "wPut")
    /\ UNCHANGED <<redis, store, file, todo, got, batch>>

\* Mutant: the version found is not incremented.
WriteGetMetaNotIncremented(t) ==
    /\ pc[t] = "wGet"
    /\ of' = [of EXCEPT ![t] = meta[file[t]]]
    /\ wf' = [wf EXCEPT ![t].ver = meta[file[t]].ver]
    /\ Goto(t, IF wf[t].data = Empty THEN "wMeta" ELSE "wPut")
    /\ UNCHANGED <<redis, store, file, todo, got, batch>>

WriteGetMeta(t) ==
    /\ pc[t] = "wGet"
    /\ \E m \in {meta[file[t]], NoFile} :
          /\ GetMeta(file[t], m)
          /\ of' = [of EXCEPT ![t] = m]
          /\ wf' = [wf EXCEPT ![t].ver = m.ver + 1]
    /\ Goto(t, IF wf[t].data = Empty THEN "wMeta" ELSE "wPut")
    /\ UNCHANGED <<redis, store, file, todo, got, batch>>

\* Mutant: one chunk less than is needed to decode.
StripeStandsWithLess(sent, ack) == ack = sent \/ Cardinality(ack) >= K - 1

\* A stripe is written if all its requests succeeded or at least K of them did.
StripeStands(sent, ack) == ack = sent \/ ack \in KSets

\* writeFileStripe, when of the chunks sent to the containers p those in done are
\* executed and those in ack reported as such.  Chunks without a positive reply
\* have no container.  If the stripe does not stand, the chunks with a positive
\* reply are deleted, as far as those requests are executed.
WriteOutcome(t, p, done, ack) ==
    LET w == [wf[t] EXCEPT !.ids = [i \in Idx |-> IF i \in ack THEN p[i] ELSE INVALID_CONTAINER_ID]]
        put == {<<p[i], file[t], wf[t].ver, i>> : i \in done}
    IN \/ /\ StripeStands(DOMAIN p, ack)
          /\ store' = Updated(put, wf[t].data, {})
          /\ wf' = [wf EXCEPT ![t] = w]
          /\ Goto(t, "wMeta")
       \/ /\ ~StripeStands(DOMAIN p, ack)
          /\ \E del \in SUBSET ack :
                /\ Acked(p, ack, del) # {}
                /\ store' = Updated(put, wf[t].data, KeysOf(file[t], w, del))
          /\ Goto(t, "unlock")
          /\ UNCHANGED wf

\* writeFileStripes: numSpare containers are found, and the first numSpare chunks
\* are sent.
WriteStripes(t) ==
    /\ pc[t] = "wPut"
    /\ \E numSpare \in K .. N : \E p \in Placements(0 .. numSpare - 1, {}) :
       \E done \in SUBSET DOMAIN p : \E ack \in Acked(p, DOMAIN p, done) :
          WriteOutcome(t, p, done, ack)
    /\ UNCHANGED <<redis, file, of, todo, got, batch>>

\* Mutant: the file stays locked.
WriteNoSpaceLocked(t) ==
    /\ pc[t] = "wPut"
    /\ Return(t)
    /\ UNCHANGED <<redis, store, batch>>

\* prepareWrite: fewer than K containers are alive and have room.
WriteNoSpace(t) ==
    /\ pc[t] = "wPut"
    /\ Goto(t, "unlock")
    /\ UNCHANGED <<redis, store, file, of, wf, todo, got, batch>>

\* Mutant: the old chunks are deleted also if the new metadata is not stored.
WritePutMetaUnchecked(t) ==
    /\ pc[t] = "wMeta"
    /\ \E okay \in BOOLEAN : PutMeta(file[t], wf[t], okay)
    /\ Goto(t, IF Exists(of[t]) THEN "wDel" ELSE "unlock")
    /\ UNCHANGED <<fileLock, repairQ, store, file, of, wf, todo, got, batch>>

WritePutMeta(t) ==
    /\ pc[t] = "wMeta"
    /\ \E okay \in BOOLEAN :
          /\ PutMeta(file[t], wf[t], okay)
          /\ Goto(t, IF okay /\ Exists(of[t]) THEN "wDel" ELSE "unlock")
    /\ UNCHANGED <<fileLock, repairQ, store, file, of, wf, todo, got, batch>>

\* Mutant: only the chunks with data are deleted, not those with parity.
WriteDeleteOldData(t) ==
    /\ pc[t] = "wDel"
    /\ store' = Updated({}, Nil, KeysOf(file[t], of[t], {i \in Stored(of[t]) : i < K}))
    /\ Goto(t, "unlock")
    /\ UNCHANGED <<redis, file, of, wf, todo, got, batch>>

\* The chunks of the old version in live containers are deleted; whether the
\* requests succeed makes no difference.
WriteDeleteOld(t) ==
    /\ pc[t] = "wDel"
    /\ \E alive \in Alive(of[t]) : \E del \in SUBSET alive :
          /\ Acked(of[t].ids, alive, del) # {}
          /\ store' = Updated({}, Nil, KeysOf(file[t], of[t], del))
    /\ Goto(t, "unlock")
    /\ UNCHANGED <<redis, file, of, wf, todo, got, batch>>

-----------------------------------------------------------------------------
(* Proxy::deleteFile                                                       *)

DeleteLock(t, f) ==
    /\ LockFile(f)
    /\ Begin(t, f, "dGet")
    /\ UNCHANGED <<meta, stubs, repairQ, store, of, wf, todo, got, batch>>

DeleteGetMeta(t) ==
    /\ pc[t] = "dGet"
    /\ \E m \in {meta[file[t]], NoFile} :
          /\ GetMeta(file[t], m)
          /\ of' = [of EXCEPT ![t] = m]
          /\ Goto(t, IF Exists(m) THEN "dMeta" ELSE "unlock")
    /\ UNCHANGED <<redis, store, file, wf, todo, got, batch>>

\* deleteMeta, and on success markFileAsRepaired of that version.
DeleteMeta(t) ==
    /\ pc[t] = "dMeta"
    /\ \E okay \in BOOLEAN :
          /\ RemoveMeta(file[t], okay)
          /\ IF okay THEN MarkFileAsRepaired(file[t], of[t].ver) ELSE UNCHANGED repairQ
          /\ Goto(t, IF okay /\ of[t].data # Empty THEN "dDel" ELSE "unlock")
    /\ UNCHANGED <<fileLock, store, file, of, wf, todo, got, batch>>

\* The chunks in live containers are deleted.  A request without a positive
\* reply makes the operation fail, which leaves out the second
\* markFileAsRepaired and nothing else.
DeleteChunks(t) ==
    /\ pc[t] = "dDel"
    /\ \E alive \in Alive(of[t]) : \E done \in SUBSET alive : \E ack \in Acked(of[t].ids, alive, done) :
          /\ store' = Updated({}, Nil, KeysOf(file[t], of[t], done))
          /\ IF ack = alive THEN MarkFileAsRepaired(file[t], of[t].ver) ELSE UNCHANGED repairQ
    /\ Goto(t, "unlock")
    /\ UNCHANGED <<fileLock, meta, stubs, file, of, wf, todo, got, batch>>

Unlock(t) ==
    /\ pc[t] = "unlock"
    /\ fileLock' = fileLock \ {file[t]}
    /\ Return(t)
    /\ UNCHANGED <<meta, stubs, repairQ, store, batch>>

-----------------------------------------------------------------------------
(* Proxy::backgroundRepair and Proxy::repairFile                           *)

\* The scan marks a file with a chunk in no live container.
ScanMark(f) ==
    /\ Exists(meta[f]) /\ meta[f].data # Empty
    /\ \E i \in Idx : meta[f].ids[i] \in Flaky \cup {INVALID_CONTAINER_ID}
    /\ MarkFileAsNeedsRepair(f, meta[f].ver)
    /\ UNCHANGED <<fileLock, meta, stubs, store, pc, file, of, wf, todo, got, batch>>

\* getFilesToRepair removes up to batchSize entries.
RepairPop(t) ==
    /\ pc[t] = "idle"
    /\ \E b \in SUBSET repairQ \ {{}} :
          /\ Cardinality(b) <= batchSize
          /\ batch' = [batch EXCEPT ![t] = b]
          /\ repairQ' = repairQ \ b
    /\ Goto(t, "pLock")
    /\ UNCHANGED <<fileLock, meta, stubs, store, file, of, wf, todo, got>>

\* The next file of the batch; of carries the version to ask for.
RepairLock(t) ==
    /\ pc[t] = "pLock"
    /\ \E e \in batch[t] :
          /\ LockFile(e[1])
          /\ file' = [file EXCEPT ![t] = e[1]]
          /\ of' = [of EXCEPT ![t].ver = e[2]]
          /\ batch' = [batch EXCEPT ![t] = @ \ {e}]
    /\ Goto(t, "pGet")
    /\ UNCHANGED <<meta, stubs, repairQ, store, wf, todo, got>>

\* A file that stays locked through all attempts ends the batch.
RepairBusy(t) ==
    /\ pc[t] = "pLock"
    /\ \E e \in batch[t] : e[1] \in fileLock
    /\ batch' = [batch EXCEPT ![t] = {}]
    /\ Return(t)
    /\ UNCHANGED <<redis, store>>

RepairDone(t) ==
    /\ pc[t] = "pLock" /\ batch[t] = {}
    /\ Return(t)
    /\ UNCHANGED <<redis, store, batch>>

\* Another version than the current one is not found without versioning.
RepairGetMeta(t) ==
    /\ pc[t] = "pGet"
    /\ \E m \in {meta[file[t]], NoFile} :
          /\ GetMeta(file[t], m)
          /\ IF Exists(m) /\ of[t].ver \in {-1, m.ver}
             THEN /\ of' = [of EXCEPT ![t] = m]
                  /\ wf' = [wf EXCEPT ![t] = m]
                  /\ Goto(t, IF m.data = Empty THEN "pUnlock" ELSE "pFix")
             ELSE Goto(t, "pFail") /\ UNCHANGED <<of, wf>>
    /\ UNCHANGED <<redis, store, file, todo, got, batch>>

\* The chunks in containers that are not alive are restored from the first K
\* alive ones, into containers without an alive chunk of the file.  All of the
\* restored chunks must be stored; those that are stay where they are if not.
\* Too few chunks, an input that is missing or too few containers with room
\* end the repair without a change.
RepairOutcome(t, alive) ==
    LET failed == Idx \ alive
        input == KeysOf(file[t], of[t], FirstK(alive))
    IN \/ /\ failed = {}
          /\ Goto(t, "pMeta")
          /\ UNCHANGED <<store, wf>>
       \/ /\ failed # {} /\ alive \in KSets
          /\ \A x \in input : store[x] # Nil
          /\ \E p \in Placements(failed, {of[t].ids[i] : i \in alive}) :
             \E done \in SUBSET failed : \E ack \in Acked(p, failed, done) :
                /\ store' = Updated({<<p[i], file[t], of[t].ver, i>> : i \in done},
                                    Decode({store[x] : x \in input}), {})
                /\ IF ack = failed
                   THEN /\ wf' = [wf EXCEPT ![t].ids = [i \in Idx |-> IF i \in failed THEN p[i] ELSE @[i]]]
                        /\ Goto(t, "pMeta")
                   ELSE Goto(t, "pFail") /\ UNCHANGED wf
       \/ /\ failed # {}
          /\ Goto(t, "pFail")
          /\ UNCHANGED <<store, wf>>

\* checkContainerLiveness, and ChunkManager::repairFile for what it finds.
RepairFix(t) ==
    /\ pc[t] = "pFix"
    /\ \E alive \in Alive(of[t]) : RepairOutcome(t, alive)
    /\ UNCHANGED <<redis, file, of, todo, got, batch>>

RepairPutMeta(t) ==
    /\ pc[t] = "pMeta"
    /\ \E okay \in BOOLEAN :
          /\ PutMeta(file[t], wf[t], okay)
          /\ Goto(t, IF okay THEN "pUnlock" ELSE "pFail")
    /\ UNCHANGED <<fileLock, repairQ, store, file, of, wf, todo, got, batch>>

\* After a failure the rest of the batch is given up.
RepairUnlock(t) ==
    /\ pc[t] \in {"pUnlock", "pFail"}
    /\ fileLock' = fileLock \ {file[t]}
    /\ IF pc[t] = "pFail"
       THEN Return(t) /\ batch' = [batch EXCEPT ![t] = {}]
       ELSE /\ Goto(t, "pLock")
            /\ file' = [file EXCEPT ![t] = Nil]
            /\ of' = [of EXCEPT ![t] = NoFile]
            /\ wf' = [wf EXCEPT ![t] = NoFile]
            /\ UNCHANGED <<todo, got, batch>>
    /\ UNCHANGED <<meta, stubs, repairQ, store>>

-----------------------------------------------------------------------------
(* Proxy::readFile: no lock is taken.                                      *)

\* The metadata is read, and the containers checked for liveness.
ReadGetMeta(t, f) ==
    /\ Exists(meta[f]) /\ meta[f].data # Empty
    /\ Begin(t, f, "gChk")
    /\ of' = [of EXCEPT ![t] = meta[f]]
    /\ \E alive \in Alive(meta[f]) \cap KSets :
          todo' = [todo EXCEPT ![t] = alive]
    /\ UNCHANGED <<redis, store, wf, got, batch>>

\* The GET reply for chunk i: one that fails is replaced by the next chunk, if
\* there is one left.
ReadReply(t, i) ==
    LET d == store[KeyOf(file[t], of[t], i)]
        okay == d # Nil /\ (verifyChunkChecksum => d = of[t].data)
        got2 == got[t] \cup {<<i, d>>}
    IN \/ /\ okay
          /\ got' = [got EXCEPT ![t] = got2]
          /\ todo' = [todo EXCEPT ![t] = @ \ {i}]
          /\ Goto(t, IF Cardinality(got2) = K THEN "gEnd" ELSE "gChk")
          /\ UNCHANGED <<file, of, wf>>
       \/ /\ ~okay \/ of[t].ids[i] \in Flaky
          /\ IF Cardinality(got[t]) + Cardinality(todo[t]) > K
             THEN /\ todo' = [todo EXCEPT ![t] = @ \ {i}]
                  /\ UNCHANGED <<pc, file, of, wf, got>>
             ELSE Return(t)

\* K chunks are requested at a time, in the order of their ids.
ReadChunk(t) ==
    /\ pc[t] = "gChk"
    /\ \E i \in todo[t] :
          /\ Cardinality({j \in todo[t] : j < i}) < K - Cardinality(got[t])
          /\ ReadReply(t, i)
    /\ UNCHANGED <<redis, store, batch>>

ReadEnd(t) ==
    /\ pc[t] = "gEnd"
    /\ UpdateTimestamps(file[t])
    /\ Return(t)
    /\ UNCHANGED <<fileLock, meta, repairQ, store, batch>>

-----------------------------------------------------------------------------
\* The proxy dies and is started again; Redis and the containers stay.
Crash ==
    /\ "crash" \in Faults
    /\ \E t \in Threads : pc[t] # "idle"
    /\ pc' = [t \in Threads |-> "idle"]
    /\ file' = [t \in Threads |-> Nil]
    /\ of' = [t \in Threads |-> NoFile]
    /\ wf' = [t \in Threads |-> NoFile]
    /\ todo' = [t \in Threads |-> {}]
    /\ got' = [t \in Threads |-> {}]
    /\ batch' = [t \in Threads |-> {}]
    /\ UNCHANGED <<redis, store>>

\* A new request, or a new round of the background thread.
Start(t) ==
    \/ /\ t \in Workers
       /\ \E f \in Names :
             \/ "write" \in Ops /\ \E d \in Data \cup {Empty} : WriteLock(t, f, d)
             \/ "delete" \in Ops /\ DeleteLock(t, f)
             \/ "read" \in Ops /\ ReadGetMeta(t, f)
    \/ t \in Repairers /\ RepairPop(t)

\* The next step of an operation that is under way.
Step(t) ==
    \/ WriteGetMeta(t) \/ WriteStripes(t) \/ WriteNoSpace(t)
    \/ WritePutMeta(t) \/ WriteDeleteOld(t)
    \/ DeleteGetMeta(t) \/ DeleteMeta(t) \/ DeleteChunks(t)
    \/ Unlock(t)
    \/ RepairLock(t) \/ RepairBusy(t) \/ RepairDone(t) \/ RepairGetMeta(t)
    \/ RepairFix(t) \/ RepairPutMeta(t) \/ RepairUnlock(t)
    \/ ReadChunk(t) \/ ReadEnd(t)

Next ==
    \/ \E t \in Threads : Start(t) \/ Step(t)
    \/ \E f \in Names : ScanMark(f)
    \/ Crash

Spec == Init /\ [][Next]_vars

-----------------------------------------------------------------------------
(* Properties.                                                             *)

Locked == {"wGet", "wPut", "wMeta", "wDel", "dGet", "dMeta", "dDel", "unlock",
           "pGet", "pFix", "pMeta", "pUnlock", "pFail"}
Labels == Locked \cup {"idle", "pLock", "gChk", "gEnd"}
Holds(t, f) == file[t] = f /\ pc[t] \in Locked

\* What a stored file decodes to; Nil if there is no such file.
Present(f) == {i \in Stored(meta[f]) : store[KeyOf(f, meta[f], i)] # Nil}
Content(f) ==
    IF ~Exists(meta[f]) THEN Nil
    ELSE IF meta[f].data = Empty THEN Empty
    ELSE IF Present(f) \in KSets
         THEN Decode({store[KeyOf(f, meta[f], i)] : i \in Present(f)})
         ELSE Garbage

\* The stored chunks and metadata are a file service: what a file decodes to
\* changes in one step, from one written payload to the next, through all the
\* partial writes, failed cleanups, repairs and crashes in between.
Service == INSTANCE FileService WITH content <- [f \in Names |-> Content(f)]
ServiceSpec == Service!Spec

\* Every variable keeps its type, and a thread its place in its operation.
TypeOK ==
    /\ fileLock \subseteq Names /\ stubs \subseteq Names
    /\ meta \in [Names -> Meta \cup {NoFile}]
    /\ repairQ \subseteq Names \X (Versions \cup {-1})
    /\ store \in [Keys -> Data \cup {Garbage, Nil}]
    /\ pc \in [Threads -> Labels]
    /\ file \in [Threads -> Names \cup {Nil}]
    /\ of \in [Threads -> File] /\ wf \in [Threads -> File]
    /\ todo \in [Threads -> SUBSET Idx]
    /\ got \in [Threads -> SUBSET (Idx \X (Data \cup {Garbage, Nil}))]
    /\ batch \in [Threads -> SUBSET (Names \X (Versions \cup {-1}))]

\* The Redis lock excludes: two threads are never inside the locked part of an
\* operation on the same file, and the file of such a thread is locked.
Exclusive ==
    \A t \in Threads : pc[t] \in Locked =>
        /\ file[t] \in fileLock
        /\ \A u \in Threads \ {t} : ~Holds(u, file[t])

\* Every way out of an operation releases its lock: as long as no proxy dies, a
\* locked file has a thread that is going to unlock it.
NoLeakedLock == \A f \in fileLock : \E t \in Threads : Holds(t, f)

\* Whatever fails and whenever the proxy dies, the metadata never names a chunk
\* that is not there or holds something else, nor too few chunks to decode.
Durable ==
    \A f \in Names : Exists(meta[f]) /\ meta[f].data # Empty =>
        /\ Stored(meta[f]) \in KSets
        /\ \A i \in Stored(meta[f]) : store[KeyOf(f, meta[f], i)] = meta[f].data

\* A read that runs beside writes, deletes and repairs without a lock never
\* decodes chunks of another payload than the one its metadata stands for.
ReadsConsistent ==
    \A t \in Threads : \A g \in got[t] : g[2] = of[t].data

\* When no operation runs, the containers hold nothing but the chunks that the
\* metadata of a file names: as long as nothing fails, writes, deletes and repairs
\* clean up what they replace.
NoOrphans ==
    (\A t \in Threads : pc[t] = "idle") =>
        \A x \in Keys : store[x] # Nil =>
            \E i \in Stored(meta[x[2]]) : x = KeyOf(x[2], meta[x[2]], i)

\* No update is lost: the version of a file that stays in existence never goes
\* back, and its payload changes only together with the next version, however
\* writes and repairs that read the metadata earlier interleave.
VersionsGrow ==
    [][\A f \in Names : Exists(meta[f]) /\ Exists(meta'[f]) =>
          \/ meta'[f].ver = meta[f].ver /\ meta'[f].data = meta[f].data
          \/ meta'[f].ver = meta[f].ver + 1]_vars

\* Every operation comes to its end, in particular every lock is released.
OperationsEnd == \A t \in Threads : pc[t] # "idle" ~> pc[t] = "idle"

=============================================================================
