--------------------------- MODULE BackgroundProofs ---------------------------
(***************************************************************************)
(* Proof of ReplacedRemoved, for any names, stripes, workers and versions  *)
(* and any number of deletions, restarts and calls that fail.              *)
(*                                                                         *)
(* FilesInv is about metadata, locks and the threads that hold them,       *)
(* TasksInv about tasks and workers, and Guarded says who is going to      *)
(* remove the chunk of a version that was replaced.  StrayInv says that    *)
(* what the metadata does not name is of the write under way or a stray.   *)
(***************************************************************************)
EXTENDS Background, FiniteSetTheorems, TLAPS

WriterLabels == {"idle", "stripe", "status", "putMeta", "deleteOld", "unlock"}
WorkerLabels == {"wait", "check", "join", "checkAgain", "revert", "mark", "done", "status", "free"}
CheckerLabels == {"idle", "exists", "lock", "get", "chunks", "unlock", "reset"}
Idling == {"none", "freed"}
TaskStates == Idling \cup {"todo", "sent", "ok", "failed", "part"}

Metas == [ver : -1 .. MaxVersion, numStripes : 0 .. NumStripes, named : SUBSET Stripes]
Writers == [pc : WriterLabels, ver : 0 .. MaxVersion, s : Stripes, n : 0 .. NumStripes, old : Metas]
Writing == {"stripe", "status", "putMeta"}

\* The writer of f holds its lock, and so knows the metadata it replaces, unless it
\* could not read it.
WriterOK(f) ==
    writer[f].pc # "idle" =>
        /\ f \in lock /\ writer[f].ver = writer[f].old.ver + 1
        /\ writer[f].pc \in Writing =>
              meta[f] = writer[f].old \/ (writer[f].old = NoMeta /\ \A k \in Keys : k[1] = f => k \in stray)
        /\ writer[f].pc = "deleteOld" => meta[f].ver = writer[f].ver
        /\ writer[f].pc \in {"stripe", "status"} => writer[f].s <= writer[f].n

FilesInv ==
    /\ meta \in [Names -> Metas] /\ lock \subseteq Names
    /\ writer \in [Names -> Writers]
    /\ checker \in [pc : CheckerLabels, f : Names, ver : -1 .. MaxVersion]
    /\ checker.pc \in {"get", "chunks", "unlock"} => checker.f \in lock /\ writer[checker.f].pc = "idle"
    /\ \A f \in Names : WriterOK(f) /\ (meta[f].ver = -1 => meta[f] = NoMeta)

\* The state of a task, by the place of its worker.
Fits(l, st) ==
    /\ l = "check" => st = "todo"
    /\ l = "join" => st \in {"sent", "ok", "failed"}
    /\ l \in {"checkAgain", "revert", "mark"} => st \in {"ok", "failed"}
    /\ l = "done" => st \in {"todo", "ok", "failed"}
    /\ l \in {"status", "free"} => st = "part"

Busy(w) == worker[w].pc # "wait"

\* The tasks of a file that are queued or worked on.
Active(f) == {k \in Keys : k[1] = f /\ task[k] \notin Idling}

TasksTyped ==
    /\ queue \in Seq(Keys) /\ task \in [Keys -> TaskStates] /\ fileTaskCount \in [Names -> Int]
    /\ worker \in [Workers -> [pc : WorkerLabels, key : Keys \cup {NoTask}]]

\* A task is in the queue once, or with one worker.
QueueOK ==
    /\ \A i \in 1 .. Len(queue) : task[queue[i]] = "todo"
    /\ \A i, j \in 1 .. Len(queue) : queue[i] = queue[j] => i = j
WorkerOK(w) ==
    Busy(w) =>
        /\ worker[w].key \in Keys /\ Fits(worker[w].pc, task[worker[w].key])
        /\ \A i \in 1 .. Len(queue) : queue[i] # worker[w].key
        /\ \A u \in Workers \ {w} : Busy(u) => worker[u].key # worker[w].key

\* A request that an agent may execute has a worker that waits for it.
SentOK(k) == task[k] = "sent" => \E w \in Workers : worker[w] = [pc |-> "join", key |-> k]

CountOK(f) == IsFiniteSet(Active(f)) /\ fileTaskCount[f] = Cardinality(Active(f))

TasksInv ==
    /\ TasksTyped /\ QueueOK
    /\ \A w \in Workers : WorkerOK(w)
    /\ \A k \in Keys : SentOK(k)
    /\ \A f \in Names : CountOK(f)

\* The chunk of a replaced version is going to be removed by the write that
\* replaced it, or by the worker that wrote it.
ByWriter(k) ==
    LET w == writer[k[1]] IN w.pc = "deleteOld" /\ k[2] = w.old.ver /\ k[3] \in w.old.named
ByWorker(k) == \E w \in Workers : worker[w].key = k /\ worker[w].pc \in {"join", "checkAgain", "revert"}
Guarded(k) == k \in stray \/ ByWriter(k) \/ ByWorker(k)

ChunksInv == chunk \subseteq Keys /\ \A k \in chunk : k[2] < meta[k[1]].ver => Guarded(k)

\* A chunk that is there or has a task, and that the metadata does not name, is one
\* of the write under way, or a stray.
Taken(k) == k \in chunk \/ task[k] \notin Idling
Unnamed(k) == meta[k[1]].ver < k[2] \/ (meta[k[1]].ver = k[2] /\ k[3] \notin meta[k[1]].named)
Tasked(w) == IF w.pc = "putMeta" THEN w.n ELSE IF w.pc = "status" THEN w.s ELSE w.s - 1
Own(k) ==
    LET w == writer[k[1]] IN w.pc \in Writing /\ k[2] = w.ver /\ k[3] <= Tasked(w)

StrayInv == \A k \in Keys : Taken(k) /\ Unnamed(k) => k \in stray \/ Own(k)

BInv == writeRedundancyInBackground => FilesInv /\ TasksInv /\ ChunksInv /\ StrayInv

-----------------------------------------------------------------------------
(* FilesInv.                                                               *)

\* Steps of other threads.
LEMMA FilesFrame ==
  ASSUME FilesInv, UNCHANGED <<meta, lock, writer, checker>>, stray \subseteq stray'
  PROVE  FilesInv'
  BY Zenon DEF FilesInv, WriterOK

\* A write keeps its lock and goes on to x.
LEMMA WriterMoves ==
  ASSUME FilesInv, NEW f \in Names, NEW x \in Writers, UNCHANGED <<meta, lock, checker>>, stray \subseteq stray',
         writer[f].pc # "idle", x.ver = writer[f].ver, x.old = writer[f].old, x.pc # "idle",
         x.pc \in Writing => writer[f].pc \in Writing,
         x.pc = "deleteOld" => writer[f].pc = "deleteOld",
         x.pc \in {"stripe", "status"} => x.s <= x.n,
         writer' = [writer EXCEPT ![f] = x]
  PROVE  FilesInv'
  <1>1. writer' \in [Names -> Writers] /\ writer'[f] = x /\ \A g \in Names \ {f} : writer'[g] = writer[g]
    BY Zenon DEF FilesInv
  <1>2. WriterOK(f)'
    BY <1>1, Zenon DEF FilesInv, WriterOK
  <1>3. \A g \in Names \ {f} : WriterOK(g)'
    BY <1>1, Zenon DEF FilesInv, WriterOK
  <1>4. checker'.pc \in {"get", "chunks", "unlock"} => checker'.f \in lock' /\ writer'[checker'.f].pc = "idle"
    BY <1>1, Zenon DEF FilesInv
  <1> QED BY <1>1, <1>2, <1>3, <1>4, Zenon DEF FilesInv

\* Lock, meta, writer and strays of f change together.
LEMMA FileChanges ==
  ASSUME FilesInv, NEW f \in Names, NEW m \in Metas, NEW x \in Writers,
         meta' = [meta EXCEPT ![f] = m], writer' = [writer EXCEPT ![f] = x],
         lock' \subseteq Names, lock' \ {f} = lock \ {f}, UNCHANGED checker,
         \A k \in stray : k[1] # f => k \in stray',
         checker.pc \in {"get", "chunks", "unlock"} => checker.f # f,
         WriterOK(f)', m.ver = -1 => m = NoMeta
  PROVE  FilesInv'
  <1>1. /\ meta' \in [Names -> Metas] /\ writer' \in [Names -> Writers] /\ meta'[f] = m
        /\ \A g \in Names \ {f} : meta'[g] = meta[g] /\ writer'[g] = writer[g] /\ (g \in lock' <=> g \in lock)
    BY Zenon DEF FilesInv
  <1>2. ASSUME NEW g \in Names \ {f} PROVE WriterOK(g)' /\ (meta'[g].ver = -1 => meta'[g] = NoMeta)
    <2>1. WriterOK(g) /\ (meta[g].ver = -1 => meta[g] = NoMeta)
      BY Zenon DEF FilesInv
    <2>2. (\A k \in Keys : k[1] = g => k \in stray) => \A k \in Keys : k[1] = g => k \in stray'
      BY Zenon
    <2> QED BY <1>1, <2>1, <2>2, ZenonT(30) DEF WriterOK
  <1>3. checker'.pc \in {"get", "chunks", "unlock"} => checker'.f \in lock' /\ writer'[checker'.f].pc = "idle"
    BY <1>1, Zenon DEF FilesInv
  <1> QED BY <1>1, <1>2, <1>3, Zenon DEF FilesInv

\* The task check goes on, with its lock where it needs it.
LEMMA CheckerMoves ==
  ASSUME FilesInv, NEW l \in CheckerLabels, NEW f \in Names, NEW v \in -1 .. MaxVersion,
         checker' = [pc |-> l, f |-> f, ver |-> v], UNCHANGED <<meta, lock, writer>>, stray \subseteq stray',
         l \in {"get", "chunks", "unlock"} => f \in lock /\ writer[f].pc = "idle"
  PROVE  FilesInv'
  <1>1. /\ checker' \in [pc : CheckerLabels, f : Names, ver : -1 .. MaxVersion]
        /\ checker'.pc = l /\ checker'.f = f
    BY Zenon
  <1>2. \A g \in Names : WriterOK(g)' /\ (meta'[g].ver = -1 => meta'[g] = NoMeta)
    BY Zenon DEF FilesInv, WriterOK
  <1> QED BY <1>1, <1>2, Zenon DEF FilesInv

\* The metadata of a file that does not exist.
LEMMA NoMetaType == NoMeta \in Metas /\ NoMeta.ver = -1 /\ NoMeta.named = {}
  BY BackgroundAssumption DEF NoMeta, Metas

\* No write under way.
LEMMA IdleWriterType == IdleWriter \in Writers /\ IdleWriter.pc = "idle"
  BY BackgroundAssumption, NoMetaType DEF IdleWriter, Writers, WriterLabels, Stripes

\* What a write stores as metadata.
LEMMA PutMetaType ==
  ASSUME NEW w \in Writers, NEW m, m = [ver |-> w.ver, numStripes |-> w.n, named |-> 1 .. w.n]
  PROVE  m \in Metas /\ m.ver = w.ver /\ m.named = 1 .. w.n /\ m.ver # -1
  BY BackgroundAssumption DEF Writers, Metas, Stripes

\* The chunks of a write are of its file, and of its version.
LEMMA WrittenOf == ASSUME NEW f, NEW n PROVE \A k \in Written(f, n) : k[1] = f /\ k[2] = writer[f].ver /\ k[3] \in 1 .. n
  BY DEF Written, KeysOf

\* A write begins.
LEMMA WriteLockFiles ==
  ASSUME FilesInv, NEW f \in Names, WriteLock(f)
  PROVE  FilesInv'
  <1>1. writer[f] \in Writers /\ meta[f] \in Metas /\ (meta[f].ver = -1 => meta[f] = NoMeta)
    BY Zenon DEF FilesInv
  <1>2. PICK n \in 0 .. NumStripes, seen \in {meta[f], NoMeta} :
          /\ seen.ver < MaxVersion
          /\ writer' = [writer EXCEPT ![f] = [pc |-> IF n = 0 THEN "putMeta" ELSE "stripe", ver |-> seen.ver + 1,
                                              s |-> 1, n |-> n, old |-> seen]]
          /\ IF seen = meta[f] THEN UNCHANGED <<stray, events>>
             ELSE Event /\ stray' = stray \cup {k \in Keys : k[1] = f}
    BY Zenon DEF WriteLock
  <1> DEFINE x == [pc |-> IF n = 0 THEN "putMeta" ELSE "stripe", ver |-> seen.ver + 1, s |-> 1, n |-> n, old |-> seen]
  <1>3. seen \in Metas /\ seen.ver + 1 \in 0 .. MaxVersion /\ 1 \in Stripes
    BY <1>1, <1>2, NoMetaType, BackgroundAssumption DEF Metas, Stripes
  <1>4. x \in Writers /\ x.pc \in {"putMeta", "stripe"} /\ x.ver = x.old.ver + 1 /\ x.old = seen
    BY <1>3, Zenon DEF Writers, WriterLabels
  <1>11. x.pc = "stripe" => x.s <= x.n
    BY <1>2
  <1>5. writer' = [writer EXCEPT ![f] = x] /\ writer'[f] = x
    BY <1>2, Zenon DEF FilesInv
  <1>6. meta' = [meta EXCEPT ![f] = meta[f]] /\ meta'[f] = meta[f] /\ f \in lock'
    BY Zenon DEF WriteLock, FilesInv
  <1>7. meta[f] = seen \/ (seen = NoMeta /\ \A k \in Keys : k[1] = f => k \in stray')
    BY <1>2, Zenon
  <1> HIDE DEF x
  <1>8. WriterOK(f)'
    BY <1>4, <1>5, <1>6, <1>7, <1>11, Zenon DEF WriterOK
  <1>9. /\ lock' \subseteq Names /\ lock' \ {f} = lock \ {f} /\ UNCHANGED checker
        /\ checker.pc \in {"get", "chunks", "unlock"} => checker.f # f
    BY Zenon DEF WriteLock, FilesInv
  <1>10. stray \subseteq stray'
    BY <1>2, Zenon
  <1> QED BY <1>1, <1>4, <1>5, <1>6, <1>8, <1>9, <1>10, FileChanges, Zenon

\* The metadata of f is replaced.
LEMMA PutMetaFiles ==
  ASSUME FilesInv, NEW f \in Names, NEW l \in {"deleteOld", "unlock"}, writer[f].pc = "putMeta", Goto(f, l),
         meta' = [meta EXCEPT ![f] = [ver |-> writer[f].ver, numStripes |-> writer[f].n, named |-> 1 .. writer[f].n]],
         stray \ Written(f, writer[f].n) \subseteq stray', UNCHANGED <<lock, checker>>
  PROVE  FilesInv'
  <1> DEFINE x == [writer[f] EXCEPT !.pc = l]
             m == [ver |-> writer[f].ver, numStripes |-> writer[f].n, named |-> 1 .. writer[f].n]
  <1>1. writer[f] \in Writers /\ WriterOK(f)
    BY Zenon DEF FilesInv
  <1>2. x \in Writers /\ x.pc = l /\ x.ver = writer[f].ver /\ x.old = writer[f].old
    BY <1>1, Zenon DEF Writers, WriterLabels
  <1>3. m \in Metas /\ m.ver = writer[f].ver /\ m.ver # -1
    BY <1>1, PutMetaType
  <1>4. writer' = [writer EXCEPT ![f] = x] /\ writer'[f] = x /\ meta' = [meta EXCEPT ![f] = m] /\ meta'[f] = m
    BY Zenon DEF Goto, FilesInv
  <1> HIDE DEF x, m
  <1>5. WriterOK(f)'
    BY <1>1, <1>2, <1>3, <1>4, Zenon DEF WriterOK, Writing
  <1>6. checker.pc \in {"get", "chunks", "unlock"} => checker.f # f
    BY Zenon DEF FilesInv
  <1>7. \A k \in stray : k[1] # f => k \in stray'
    <2>1. \A k \in Written(f, writer[f].n) : k[1] = f /\ k[2] = writer[f].ver
      BY WrittenOf
    <2>2. \A k \in stray : k \in stray' \/ k \in Written(f, writer[f].n)
      BY Zenon
    <2> QED BY <2>1, <2>2, Zenon
  <1> QED BY <1>2, <1>3, <1>4, <1>5, <1>6, <1>7, FileChanges, Zenon DEF FilesInv

\* What a write does to lock and metadata of its file.
LEMMA WriteFiles ==
  ASSUME FilesInv, NEW f \in Names, WriteLock(f) \/ Write(f) \/ DeleteFile(f)
  PROVE  FilesInv'
  <1> USE BackgroundAssumption
  <1>1. writer[f] \in Writers /\ meta[f] \in Metas /\ WriterOK(f)
    BY Zenon DEF FilesInv
  <1>2. ASSUME NEW l \in WriterLabels, Goto(f, l)
        PROVE  \E x \in Writers : /\ x.pc = l /\ x.ver = writer[f].ver /\ x.old = writer[f].old
                                  /\ x.s = writer[f].s /\ x.n = writer[f].n
                                  /\ writer' = [writer EXCEPT ![f] = x]
    <2> DEFINE x == [writer[f] EXCEPT !.pc = l]
    <2>1. /\ x \in Writers /\ x.pc = l /\ x.ver = writer[f].ver /\ x.old = writer[f].old
          /\ x.s = writer[f].s /\ x.n = writer[f].n
      BY <1>1, Zenon DEF Writers
    <2>2. writer' = [writer EXCEPT ![f] = x]
      BY <1>2, Zenon DEF Goto, FilesInv
    <2> HIDE DEF x
    <2> QED BY <2>1, <2>2, Zenon
  <1>3. CASE addChunkTask(f)
    <2>1. Goto(f, "status") /\ "status" \in WriterLabels
      BY <1>3, Zenon DEF addChunkTask, WriterLabels
    <2>2. PICK x \in Writers : /\ x.pc = "status" /\ x.ver = writer[f].ver /\ x.old = writer[f].old
                               /\ x.s = writer[f].s /\ x.n = writer[f].n
                               /\ writer' = [writer EXCEPT ![f] = x]
      BY <1>2, <2>1, Zenon
    <2>3. writer[f].pc = "stripe" /\ writer[f].s <= writer[f].n /\ UNCHANGED <<meta, lock, checker>> /\ stray \subseteq stray'
      BY <1>1, <1>3, Zenon DEF addChunkTask, redis, history, WriterOK
    <2> QED BY <2>2, <2>3, WriterMoves, Zenon DEF Writing
  <1>4. CASE AddStatus(f)
    <2> DEFINE x == IF writer[f].s = writer[f].n THEN [writer[f] EXCEPT !.pc = "putMeta"]
                    ELSE [writer[f] EXCEPT !.pc = "stripe", !.s = @ + 1]
    <2>0. writer[f].s \in Stripes /\ writer[f].n \in 0 .. NumStripes /\ writer[f].s <= writer[f].n
      BY <1>1, <1>4, Zenon DEF AddStatus, Writers, WriterOK
    <2>1. writer[f].s # writer[f].n => writer[f].s + 1 \in Stripes /\ writer[f].s + 1 <= writer[f].n
      BY <2>0 DEF Stripes
    <2>2. /\ x \in Writers /\ x.pc \in {"stripe", "putMeta"}
          /\ x.ver = writer[f].ver /\ x.old = writer[f].old
          /\ x.pc = "stripe" => x.s <= x.n
      BY <1>1, <2>1, Zenon DEF Writers, WriterLabels
    <2>3. writer' = [writer EXCEPT ![f] = x]
      BY <1>4, Zenon DEF AddStatus, Goto, FilesInv
    <2> HIDE DEF x
    <2> QED BY <1>4, <2>2, <2>3, WriterMoves, Zenon DEF AddStatus, Writing
  <1>5. CASE WriteFails(f)
    <2>1. /\ Goto(f, "unlock") /\ "unlock" \in WriterLabels /\ writer[f].pc # "idle"
          /\ UNCHANGED <<meta, lock, checker>> /\ stray \subseteq stray'
      BY <1>5, Zenon DEF WriteFails, WriterLabels, redis
    <2>2. PICK x \in Writers : /\ x.pc = "unlock" /\ x.ver = writer[f].ver /\ x.old = writer[f].old
                               /\ writer' = [writer EXCEPT ![f] = x]
      BY <1>2, <2>1, Zenon
    <2> QED BY <2>1, <2>2, WriterMoves, Zenon DEF Writing
  <1>6. CASE WritePutMeta(f)
    BY <1>6, PutMetaFiles, Zenon DEF WritePutMeta
  <1>7. CASE WritePutMetaFails(f)
    <2>0. writer[f].pc = "putMeta" /\ Goto(f, "unlock") /\ "unlock" \in WriterLabels /\ UNCHANGED <<lock, checker>>
      BY <1>7, Zenon DEF WritePutMetaFails, WriterLabels
    <2>1. CASE UNCHANGED meta /\ stray \subseteq stray'
      <3>1. PICK x \in Writers : /\ x.pc = "unlock" /\ x.ver = writer[f].ver /\ x.old = writer[f].old
                                 /\ writer' = [writer EXCEPT ![f] = x]
        BY <1>2, <2>0, Zenon
      <3> QED BY <2>0, <2>1, <3>1, WriterMoves, Zenon DEF Writing
    <2>2. CASE /\ meta' = [meta EXCEPT ![f] = [ver |-> writer[f].ver, numStripes |-> writer[f].n, named |-> 1 .. writer[f].n]]
               /\ stray \ Written(f, writer[f].n) \subseteq stray'
      BY <2>0, <2>2, PutMetaFiles, Zenon
    <2> QED BY <1>7, <2>1, <2>2, Zenon DEF WritePutMetaFails
  <1>8. CASE WriteDeleteOld(f)
    <2>1. /\ Goto(f, "unlock") /\ "unlock" \in WriterLabels /\ writer[f].pc # "idle"
          /\ UNCHANGED <<meta, lock, checker>> /\ stray \subseteq stray'
      BY <1>8, Zenon DEF WriteDeleteOld, WriterLabels, redis
    <2>2. PICK x \in Writers : /\ x.pc = "unlock" /\ x.ver = writer[f].ver /\ x.old = writer[f].old
                               /\ writer' = [writer EXCEPT ![f] = x]
      BY <1>2, <2>1, Zenon
    <2> QED BY <2>1, <2>2, WriterMoves, Zenon DEF Writing
  <1>9. CASE WriteUnlock(f)
    <2>1. /\ writer' = [writer EXCEPT ![f] = IdleWriter] /\ writer'[f] = IdleWriter
          /\ meta' = [meta EXCEPT ![f] = meta[f]] /\ meta'[f] = meta[f]
      BY <1>9, Zenon DEF WriteUnlock, FilesInv
    <2>2. WriterOK(f)'
      BY <2>1, IdleWriterType, Zenon DEF WriterOK
    <2>3. checker.pc \in {"get", "chunks", "unlock"} => checker.f # f
      BY <1>9, Zenon DEF WriteUnlock, FilesInv
    <2>4. lock' \subseteq Names /\ lock' \ {f} = lock \ {f} /\ UNCHANGED <<checker, stray>>
      BY <1>9, Zenon DEF WriteUnlock, FilesInv, history
    <2>5. meta[f].ver = -1 => meta[f] = NoMeta
      BY Zenon DEF FilesInv
    <2> QED BY <1>1, <2>1, <2>2, <2>3, <2>4, <2>5, IdleWriterType, FileChanges, Zenon
  <1>10. CASE DeleteFile(f)
    <2>1. /\ writer' = [writer EXCEPT ![f] = writer[f]] /\ writer'[f] = writer[f]
          /\ meta' = [meta EXCEPT ![f] = NoMeta] /\ meta'[f] = NoMeta
      BY <1>10, Zenon DEF DeleteFile, FilesInv
    <2>2. WriterOK(f)'
      BY <1>1, <1>10, <2>1, Zenon DEF DeleteFile, WriterOK
    <2>3. checker.pc \in {"get", "chunks", "unlock"} => checker.f # f
      BY <1>10, Zenon DEF DeleteFile, FilesInv
    <2>4. lock' \subseteq Names /\ lock' \ {f} = lock \ {f} /\ UNCHANGED checker /\ stray \subseteq stray'
      BY <1>10, Zenon DEF DeleteFile, FilesInv
    <2> QED BY <1>1, <2>1, <2>2, <2>3, <2>4, NoMetaType, FileChanges, Zenon
  <1> QED BY <1>3, <1>4, <1>5, <1>6, <1>7, <1>8, <1>9, <1>10, WriteLockFiles, Zenon DEF Write

\* What the task check does, under the lock of the file it looks at.
LEMMA CheckFiles ==
  ASSUME FilesInv, TaskCheck
  PROVE  FilesInv'
  <1> USE BackgroundAssumption
  <1>1. /\ checker.f \in Names /\ checker.ver \in -1 .. MaxVersion /\ -1 \in -1 .. MaxVersion
        /\ checker \in [pc : CheckerLabels, f : Names, ver : -1 .. MaxVersion]
    BY DEF FilesInv
  <1>2. \A l : CheckerGoto(l) => checker' = [pc |-> l, f |-> checker.f, ver |-> checker.ver]
    BY <1>1, Zenon DEF CheckerGoto
  <1>3. CheckerBreak => checker' = [pc |-> "idle", f |-> checker.f, ver |-> -1]
    BY <1>1, Zenon DEF CheckerBreak
  <1>4. ASSUME CheckerBreak, UNCHANGED <<meta, lock, writer, stray>> PROVE FilesInv'
    BY <1>1, <1>3, <1>4, CheckerMoves, Zenon DEF CheckerLabels
  <1>14. ASSUME NEW l \in {"lock", "reset", "idle"}, CheckerGoto(l), UNCHANGED <<meta, lock, writer, stray>> PROVE FilesInv'
    <2>1. l \in CheckerLabels /\ l \notin {"get", "chunks", "unlock"} /\ stray \subseteq stray'
      BY <1>14, Zenon DEF CheckerLabels
    <2>2. checker' = [pc |-> l, f |-> checker.f, ver |-> checker.ver]
      BY <1>2, <1>14, Zenon
    <2> QED BY <1>1, <1>14, <2>1, <2>2, CheckerMoves, Zenon
  <1>5. CASE NextFile
    <2>1. PICK f \in Names : checker' = [pc |-> "exists", f |-> f, ver |-> checker.ver]
      BY <1>1, <1>5, Zenon DEF NextFile
    <2> QED BY <1>1, <1>5, <2>1, CheckerMoves, Zenon DEF NextFile, CheckerLabels, redis, history
  <1>6. CASE NoNextFile
    BY <1>4, <1>6, Zenon DEF NoNextFile, redis
  <1>7. CASE TaskExists
    <2>1. CheckerBreak \/ CheckerGoto("lock")
      BY <1>7, Zenon DEF TaskExists
    <2> QED BY <1>4, <1>7, <1>14, <2>1, Zenon DEF TaskExists, redis, history
  <1>8. CASE CheckLock
    <2>1. CASE checker.f \in lock
      BY <1>4, <1>8, <2>1, Zenon DEF CheckLock, history
    <2>2. CASE checker.f \notin lock
      <3>1. checker' = [pc |-> "get", f |-> checker.f, ver |-> checker.ver] /\ lock' = lock \cup {checker.f}
        BY <1>2, <1>8, <2>2, Zenon DEF CheckLock
      <3>2. writer[checker.f].pc = "idle"
        BY <1>1, <2>2, Zenon DEF FilesInv, WriterOK
      <3>3. \A g \in Names : WriterOK(g)' /\ (meta'[g].ver = -1 => meta'[g] = NoMeta)
        BY <1>8, <3>1, Zenon DEF CheckLock, FilesInv, WriterOK, history
      <3>4. /\ checker' \in [pc : CheckerLabels, f : Names, ver : -1 .. MaxVersion]
            /\ checker'.f = checker.f
        BY <1>1, <3>1, Zenon DEF CheckerLabels
      <3> QED BY <1>1, <1>8, <3>1, <3>2, <3>3, <3>4, Zenon DEF CheckLock, FilesInv
    <2> QED BY <2>1, <2>2, Zenon
  <1>9. CASE CheckGetMeta
    <2>1. PICK l \in {"chunks", "reset"} : checker' = [pc |-> l, f |-> checker.f, ver |-> meta[checker.f].ver]
      BY <1>1, <1>9, Zenon DEF CheckGetMeta
    <2>2. checker.f \in lock /\ writer[checker.f].pc = "idle" /\ meta[checker.f].ver \in -1 .. MaxVersion
      BY <1>1, <1>9, Zenon DEF CheckGetMeta, FilesInv, Metas
    <2> QED BY <1>1, <1>9, <2>1, <2>2, CheckerMoves, Zenon DEF CheckGetMeta, CheckerLabels, redis, history
  <1>10. CASE CheckGetMetaFails
    BY <1>10, <1>14, Zenon DEF CheckGetMetaFails, redis
  <1>11. CASE CheckChunks
    <2> DEFINE f == checker.f
    <2>1. PICK bad \in SUBSET meta[f].named, done \in BOOLEAN :
            /\ meta' = IF done THEN updateChunks(f, meta[f].ver, bad) ELSE meta
            /\ stray \subseteq stray'
      BY <1>11, Zenon DEF CheckChunks
    <2>2. /\ checker' = [pc |-> "unlock", f |-> f, ver |-> checker.ver] /\ f \in lock /\ writer[f].pc = "idle"
          /\ UNCHANGED <<lock, writer>>
      BY <1>2, <1>11, Zenon DEF CheckChunks, FilesInv
    <2>3. meta[f] \in Metas
      BY <1>1, Zenon DEF FilesInv
    <2>4. /\ meta' \in [Names -> Metas] /\ \A g \in Names \ {f} : meta'[g] = meta[g]
          /\ meta'[f] = meta[f] \/ (meta'[f].ver = meta[f].ver /\ meta[f] # NoMeta)
      BY <1>1, <2>1, <2>3, Zenon DEF updateChunks, FilesInv, Metas
    <2>5. \A g \in Names : meta'[g].ver = -1 => meta'[g] = NoMeta
      BY <2>4, Zenon DEF FilesInv
    <2>6. \A g \in Names : WriterOK(g)'
      BY <2>1, <2>2, <2>4, ZenonT(30) DEF WriterOK, FilesInv
    <2>7. checker' \in [pc : CheckerLabels, f : Names, ver : -1 .. MaxVersion] /\ checker'.f = checker.f
      BY <1>1, <2>2, Zenon DEF CheckerLabels
    <2> QED BY <2>2, <2>4, <2>5, <2>6, <2>7, Zenon DEF FilesInv
  <1>12. CASE CheckUnlock
    <2>1. /\ lock' = lock \ {checker.f} /\ checker' = [pc |-> "reset", f |-> checker.f, ver |-> checker.ver]
          /\ writer[checker.f].pc = "idle"
      BY <1>2, <1>12, Zenon DEF CheckUnlock, FilesInv
    <2>2. \A g \in Names : WriterOK(g)' /\ (meta'[g].ver = -1 => meta'[g] = NoMeta)
      BY <1>12, <2>1, Zenon DEF CheckUnlock, FilesInv, WriterOK, history
    <2>3. checker' \in [pc : CheckerLabels, f : Names, ver : -1 .. MaxVersion] /\ checker'.pc = "reset"
      BY <1>1, <2>1, Zenon DEF CheckerLabels
    <2> QED BY <1>12, <2>1, <2>2, <2>3, Zenon DEF CheckUnlock, FilesInv
  <1>13. CASE ResetPending
    BY <1>13, <1>14, Zenon DEF ResetPending
  <1> QED BY <1>5, <1>6, <1>7, <1>8, <1>9, <1>10, <1>11, <1>12, <1>13, Zenon DEF TaskCheck

\* The worker's File has no version, so it never updates the metadata.
LEMMA MarkChangesNothing ==
  ASSUME FilesInv, NEW w \in Workers, MarkFailed(w), worker[w].key \in Keys
  PROVE  meta' = meta
  <1>1. worker[w].key[1] \in Names
    BY Zenon DEF Keys
  <1>2. ~(meta[worker[w].key[1]] # NoMeta /\ meta[worker[w].key[1]].ver = -1)
    BY <1>1, Zenon DEF FilesInv
  <1> QED BY <1>2, Zenon DEF MarkFailed, updateChunks

\* Every step keeps FilesInv.
LEMMA FilesNext ==
  ASSUME FilesInv, TasksInv, Step
  PROVE  FilesInv'
  <1>1. CASE \E f \in Names : WriteLock(f) \/ Write(f) \/ DeleteFile(f)
    BY <1>1, WriteFiles, Zenon
  <1>2. CASE \E k \in Keys : PutChunk(k) \/ PutChunkFails(k)
    BY <1>2, FilesFrame, Zenon DEF PutChunk, PutChunkFails, redis, history
  <1>3. ASSUME NEW w \in Workers, RunWorker(w) PROVE FilesInv'
    <2>1. CASE MarkFailed(w)
      <3>1. worker[w].key \in Keys
        BY <2>1, Zenon DEF MarkFailed, TasksInv, WorkerOK, Busy
      <3> QED BY <2>1, <3>1, MarkChangesNothing, FilesFrame, Zenon DEF MarkFailed, history
    <2>2. CASE PartStatus(w)
      BY <2>2, FilesFrame, Zenon DEF PartStatus
    <2>3. CASE ~MarkFailed(w) /\ ~PartStatus(w)
      BY <1>3, <2>3, FilesFrame, Zenon
         DEF RunWorker, Take, CheckBefore, Join, CheckAfter, RevertTask, SetStatus, Free, redis, history
    <2> QED BY <2>1, <2>2, <2>3, Zenon
  <1>4. CASE Restart
    <2>1. checker' = [pc |-> "idle", f |-> checker.f, ver |-> -1] /\ checker.f \in Names
      BY <1>4, Zenon DEF Restart, CheckerBreak, FilesInv
    <2>2. -1 \in -1 .. MaxVersion
      BY BackgroundAssumption
    <2> QED BY <1>4, <2>1, <2>2, CheckerMoves, Zenon DEF Restart, redis, CheckerLabels
  <1> QED BY <1>1, <1>2, <1>3, <1>4, CheckFiles, Zenon DEF Step

-----------------------------------------------------------------------------
(* TasksInv.                                                               *)

\* Steps that leave the tasks alone.
LEMMA TasksFrame ==
  ASSUME TasksInv, UNCHANGED <<tasks, worker>>
  PROVE  TasksInv'
  <1>1. UNCHANGED <<queue, fileTaskCount, task, worker>>
    BY Zenon DEF tasks
  <1>2. TasksTyped' /\ QueueOK'
    BY <1>1, Zenon DEF TasksInv, TasksTyped, QueueOK
  <1>3. \A w \in Workers : WorkerOK(w)'
    BY <1>1, Zenon DEF TasksInv, WorkerOK, Busy
  <1>4. (\A k \in Keys : SentOK(k)') /\ \A f \in Names : CountOK(f)'
    BY <1>1, Zenon DEF TasksInv, SentOK, CountOK, Active
  <1> QED BY <1>2, <1>3, <1>4, Zenon DEF TasksInv

\* A task that is worked on is neither new nor freed.
LEMMA WorkedOn ==
  ASSUME TasksInv, NEW w \in Workers, Busy(w)
  PROVE  worker[w].key \in Keys /\ task[worker[w].key] \notin Idling
  <1>1. worker[w].pc \in WorkerLabels /\ worker[w].key \in Keys /\ Fits(worker[w].pc, task[worker[w].key])
    BY Zenon DEF TasksInv, TasksTyped, WorkerOK, Busy
  <1> QED BY <1>1, Zenon DEF Fits, Busy, WorkerLabels, Idling

\* The number of tasks of a file stays when no task is new or freed.
LEMMA CountStays ==
  ASSUME TasksInv, UNCHANGED fileTaskCount, \A k \in Keys : task'[k] \in Idling <=> task[k] \in Idling
  PROVE  \A f \in Names : CountOK(f)'
  <1>1. \A f \in Names : Active(f)' = Active(f)
    BY Zenon DEF Active
  <1> QED BY <1>1, Zenon DEF TasksInv, CountOK

\* A worker w goes on to label l and its task to state st.
LEMMA WorkerMoves ==
  ASSUME TasksInv, NEW w \in Workers, NEW l \in WorkerLabels \ {"wait"}, NEW st \in TaskStates \ Idling,
         Busy(w), Fits(l, st), st = "sent" => l = "join", UNCHANGED <<queue, fileTaskCount>>,
         worker' = [worker EXCEPT ![w].pc = l], task' = [task EXCEPT ![worker[w].key] = st]
  PROVE  TasksInv'
  <1> DEFINE k == worker[w].key
  <1>1. k \in Keys /\ task[k] \notin Idling /\ worker[w] \in [pc : WorkerLabels, key : Keys \cup {NoTask}]
    BY WorkedOn, Zenon DEF TasksInv, TasksTyped
  <1>2. /\ worker' \in [Workers -> [pc : WorkerLabels, key : Keys \cup {NoTask}]]
        /\ worker'[w] = [pc |-> l, key |-> k] /\ \A u \in Workers \ {w} : worker'[u] = worker[u]
    BY <1>1, Zenon DEF TasksInv, TasksTyped
  <1>3. task' \in [Keys -> TaskStates] /\ task'[k] = st /\ \A j \in Keys \ {k} : task'[j] = task[j]
    BY <1>1, Zenon DEF TasksInv, TasksTyped
  <1>4. \A i \in 1 .. Len(queue) : queue[i] \in Keys \ {k}
    BY DEF TasksInv, TasksTyped, WorkerOK
  <1>5. QueueOK'
    BY <1>3, <1>4, ZenonT(40) DEF TasksInv, QueueOK
  <1>6. Busy(w)' /\ \A u \in Workers \ {w} : (Busy(u)' <=> Busy(u)) /\ (Busy(u) => worker[u].key \in Keys \ {k})
    BY <1>2, ZenonT(30) DEF Busy, TasksInv, WorkerOK
  <1>7. \A u \in Workers : worker'[u].key = worker[u].key
    BY <1>2, Zenon
  <1>8. \A u \in Workers : Busy(u)' => worker'[u].key \in Keys /\ Fits(worker'[u].pc, task'[worker'[u].key])
    BY <1>1, <1>2, <1>3, <1>6, ZenonT(30) DEF TasksInv, WorkerOK
  <1>9. \A u \in Workers : Busy(u)' => Busy(u)
    BY <1>6, Zenon
  <1>a. \A u \in Workers : WorkerOK(u)'
    BY <1>7, <1>8, <1>9, Zenon DEF TasksInv, WorkerOK
  <1>10. ASSUME NEW j \in Keys, task'[j] = "sent" PROVE \E u \in Workers : worker'[u] = [pc |-> "join", key |-> j]
    <2>1. CASE j = k
      BY <1>2, <1>3, <1>10, <2>1, Zenon
    <2>2. CASE j # k
      <3>1. PICK u \in Workers : worker[u] = [pc |-> "join", key |-> j]
        BY <1>3, <1>10, <2>2, Zenon DEF TasksInv, SentOK
      <3> QED BY <1>2, <2>2, <3>1
    <2> QED BY <2>1, <2>2, Zenon
  <1>11. \A j \in Keys : task'[j] \in Idling <=> task[j] \in Idling
    BY <1>1, <1>3, Zenon
  <1>12. \A f \in Names : CountOK(f)'
    BY <1>11, CountStays, Zenon
  <1> HIDE DEF k
  <1>13. TasksTyped'
    BY <1>2, <1>3, Zenon DEF TasksInv, TasksTyped
  <1>14. \A j \in Keys : SentOK(j)'
    BY <1>10, Zenon DEF SentOK
  <1> QED BY <1>5, <1>a, <1>12, <1>13, <1>14, Zenon DEF TasksInv

\* writeFileStripe enqueues a task, and counts it.
LEMMA AddTask ==
  ASSUME TasksInv, FilesInv, writeRedundancyInBackground, NEW f \in Names, addChunkTask(f)
  PROVE  TasksInv'
  <1> DEFINE k == WriterKey(f)
  <1>1. k \in Keys /\ k[1] = f
    BY Zenon DEF WriterKey, Keys, FilesInv, Writers
  <1>2. task[k] \in Idling /\ queue' = Append(queue, k) /\ worker' = worker
    BY Zenon DEF addChunkTask, Idling
  <1>3. task' \in [Keys -> TaskStates] /\ task'[k] = "todo" /\ \A j \in Keys \ {k} : task'[j] = task[j]
    BY <1>1, Zenon DEF addChunkTask, TasksInv, TasksTyped, TaskStates
  <1>4. /\ queue' \in Seq(Keys) /\ Len(queue') = Len(queue) + 1 /\ Len(queue) \in Nat /\ queue'[Len(queue) + 1] = k
        /\ \A i \in 1 .. Len(queue) : queue'[i] = queue[i] /\ queue[i] \in Keys \ {k}
    BY <1>1, <1>2, SMTT(60) DEF TasksInv, TasksTyped, QueueOK, Idling
  <1>5. \A w \in Workers : Busy(w) => worker[w].key \in Keys \ {k}
    BY <1>2, WorkedOn, Zenon
  <1>6. QueueOK'
    <2>1. \A i \in 1 .. Len(queue') : i \in 1 .. Len(queue) \/ i = Len(queue) + 1
      BY <1>4
    <2>2. \A i \in 1 .. Len(queue') : task'[queue'[i]] = "todo"
      BY <1>3, <1>4, <2>1, ZenonT(40) DEF TasksInv, QueueOK
    <2>3. \A i, j \in 1 .. Len(queue') : queue'[i] = queue'[j] => i = j
      BY <1>4, <2>1, Zenon DEF TasksInv, QueueOK
    <2> QED BY <2>2, <2>3, Zenon DEF QueueOK
  <1>7. ASSUME NEW w \in Workers, Busy(w)' PROVE WorkerOK(w)'
    <2>1. Busy(w) /\ task'[worker[w].key] = task[worker[w].key]
      BY <1>2, <1>3, <1>5, <1>7, Zenon DEF Busy
    <2>2. \A i \in 1 .. Len(queue') : queue'[i] # worker'[w].key
      BY <1>2, <1>4, <1>5, <2>1 DEF TasksInv, WorkerOK
    <2> QED BY <1>2, <1>5, <2>1, <2>2, Zenon DEF TasksInv, WorkerOK, Busy
  <1>8. \A j \in Keys : SentOK(j)'
    BY <1>2, <1>3, Zenon DEF TasksInv, SentOK
  <1>9. \A g \in Names \ {f} : Active(g)' = Active(g) /\ fileTaskCount'[g] = fileTaskCount[g]
    BY <1>1, <1>3, Zenon DEF Active, addChunkTask, TasksInv, TasksTyped
  <1>10. /\ Active(f)' = Active(f) \cup {k} /\ k \notin Active(f)
         /\ fileTaskCount'[f] = fileTaskCount[f] + 1 /\ fileTaskCount' \in [Names -> Int]
    <2>1. Active(f)' = Active(f) \cup {k}
      BY <1>1, <1>3, Zenon DEF Active, Idling
    <2>2. k \notin Active(f)
      BY <1>2, Zenon DEF Active
    <2> QED BY <2>1, <2>2 DEF addChunkTask, TasksInv, TasksTyped
  <1>11. CountOK(f)'
    BY <1>10, FS_AddElement, ZenonT(30) DEF TasksInv, CountOK
  <1> HIDE DEF k
  <1>12. \A g \in Names : CountOK(g)'
    BY <1>9, <1>11, Zenon DEF TasksInv, CountOK
  <1>13. \A w \in Workers : WorkerOK(w)'
    BY <1>7, Zenon DEF WorkerOK
  <1>14. TasksTyped'
    BY <1>2, <1>3, <1>4, <1>10, Zenon DEF TasksInv, TasksTyped
  <1> QED BY <1>6, <1>8, <1>12, <1>13, <1>14, Zenon DEF TasksInv

\* A worker takes the first task of the queue.
LEMMA TakeTask ==
  ASSUME TasksInv, writeRedundancyInBackground, NEW w \in Workers, Take(w)
  PROVE  TasksInv'
  <1> DEFINE k == Head(queue)
  <1>1. queue \in Seq(Keys) /\ queue # <<>> /\ queue' = Tail(queue) /\ UNCHANGED <<task, fileTaskCount>>
    BY Zenon DEF Take, TasksInv, TasksTyped
  <1>2. /\ k \in Keys /\ k = queue[1] /\ 1 \in 1 .. Len(queue) /\ queue' \in Seq(Keys)
        /\ \A i \in 1 .. Len(queue') : queue'[i] = queue[i + 1] /\ i + 1 \in 1 .. Len(queue) /\ i + 1 # 1
    BY <1>1
  <1>3. task[k] = "todo"
    BY <1>2, Zenon DEF TasksInv, QueueOK
  <1>4. /\ worker' \in [Workers -> [pc : WorkerLabels, key : Keys \cup {NoTask}]]
        /\ worker'[w] = [pc |-> "check", key |-> k] /\ \A u \in Workers \ {w} : worker'[u] = worker[u]
    BY <1>2, Zenon DEF Take, TasksInv, TasksTyped, WorkerLabels
  <1>5. /\ \A i \in 1 .. Len(queue') : task'[queue'[i]] = "todo" /\ queue'[i] # k
        /\ \A i, j \in 1 .. Len(queue') : queue'[i] = queue'[j] => i = j
    BY <1>1, <1>2 DEF TasksInv, QueueOK
  <1>6. ~Busy(w) /\ Busy(w)' /\ \A u \in Workers \ {w} : Busy(u)' <=> Busy(u)
    BY <1>4, Zenon DEF Take, Busy
  <1>7. \A u \in Workers \ {w} : Busy(u) => worker[u].key # k
    BY <1>2, Zenon DEF TasksInv, WorkerOK
  <1>8. \A u \in Workers : Busy(u)' => worker'[u].key \in Keys /\ Fits(worker'[u].pc, task'[worker'[u].key])
    BY <1>1, <1>2, <1>3, <1>4, <1>6 DEF TasksInv, WorkerOK, Fits
  <1>9. ASSUME NEW u \in Workers, Busy(u)'
        PROVE  /\ \A i \in 1 .. Len(queue') : queue'[i] # worker'[u].key
               /\ \A v \in Workers \ {u} : Busy(v)' => worker'[v].key # worker'[u].key
    <2>1. CASE u = w
      BY <1>4, <1>5, <1>6, <1>7, <2>1
    <2>2. CASE u # w
      <3>1. \A i \in 1 .. Len(queue') : queue'[i] # worker'[u].key
        BY <1>2, <1>4, <1>6, <1>9, <2>2 DEF TasksInv, WorkerOK
      <3>2. \A v \in Workers \ {u} : Busy(v)' => worker'[v].key # worker'[u].key
        BY <1>4, <1>6, <1>7, <1>9, <2>2 DEF TasksInv, WorkerOK
      <3> QED BY <3>1, <3>2, Zenon
    <2> QED BY <2>1, <2>2, Zenon
  <1>10. ASSUME NEW j \in Keys, task'[j] = "sent" PROVE \E u \in Workers : worker'[u] = [pc |-> "join", key |-> j]
    <2>1. PICK u \in Workers : worker[u] = [pc |-> "join", key |-> j]
      BY <1>1, <1>10, Zenon DEF TasksInv, SentOK
    <2>2. u # w
      BY <1>6, <2>1 DEF Busy
    <2> QED BY <1>4, <2>1, <2>2, Zenon
  <1>11. \A f \in Names : CountOK(f)'
    BY <1>1, CountStays, Zenon
  <1> HIDE DEF k
  <1>12. TasksTyped' /\ QueueOK'
    BY <1>1, <1>2, <1>4, <1>5, Zenon DEF TasksInv, TasksTyped, QueueOK
  <1>13. \A u \in Workers : WorkerOK(u)'
    BY <1>8, <1>9, Zenon DEF WorkerOK
  <1>14. \A j \in Keys : SentOK(j)'
    BY <1>10, Zenon DEF SentOK
  <1> QED BY <1>11, <1>12, <1>13, <1>14, Zenon DEF TasksInv

\* A worker is done with its task, and the count of the file goes down.
LEMMA FreeTask ==
  ASSUME TasksInv, NEW w \in Workers, Free(w)
  PROVE  TasksInv'
  <1> DEFINE k == worker[w].key
  <1>1. Busy(w) /\ UNCHANGED queue
    BY Zenon DEF Busy, Free
  <1>0. k \in Keys /\ task[k] \notin Idling /\ k[1] \in Names
    BY <1>1, WorkedOn, Zenon DEF Keys
  <1>2. PICK f \in Names : k \in Keys /\ task[k] \notin Idling /\ f = k[1]
    BY <1>0, Zenon
  <1>3. /\ worker' \in [Workers -> [pc : WorkerLabels, key : Keys \cup {NoTask}]]
        /\ worker'[w].pc = "wait" /\ \A u \in Workers \ {w} : worker'[u] = worker[u]
    BY Zenon DEF Free, TasksInv, TasksTyped, IdleWorker, WorkerLabels
  <1>4. task' \in [Keys -> TaskStates] /\ task'[k] = "freed" /\ \A j \in Keys \ {k} : task'[j] = task[j]
    BY <1>2, Zenon DEF Free, TasksInv, TasksTyped, TaskStates, Idling
  <1>5. \A i \in 1 .. Len(queue) : queue[i] \in Keys \ {k}
    BY <1>1 DEF TasksInv, TasksTyped, WorkerOK
  <1>6. QueueOK'
    BY <1>1, <1>4, <1>5, Zenon DEF TasksInv, QueueOK
  <1>7. ~Busy(w)' /\ \A u \in Workers \ {w} : (Busy(u)' <=> Busy(u)) /\ (Busy(u) => worker[u].key \in Keys \ {k})
    BY <1>1, <1>3, Zenon DEF Busy, TasksInv, WorkerOK
  <1>8. ASSUME NEW u \in Workers, Busy(u)' PROVE WorkerOK(u)'
    <2>1. u # w /\ Busy(u) /\ worker'[u] = worker[u] /\ task'[worker[u].key] = task[worker[u].key]
      BY <1>3, <1>4, <1>7, <1>8, Zenon
    <2>2. \A v \in Workers : Busy(v)' => Busy(v) /\ worker'[v] = worker[v]
      BY <1>3, <1>7, Zenon
    <2> QED BY <1>1, <2>1, <2>2, Zenon DEF TasksInv, WorkerOK
  <1>9. ASSUME NEW j \in Keys, task'[j] = "sent" PROVE \E u \in Workers : worker'[u] = [pc |-> "join", key |-> j]
    <2>1. j # k
      BY <1>4, <1>9, Zenon
    <2>2. PICK u \in Workers : worker[u] = [pc |-> "join", key |-> j]
      BY <1>4, <1>9, <2>1, Zenon DEF TasksInv, SentOK
    <2> QED BY <1>3, <2>1, <2>2
  <1>10. \A g \in Names \ {f} : Active(g)' = Active(g) /\ fileTaskCount'[g] = fileTaskCount[g]
    BY <1>2, <1>4, ZenonT(30) DEF Active, Free, TasksInv, TasksTyped
  <1>11. /\ Active(f)' = Active(f) \ {k} /\ k \in Active(f)
         /\ fileTaskCount'[f] = fileTaskCount[f] - 1 /\ fileTaskCount' \in [Names -> Int]
    <2>1. Active(f)' = Active(f) \ {k}
      BY <1>2, <1>4, Zenon DEF Active, Idling
    <2>2. k \in Active(f)
      BY <1>2, Zenon DEF Active
    <2> QED BY <1>2, <2>1, <2>2 DEF Free, TasksInv, TasksTyped
  <1>12. CountOK(f)'
    <2>1. IsFiniteSet(Active(f)) /\ fileTaskCount[f] = Cardinality(Active(f))
      BY Zenon DEF TasksInv, CountOK
    <2>2. IsFiniteSet(Active(f) \ {k}) /\ Cardinality(Active(f) \ {k}) = Cardinality(Active(f)) - 1
      <3> HIDE DEF k
      <3> QED BY <1>11, <2>1, FS_RemoveElement, Zenon
    <2> QED BY <1>11, <2>1, <2>2, Zenon DEF CountOK
  <1> HIDE DEF k
  <1>13. \A g \in Names : CountOK(g)'
    BY <1>10, <1>12, Zenon DEF TasksInv, CountOK
  <1>14. \A u \in Workers : WorkerOK(u)'
    BY <1>8, Zenon DEF WorkerOK
  <1>15. TasksTyped'
    BY <1>1, <1>3, <1>4, <1>11, Zenon DEF TasksInv, TasksTyped
  <1>16. \A j \in Keys : SentOK(j)'
    BY <1>9, Zenon DEF SentOK
  <1> QED BY <1>6, <1>13, <1>14, <1>15, <1>16, Zenon DEF TasksInv

\* A restart of the proxy loses the queue, and what the workers were at.
LEMMA RestartTasks ==
  ASSUME TasksInv, Restart
  PROVE  TasksInv'
  <1>1. queue' = <<>> /\ task' = [k \in Keys |-> "none"] /\ worker' = [w \in Workers |-> IdleWorker]
        /\ fileTaskCount' = [f \in Names |-> 0]
    BY Zenon DEF Restart
  <1>2. \A w \in Workers : ~Busy(w)'
    BY <1>1, Zenon DEF Busy, IdleWorker
  <1>3. \A f \in Names : Active(f)' = {}
    BY <1>1, Zenon DEF Active, Idling
  <1>4. worker' \in [Workers -> [pc : WorkerLabels, key : Keys \cup {NoTask}]]
    BY <1>1, Zenon DEF IdleWorker, WorkerLabels
  <1>5. queue' \in Seq(Keys) /\ 1 .. Len(queue') = {}
    BY <1>1
  <1>6. task' \in [Keys -> TaskStates] /\ \A k \in Keys : task'[k] # "sent"
    BY <1>1, Zenon DEF TaskStates, Idling
  <1>7. fileTaskCount' \in [Names -> Int] /\ \A f \in Names : CountOK(f)'
    BY <1>1, <1>3, FS_EmptySet, SMTT(30) DEF CountOK
  <1> QED BY <1>2, <1>4, <1>5, <1>6, <1>7, Zenon DEF TasksInv, TasksTyped, QueueOK, WorkerOK, SentOK

\* Every step keeps TasksInv.
LEMMA TasksNext ==
  ASSUME TasksInv, FilesInv, writeRedundancyInBackground, Step
  PROVE  TasksInv'
  <1>1. CASE \E f \in Names : WriteLock(f) \/ Write(f) \/ DeleteFile(f)
    BY <1>1, AddTask, TasksFrame, Zenon
       DEF Write, WriteLock, AddStatus, WriteFails, WritePutMeta, WritePutMetaFails, WriteDeleteOld, WriteUnlock, DeleteFile
  <1>2. ASSUME NEW k \in Keys, PutChunk(k) \/ PutChunkFails(k) PROVE TasksInv'
    <2>1. PICK st \in {"ok", "failed"} : task' = [task EXCEPT ![k] = st]
      BY <1>2, Zenon DEF PutChunk, PutChunkFails
    <2>2. PICK w \in Workers : worker[w] = [pc |-> "join", key |-> k]
      BY <1>2, Zenon DEF PutChunk, PutChunkFails, TasksInv, SentOK
    <2>3. worker' = [worker EXCEPT ![w].pc = "join"]
      BY <1>2, <2>2 DEF PutChunk, PutChunkFails, TasksInv, TasksTyped
    <2>4. Busy(w) /\ worker[w].key = k /\ Fits("join", st)
      BY <2>2 DEF Busy, Fits
    <2>5. UNCHANGED <<queue, fileTaskCount>>
      BY <1>2, Zenon DEF PutChunk, PutChunkFails
    <2> QED BY <2>1, <2>3, <2>4, <2>5, WorkerMoves, Zenon DEF WorkerLabels, TaskStates, Idling
  <1>3. ASSUME NEW w \in Workers, RunWorker(w) PROVE TasksInv'
    <2> DEFINE k == worker[w].key
    <2>1. CASE Take(w)
      BY <2>1, TakeTask, Zenon
    <2>2. CASE Free(w)
      BY <2>2, FreeTask, Zenon
    <2>3. CASE RunWorker(w) /\ ~Take(w) /\ ~Free(w)
      <3>1. Busy(w)
        BY <2>3, Zenon DEF RunWorker, CheckBefore, Join, CheckAfter, RevertTask, MarkFailed, SetStatus, PartStatus, Busy
      <3>2. k \in Keys /\ task[k] \in TaskStates \ Idling /\ Fits(worker[w].pc, task[k]) /\ task = [task EXCEPT ![k] = task[k]]
        BY <3>1, WorkedOn, Zenon DEF TasksInv, TasksTyped, WorkerOK
      <3>3. UNCHANGED <<queue, fileTaskCount>>
        BY <2>3, Zenon DEF RunWorker, CheckBefore, Join, CheckAfter, RevertTask, MarkFailed, SetStatus, PartStatus, tasks
      <3>4. CASE CheckBefore(w)
        <4>1. CASE WorkerGoto(w, "done") /\ UNCHANGED task
          BY <3>1, <3>2, <3>3, <3>4, <4>1, WorkerMoves, Zenon DEF CheckBefore, WorkerGoto, WorkerLabels, Fits
        <4>2. CASE WorkerGoto(w, "join") /\ task' = [task EXCEPT ![k] = "sent"]
          BY <3>1, <3>2, <3>3, <3>4, <4>2, WorkerMoves, Zenon DEF CheckBefore, WorkerGoto, WorkerLabels, Fits, TaskStates, Idling
        <4> QED BY <3>4, <4>1, <4>2, Zenon DEF CheckBefore
      <3>5. CASE Join(w)
        BY <3>1, <3>2, <3>3, <3>5, WorkerMoves, Zenon DEF Join, WorkerGoto, WorkerLabels, Fits, tasks
      <3>6. CASE CheckAfter(w)
        <4>1. PICK l \in {"revert", "mark"} : WorkerGoto(w, l)
          BY <3>6, Zenon DEF CheckAfter
        <4> QED BY <3>1, <3>2, <3>3, <3>6, <4>1, WorkerMoves, Zenon DEF CheckAfter, WorkerGoto, WorkerLabels, Fits, tasks
      <3>7. CASE RevertTask(w)
        BY <3>1, <3>2, <3>3, <3>7, WorkerMoves, Zenon DEF RevertTask, WorkerGoto, WorkerLabels, Fits, tasks
      <3>8. CASE MarkFailed(w)
        BY <3>1, <3>2, <3>3, <3>8, WorkerMoves, Zenon DEF MarkFailed, WorkerGoto, WorkerLabels, Fits, tasks
      <3>9. CASE SetStatus(w)
        <4>1. Fits("status", "part") /\ "part" \in TaskStates \ Idling /\ "status" \in WorkerLabels \ {"wait"}
          BY Zenon DEF Fits, TaskStates, Idling, WorkerLabels
        <4> QED BY <3>1, <3>3, <3>9, <4>1, WorkerMoves, Zenon DEF SetStatus, WorkerGoto
      <3>10. CASE PartStatus(w)
        BY <3>1, <3>2, <3>3, <3>10, WorkerMoves, Zenon DEF PartStatus, WorkerGoto, WorkerLabels, Fits, tasks
      <3> QED BY <2>3, <3>4, <3>5, <3>6, <3>7, <3>8, <3>9, <3>10, Zenon DEF RunWorker
    <2> QED BY <1>3, <2>1, <2>2, <2>3, Zenon
  <1>4. CASE TaskCheck
    BY <1>4, TasksFrame, Zenon
       DEF TaskCheck, NextFile, NoNextFile, TaskExists, CheckLock, CheckGetMeta, CheckGetMetaFails, CheckChunks,
           CheckUnlock, ResetPending
  <1> QED BY <1>1, <1>2, <1>3, <1>4, RestartTasks, Zenon DEF Step

-----------------------------------------------------------------------------
(* ChunksInv.                                                              *)

\* Workers do not change metadata.
LEMMA WorkerMeta ==
  ASSUME FilesInv, TasksInv, NEW w \in Workers, RunWorker(w)
  PROVE  meta' = meta
  <1>1. CASE MarkFailed(w)
    BY <1>1, MarkChangesNothing, Zenon DEF MarkFailed, TasksInv, WorkerOK, Busy
  <1>2. CASE ~MarkFailed(w)
    BY <1>2, Zenon DEF RunWorker, Take, CheckBefore, Join, CheckAfter, RevertTask, SetStatus, PartStatus, Free, redis
  <1> QED BY <1>1, <1>2, Zenon

\* Chunks that are not written, of files whose version stays: those who remove
\* them still do, but for those that are gone.
LEMMA ChunksStay ==
  ASSUME ChunksInv, chunk' \subseteq chunk, stray \subseteq stray',
         \A k \in chunk' : meta'[k[1]].ver = meta[k[1]].ver,
         \A k \in chunk' : k[2] < meta[k[1]].ver /\ ByWriter(k) => Guarded(k)',
         \A k \in chunk' : k[2] < meta[k[1]].ver /\ ByWorker(k) => Guarded(k)'
  PROVE  ChunksInv'
  BY Zenon DEF ChunksInv, Guarded

\* What a key is.
LEMMA KeyParts ==
  ASSUME NEW k \in Keys
  PROVE  k[1] \in Names /\ k[2] \in 0 .. MaxVersion /\ k[3] \in Stripes /\ k = <<k[1], k[2], k[3]>>
  BY DEF Keys

\* The metadata of f is replaced: the chunks of the version before are named by
\* what is to be deleted, or strays.
LEMMA PutMetaChunks ==
  ASSUME ChunksInv, FilesInv, StrayInv, NEW f \in Names, writer[f].pc = "putMeta", UNCHANGED <<chunk, worker>>,
         meta' = [meta EXCEPT ![f] = [ver |-> writer[f].ver, numStripes |-> writer[f].n, named |-> 1 .. writer[f].n]],
         stray \ Written(f, writer[f].n) \subseteq stray', NEW l, Goto(f, l),
         l = "deleteOld" \/ KeysOf(f, writer[f].old.ver, writer[f].old.named) \subseteq stray'
  PROVE  ChunksInv'
  <1> USE BackgroundAssumption
  <1>1. /\ meta'[f].ver = writer[f].ver /\ \A g \in Names \ {f} : meta'[g] = meta[g] /\ writer'[g] = writer[g]
        /\ writer'[f].pc = l /\ writer'[f].old = writer[f].old
    BY Zenon DEF Goto, FilesInv, Writers
  <1>2. /\ writer[f].ver = writer[f].old.ver + 1 /\ writer[f].old.ver \in -1 .. MaxVersion /\ meta[f] \in Metas
        /\ meta[f] = writer[f].old \/ writer[f].old = NoMeta
    BY Zenon DEF FilesInv, WriterOK, Writing, Writers, Metas
  <1>3. \A k \in stray : k[1] # f \/ k[2] # writer[f].ver => k \in stray'
    <2>1. \A k \in Written(f, writer[f].n) : k[1] = f /\ k[2] = writer[f].ver
      BY WrittenOf
    <2>2. \A k \in stray : k \in stray' \/ k \in Written(f, writer[f].n)
      BY Zenon
    <2> QED BY <2>1, <2>2, Zenon
  <1>4. \A k : ByWorker(k)' <=> ByWorker(k)
    BY Zenon DEF ByWorker
  <1>5. ASSUME NEW k \in chunk, k[2] < meta'[k[1]].ver PROVE Guarded(k)'
    <2>0. k \in Keys /\ k[1] \in Names /\ k[2] \in 0 .. MaxVersion /\ k[3] \in Stripes /\ k = <<k[1], k[2], k[3]>>
      BY KeyParts, Zenon DEF ChunksInv
    <2>1. CASE k[1] # f
      <3>1. Guarded(k) /\ (ByWriter(k) => ByWriter(k)')
        BY <1>1, <1>5, <2>0, <2>1, Zenon DEF ChunksInv, ByWriter
      <3> QED BY <1>3, <1>4, <2>1, <3>1, Zenon DEF Guarded
    <2>2. CASE k[1] = f
      <3>1. k[2] < writer[f].ver /\ k[2] # writer[f].ver /\ k[2] <= writer[f].old.ver
        <4>1. k[2] < writer[f].ver
          BY <1>1, <1>5, <2>2, Zenon
        <4> QED BY <1>2, <2>0, <4>1
      <3>2. writer[f].old = meta[f]
        BY <1>2, <2>0, <3>1, NoMetaType
      <3>3. CASE k[2] < meta[f].ver
        <4>1. Guarded(k) /\ ~ByWriter(k)
          BY <2>2, <3>3, Zenon DEF ChunksInv, ByWriter
        <4> QED BY <1>3, <1>4, <3>1, <4>1, Zenon DEF Guarded
      <3>4. CASE k[2] = meta[f].ver
        <4>1. CASE k[3] \in meta[f].named
          <5>1. k \in KeysOf(f, writer[f].old.ver, writer[f].old.named)
            BY <2>0, <2>2, <3>2, <3>4, <4>1, Zenon DEF KeysOf
          <5>2. l = "deleteOld" => ByWriter(k)'
            BY <1>1, <2>2, <3>2, <3>4, <4>1, Zenon DEF ByWriter
          <5> QED BY <5>1, <5>2, Zenon DEF Guarded
        <4>2. CASE k[3] \notin meta[f].named
          <5>1. Taken(k) /\ Unnamed(k) /\ ~Own(k)
            BY <2>2, <3>1, <3>4, <4>2, Zenon DEF Taken, Unnamed, Own
          <5>2. k \in stray
            BY <2>0, <5>1, Zenon DEF StrayInv
          <5> QED BY <1>3, <3>1, <5>2, Zenon DEF Guarded
        <4> QED BY <4>1, <4>2, Zenon
      <3>5. k[2] < meta[f].ver \/ k[2] = meta[f].ver
        BY <1>2, <2>0, <3>1, <3>2 DEF Metas
      <3> QED BY <3>3, <3>4, <3>5, Zenon
    <2> QED BY <2>1, <2>2, Zenon
  <1> QED BY <1>5, Zenon DEF ChunksInv

\* What a write does to chunks: it stores those of its own version, and removes
\* those of the version it replaced.
LEMMA WriteChunks ==
  ASSUME ChunksInv, FilesInv, StrayInv, NEW f \in Names, WriteLock(f) \/ Write(f) \/ DeleteFile(f)
  PROVE  ChunksInv'
  <1> USE BackgroundAssumption
  <1>1. worker' = worker
    BY Zenon DEF WriteLock, Write, DeleteFile, addChunkTask, AddStatus, WriteFails, WritePutMeta, WritePutMetaFails,
           WriteDeleteOld, WriteUnlock
  <1>2. \A k : ByWorker(k)' <=> ByWorker(k)
    BY <1>1, Zenon DEF ByWorker
  <1>3. \A k \in chunk : k \in Keys /\ k[1] \in Names /\ k[2] \in 0 .. MaxVersion /\ k[3] \in Stripes /\ k = <<k[1], k[2], k[3]>>
    BY KeyParts, Zenon DEF ChunksInv
  <1>4. \A g \in Names \ {f} : writer'[g] = writer[g]
    BY Zenon DEF WriteLock, Write, DeleteFile, addChunkTask, AddStatus, WriteFails, WritePutMeta, WritePutMetaFails,
           WriteDeleteOld, WriteUnlock, Goto, FilesInv
  <1>5. \A k \in chunk : k[1] # f => (ByWriter(k)' <=> ByWriter(k))
    BY <1>3, <1>4, Zenon DEF ByWriter
  <1>6. CASE WriteLock(f) \/ addChunkTask(f) \/ AddStatus(f) \/ WriteFails(f) \/ WriteUnlock(f)
    <2>1. meta' = meta /\ chunk' \subseteq chunk /\ stray \subseteq stray'
      BY <1>6, Zenon DEF WriteLock, addChunkTask, AddStatus, WriteFails, WriteUnlock, redis, history
    <2>2. writer[f].pc # "deleteOld"
      BY <1>6, Zenon DEF WriteLock, addChunkTask, AddStatus, WriteFails, WriteUnlock
    <2>3. \A k \in chunk' : ByWriter(k) => ByWriter(k)'
      BY <1>5, <2>1, <2>2, Zenon DEF ByWriter
    <2> QED BY <1>2, <2>1, <2>3, ChunksStay, Zenon DEF Guarded
  <1>7. CASE WritePutMeta(f)
    BY <1>1, <1>7, PutMetaChunks, Zenon DEF WritePutMeta
  <1>8. CASE WritePutMetaFails(f)
    <2>0. writer[f].pc = "putMeta" /\ Goto(f, "unlock") /\ chunk' = chunk
      BY <1>8, Zenon DEF WritePutMetaFails
    <2>1. CASE UNCHANGED meta /\ stray \subseteq stray'
      <3>1. \A k \in chunk' : ByWriter(k) => ByWriter(k)'
        BY <1>5, <2>0, Zenon DEF ByWriter
      <3> QED BY <1>2, <2>0, <2>1, <3>1, ChunksStay, Zenon DEF Guarded
    <2>2. CASE /\ meta' = [meta EXCEPT ![f] = [ver |-> writer[f].ver, numStripes |-> writer[f].n, named |-> 1 .. writer[f].n]]
               /\ stray' = (stray \ Written(f, writer[f].n)) \cup KeysOf(f, writer[f].old.ver, writer[f].old.named)
      <3>1. /\ stray \ Written(f, writer[f].n) \subseteq stray'
            /\ KeysOf(f, writer[f].old.ver, writer[f].old.named) \subseteq stray'
        BY <2>2, Zenon
      <3> QED BY <1>1, <2>0, <2>2, <3>1, PutMetaChunks, Zenon
    <2> QED BY <1>8, <2>1, <2>2, Zenon DEF WritePutMetaFails
  <1>9. CASE WriteDeleteOld(f)
    <2> DEFINE old == KeysOf(f, writer[f].old.ver, writer[f].old.named)
    <2>1. PICK bad \in SUBSET old : chunk' = chunk \ (old \ bad) /\ stray' = stray \cup bad
      BY <1>9, Zenon DEF WriteDeleteOld, Remove
    <2>2. ASSUME NEW k \in chunk', ByWriter(k) PROVE Guarded(k)'
      <3>1. CASE k[1] # f
        BY <1>5, <2>1, <2>2, <3>1, Zenon DEF Guarded
      <3>2. CASE k[1] = f
        <4>1. k \in old
          <5>1. k = <<f, writer[f].old.ver, k[3]>> /\ k[3] \in writer[f].old.named
            BY <1>3, <2>1, <2>2, <3>2, Zenon DEF ByWriter
          <5> QED BY <5>1, Zenon DEF KeysOf
        <4> QED BY <2>1, <2>2, <4>1, Zenon DEF Guarded
      <3> QED BY <3>1, <3>2, Zenon
    <2>3. chunk' \subseteq chunk /\ stray \subseteq stray' /\ meta' = meta
      BY <1>9, <2>1, Zenon DEF WriteDeleteOld, redis
    <2> QED BY <1>2, <2>2, <2>3, ChunksStay, Zenon DEF Guarded
  <1>10. CASE DeleteFile(f)
    <2>1. chunk' \subseteq chunk /\ stray \subseteq stray' /\ meta'[f].ver = -1 /\ \A g \in Names \ {f} : meta'[g] = meta[g]
      BY <1>10, NoMetaType, Zenon DEF DeleteFile, FilesInv
    <2>2. ASSUME NEW k \in chunk', k[2] < meta'[k[1]].ver PROVE Guarded(k)'
      <3>1. k \in chunk /\ k[1] # f
        BY <1>3, <2>1, <2>2
      <3>2. Guarded(k)
        BY <1>3, <2>1, <2>2, <3>1, Zenon DEF ChunksInv
      <3> QED BY <1>2, <1>5, <2>1, <3>1, <3>2, Zenon DEF Guarded
    <2> QED BY <2>1, <2>2, Zenon DEF ChunksInv
  <1> QED BY <1>6, <1>7, <1>8, <1>9, <1>10, Zenon DEF Write

\* A worker that is going to remove a chunk of a replaced version does so, unless
\* it cannot read that it was replaced or its delete request fails.
LEMMA WorkerChunks ==
  ASSUME ChunksInv, FilesInv, TasksInv, writeRedundancyInBackground, NEW w \in Workers, RunWorker(w)
  PROVE  ChunksInv'
  <1>1. meta' = meta
    BY WorkerMeta, Zenon
  <1>2. writer' = writer /\ stray \subseteq stray' /\ chunk' \subseteq chunk
    BY Zenon DEF RunWorker, Take, CheckBefore, Join, CheckAfter, RevertTask, Remove, MarkFailed, SetStatus, PartStatus, Free,
           history
  <1>3. \A u \in Workers \ {w} : worker'[u] = worker[u]
    BY Zenon DEF RunWorker, Take, CheckBefore, Join, CheckAfter, RevertTask, MarkFailed, SetStatus, PartStatus, Free,
           WorkerGoto, TasksInv, TasksTyped
  <1>4. ASSUME NEW k \in chunk', k[2] < meta[k[1]].ver, worker[w].key = k, worker[w].pc \in {"join", "checkAgain", "revert"}
        PROVE  k \in stray' \/ (worker'[w].key = k /\ worker'[w].pc \in {"join", "checkAgain", "revert"})
    <2>1. worker[w] \in [pc : WorkerLabels, key : Keys \cup {NoTask}] /\ worker \in [Workers -> [pc : WorkerLabels, key : Keys \cup {NoTask}]]
      BY Zenon DEF TasksInv, TasksTyped
    <2>2. Join(w) \/ CheckAfter(w) \/ RevertTask(w)
      BY <1>4, Zenon DEF RunWorker, Take, CheckBefore, MarkFailed, SetStatus, PartStatus, Free
    <2>3. RevertTask(w) => k \in stray'
      BY <1>4, Zenon DEF RevertTask, Remove
    <2>4. k[1] \in Names /\ k[2] \in Int /\ meta[k[1]].ver \in Int
      BY <1>2, BackgroundAssumption DEF ChunksInv, Keys, FilesInv, Metas
    <2>5. CheckAfter(w) => k \in stray' \/ WorkerGoto(w, "revert")
      <3> SUFFICES ASSUME CheckAfter(w) PROVE k \in stray' \/ WorkerGoto(w, "revert")
        BY Zenon
      <3>1. PICK v \in {meta[k[1]].ver, -1} :
               /\ WorkerGoto(w, IF v > k[2] THEN "revert" ELSE "mark")
               /\ stray' = stray \cup (IF v <= k[2] /\ k[2] < meta[k[1]].ver THEN {k} ELSE {})
        BY <1>4, Zenon DEF CheckAfter
      <3>2. v > k[2] \/ v <= k[2]
        BY <2>4, <3>1
      <3> QED BY <1>4, <3>1, <3>2, Zenon
    <2>6. k \in stray' \/ WorkerGoto(w, "checkAgain") \/ WorkerGoto(w, "revert")
      BY <2>2, <2>3, <2>5, Zenon DEF Join
    <2>7. ASSUME NEW l \in {"checkAgain", "revert"}, WorkerGoto(w, l) PROVE worker'[w].key = k /\ worker'[w].pc = l
      BY <1>4, <2>1, <2>7, Zenon DEF WorkerGoto
    <2> QED BY <2>6, <2>7, Zenon
  <1>5. \A k \in chunk' : k[2] < meta[k[1]].ver /\ ByWorker(k) => Guarded(k)'
    BY <1>3, <1>4, Zenon DEF ByWorker, Guarded
  <1>6. \A k : ByWriter(k) => ByWriter(k)'
    BY <1>2, Zenon DEF ByWriter
  <1> QED BY <1>1, <1>2, <1>5, <1>6, ChunksStay, Zenon DEF Guarded

\* What the task check leaves as it is.
LEMMA CheckLeaves ==
  ASSUME FilesInv, TaskCheck
  PROVE  /\ UNCHANGED <<writer, worker, chunk, task>> /\ stray \subseteq stray'
         /\ \A f \in Names : meta'[f].ver = meta[f].ver
  <1>1. UNCHANGED <<writer, worker, chunk, task>> /\ stray \subseteq stray'
    BY Zenon DEF TaskCheck, NextFile, NoNextFile, TaskExists, CheckLock, CheckGetMeta, CheckGetMetaFails, CheckChunks,
         CheckUnlock, ResetPending, history, tasks
  <1>2. CASE CheckChunks
    <2>1. PICK ss : meta' = meta \/ meta' = updateChunks(checker.f, meta[checker.f].ver, ss)
      BY <1>2, Zenon DEF CheckChunks
    <2>2. \A f \in Names : f # checker.f => meta'[f] = meta[f]
      BY <2>1, Zenon DEF updateChunks, FilesInv
    <2>3. checker.f \in Names /\ meta[checker.f] \in Metas /\ meta \in [Names -> Metas]
      BY Zenon DEF FilesInv
    <2>4. meta'[checker.f].ver = meta[checker.f].ver
      BY <2>1, <2>3, Zenon DEF updateChunks, Metas
    <2> QED BY <1>1, <2>2, <2>4, Zenon
  <1>3. CASE ~CheckChunks
    BY <1>1, <1>3, Zenon DEF TaskCheck, NextFile, NoNextFile, TaskExists, CheckLock, CheckGetMeta, CheckGetMetaFails,
         CheckUnlock, ResetPending, redis
  <1> QED BY <1>1, <1>2, <1>3, Zenon

\* Every step keeps ChunksInv.
LEMMA ChunksNext ==
  ASSUME ChunksInv, FilesInv, TasksInv, StrayInv, writeRedundancyInBackground, Step
  PROVE  ChunksInv'
  <1>1. CASE \E f \in Names : WriteLock(f) \/ Write(f) \/ DeleteFile(f)
    BY <1>1, WriteChunks, Zenon
  <1>2. ASSUME NEW k \in Keys, PutChunk(k) \/ PutChunkFails(k) PROVE ChunksInv'
    <2>1. UNCHANGED <<meta, writer, worker, stray>>
      BY <1>2, Zenon DEF PutChunk, PutChunkFails, redis, history
    <2>2. ByWorker(k)
      <3>1. PICK w \in Workers : worker[w] = [pc |-> "join", key |-> k]
        BY <1>2, Zenon DEF PutChunk, PutChunkFails, TasksInv, SentOK
      <3> QED BY <3>1 DEF ByWorker
    <2>3. chunk' \subseteq chunk \cup {k}
      BY <1>2, Zenon DEF PutChunk, PutChunkFails
    <2>4. \A j : Guarded(j)' <=> Guarded(j)
      BY <2>1, Zenon DEF Guarded, ByWriter, ByWorker
    <2> QED BY <2>1, <2>2, <2>3, <2>4, Zenon DEF ChunksInv, Guarded
  <1>3. CASE \E w \in Workers : RunWorker(w)
    BY <1>3, WorkerChunks, Zenon
  <1>4. CASE TaskCheck
    <2>1. \A k \in chunk : k[1] \in Names
      BY Zenon DEF ChunksInv, Keys
    <2>2. UNCHANGED <<writer, worker, chunk>> /\ stray \subseteq stray' /\ \A f \in Names : meta'[f].ver = meta[f].ver
      BY <1>4, CheckLeaves, Zenon
    <2>3. \A k : (ByWriter(k) => ByWriter(k)') /\ (ByWorker(k) => ByWorker(k)')
      BY <2>2, Zenon DEF ByWriter, ByWorker
    <2> QED BY <2>1, <2>2, <2>3, ChunksStay, Zenon DEF Guarded
  <1>5. CASE Restart
    <2>1. PICK late \in SUBSET {k \in Keys : task[k] = "sent"} : chunk' = chunk \cup late
      BY <1>5, Zenon DEF Restart
    <2>2. stray' = stray \cup {k \in Keys : task[k] \notin Idling} /\ meta' = meta
      BY <1>5, Zenon DEF Restart, Idling, redis
    <2>3. ASSUME NEW k \in chunk', k[2] < meta[k[1]].ver PROVE k \in stray'
      <3>1. CASE k \in late
        BY <2>2, <3>1, Zenon DEF Idling
      <3>2. CASE k \in chunk
        <4>1. k[1] \in Names /\ Guarded(k)
          BY <2>3, <3>2, Zenon DEF ChunksInv, Keys
        <4>2. ~ByWriter(k)
          BY <1>5, <4>1, Zenon DEF ByWriter, Restart, FilesInv, WriterOK
        <4>3. ByWorker(k) => k \in stray'
          BY <2>2, WorkedOn, Zenon DEF ByWorker, Busy
        <4> QED BY <2>2, <4>1, <4>2, <4>3, Zenon DEF Guarded
      <3> QED BY <2>1, <3>1, <3>2, Zenon
    <2>4. chunk' \subseteq Keys
      BY <2>1, Zenon DEF ChunksInv
    <2> QED BY <2>2, <2>3, <2>4, Zenon DEF ChunksInv, Guarded
  <1> QED BY <1>1, <1>2, <1>3, <1>4, <1>5, Zenon DEF Step

-----------------------------------------------------------------------------
(* StrayInv.                                                               *)

\* Steps after which no more chunks are there, or have a task, without being named.
LEMMA StrayStays ==
  ASSUME StrayInv, stray \subseteq stray',
         \A k \in Keys : Taken(k)' => Taken(k) \/ k \in stray' \/ Own(k)',
         \A k \in Keys : Unnamed(k)' => Unnamed(k) \/ k \in stray',
         \A k \in Keys : Own(k) => Own(k)' \/ k \in stray'
  PROVE  StrayInv'
  BY Zenon DEF StrayInv

\* The metadata of f is replaced, and names the chunks of the write.
LEMMA PutMetaStray ==
  ASSUME FilesInv, StrayInv, NEW f \in Names, writer[f].pc = "putMeta", UNCHANGED <<chunk, tasks>>,
         meta' = [meta EXCEPT ![f] = [ver |-> writer[f].ver, numStripes |-> writer[f].n, named |-> 1 .. writer[f].n]],
         stray \ Written(f, writer[f].n) \subseteq stray', NEW l, Goto(f, l)
  PROVE  StrayInv'
  <1> USE BackgroundAssumption
  <1>1. /\ meta'[f].ver = writer[f].ver /\ meta'[f].named = 1 .. writer[f].n
        /\ \A g \in Names \ {f} : meta'[g] = meta[g] /\ writer'[g] = writer[g]
    BY Zenon DEF Goto, FilesInv, Writers
  <1>2. /\ writer[f].ver = writer[f].old.ver + 1 /\ writer[f].old.ver \in -1 .. MaxVersion
        /\ writer[f].n \in 0 .. NumStripes
        /\ meta[f] = writer[f].old \/ \A k \in Keys : k[1] = f => k \in stray
    BY Zenon DEF FilesInv, WriterOK, Writing, Writers, Metas
  <1>3. ASSUME NEW k \in Keys, Taken(k)', Unnamed(k)' PROVE k \in stray' \/ Own(k)'
    <2>0. k[1] \in Names /\ k[2] \in 0 .. MaxVersion /\ k[3] \in Stripes /\ Taken(k)
      BY <1>3, KeyParts, Zenon DEF Taken, tasks
    <2>1. CASE k[1] # f
      <3>1. Unnamed(k) /\ (Own(k) => Own(k)')
        BY <1>1, <1>3, <2>0, <2>1, Zenon DEF Unnamed, Own
      <3>2. k \in stray => k \in stray'
        BY <2>1, WrittenOf, Zenon
      <3> QED BY <2>0, <3>1, <3>2, Zenon DEF StrayInv
    <2>2. CASE k[1] = f
      <3>1. writer[f].ver < k[2] \/ (writer[f].ver = k[2] /\ k[3] \notin 1 .. writer[f].n)
        BY <1>1, <1>3, <2>2, Zenon DEF Unnamed
      <3>2. k \in stray => k \in stray'
        <4>1. k \notin Written(f, writer[f].n)
          <5>1. writer[f].ver < k[2] => writer[f].ver # k[2]
            BY <1>2, <2>0
          <5> QED BY <3>1, <5>1, WrittenOf, Zenon
        <4> QED BY <4>1, Zenon
      <3>3. CASE meta[f] = writer[f].old
        <4>1. Unnamed(k)
          BY <1>2, <2>0, <2>2, <3>1, <3>3 DEF Unnamed
        <4>2. ~Own(k)
          BY <1>2, <2>0, <2>2, <3>1 DEF Own, Tasked, Stripes
        <4> QED BY <2>0, <3>2, <4>1, <4>2, Zenon DEF StrayInv
      <3> QED BY <1>2, <2>2, <3>2, <3>3, Zenon
    <2> QED BY <2>1, <2>2, Zenon
  <1> QED BY <1>3, Zenon DEF StrayInv

\* A write, or a deletion, that ends with chunks it does not name gives them up.
LEMMA WriteStray ==
  ASSUME ChunksInv, FilesInv, TasksInv, StrayInv, NEW f \in Names, WriteLock(f) \/ Write(f) \/ DeleteFile(f)
  PROVE  StrayInv'
  <1> USE BackgroundAssumption
  <1>1. \A g \in Names \ {f} : writer'[g] = writer[g]
    BY Zenon DEF WriteLock, Write, DeleteFile, addChunkTask, AddStatus, WriteFails, WritePutMeta, WritePutMetaFails,
           WriteDeleteOld, WriteUnlock, Goto, FilesInv
  <1>2. \A k \in Keys : k[1] # f => (Own(k) => Own(k)')
    BY <1>1, KeyParts, Zenon DEF Own
  <1>3. \A k \in Keys : k[3] \in Stripes /\ k = <<k[1], k[2], k[3]>>
    BY KeyParts, Zenon
  <1>4. /\ writer[f].s \in Stripes /\ writer[f].n \in 0 .. NumStripes
        /\ writer[f] \in Writers /\ writer \in [Names -> Writers]
    BY Zenon DEF FilesInv, Writers
  <1>5. CASE WriteLock(f)
    <2>1. UNCHANGED <<meta, chunk, task>> /\ stray \subseteq stray' /\ writer[f].pc = "idle"
      BY <1>5, Zenon DEF WriteLock, tasks
    <2>2. \A k : (Taken(k)' <=> Taken(k)) /\ (Unnamed(k)' <=> Unnamed(k)) /\ (k[1] = f => ~Own(k))
      BY <2>1, Zenon DEF Taken, Unnamed, Own, Writing
    <2> QED BY <1>2, <2>1, <2>2, StrayStays, Zenon
  <1>6. CASE addChunkTask(f)
    <2>1. /\ UNCHANGED <<meta, chunk, stray>> /\ writer[f].pc = "stripe"
          /\ \A k \in Keys : k # WriterKey(f) => task'[k] = task[k]
      BY <1>6, Zenon DEF addChunkTask, redis, history, TasksInv, TasksTyped
    <2>2. writer'[f].pc = "status" /\ writer'[f].ver = writer[f].ver /\ writer'[f].s = writer[f].s
      BY <1>4, <1>6, Zenon DEF addChunkTask, Goto, Writers
    <2>3. \A k \in Keys : k[1] = f /\ Own(k) => Own(k)'
      BY <1>3, <1>4, <2>1, <2>2 DEF Own, Tasked, Writing, Stripes
    <2>4. \A k \in Keys : k = WriterKey(f) => Own(k)'
      BY <1>4, <2>2 DEF Own, Tasked, Writing, WriterKey, Stripes
    <2>5. \A k \in Keys : (Taken(k)' => Taken(k) \/ Own(k)') /\ (Unnamed(k)' => Unnamed(k))
      BY <2>1, <2>4, Zenon DEF Taken, Unnamed
    <2> QED BY <1>2, <2>1, <2>3, <2>5, StrayStays, Zenon
  <1>7. CASE AddStatus(f)
    <2>1. UNCHANGED <<meta, chunk, task, stray>> /\ writer[f].pc = "status"
      BY <1>7, Zenon DEF AddStatus, tasks
    <2>2. /\ writer'[f].ver = writer[f].ver /\ writer'[f].pc \in {"putMeta", "stripe"}
          /\ writer'[f].pc = "putMeta" => writer'[f].n = writer[f].s
          /\ writer'[f].pc = "stripe" => writer'[f].s = writer[f].s + 1
      <3>1. \/ writer' = [writer EXCEPT ![f].pc = "putMeta"] /\ writer[f].s = writer[f].n
            \/ writer' = [writer EXCEPT ![f].pc = "stripe", ![f].s = @ + 1]
        BY <1>7, Zenon DEF AddStatus, Goto
      <3> QED BY <1>4, <3>1 DEF Writers
    <2>3. \A k \in Keys : k[1] = f /\ Own(k) => Own(k)'
      BY <1>3, <1>4, <2>1, <2>2 DEF Own, Tasked, Writing, Stripes
    <2>4. \A k : (Taken(k)' <=> Taken(k)) /\ (Unnamed(k)' <=> Unnamed(k))
      BY <2>1, Zenon DEF Taken, Unnamed
    <2> QED BY <1>2, <2>1, <2>3, <2>4, StrayStays, Zenon
  <1>8. ASSUME NEW n, Written(f, n) \subseteq stray', stray \subseteq stray', UNCHANGED <<meta, task>>, chunk' \subseteq chunk,
               writer[f].pc \in {"stripe", "putMeta"},
               n = IF writer[f].pc = "putMeta" THEN writer[f].n ELSE writer[f].s - 1
        PROVE  StrayInv'
    <2>1. \A k \in Keys : k[1] = f /\ Own(k) => k[2] = writer[f].ver /\ k[3] \in 1 .. n
      BY <1>3, <1>4, <1>8 DEF Own, Tasked, Stripes
    <2>2. \A k \in Keys : k[1] = f /\ Own(k) => k \in stray'
      BY <1>3, <1>8, <2>1, Zenon DEF Written, KeysOf
    <2>3. \A k : (Taken(k)' => Taken(k)) /\ (Unnamed(k)' <=> Unnamed(k))
      BY <1>8, Zenon DEF Taken, Unnamed
    <2> QED BY <1>2, <1>8, <2>2, <2>3, StrayStays, Zenon
  <1>9. CASE WriteFails(f)
    BY <1>8, <1>9, Zenon DEF WriteFails, redis, tasks
  <1>10. CASE WritePutMeta(f)
    BY <1>10, PutMetaStray, Zenon DEF WritePutMeta
  <1>11. CASE WritePutMetaFails(f)
    <2>1. CASE UNCHANGED meta /\ stray' = stray \cup Written(f, writer[f].n)
      BY <1>8, <1>11, <2>1, Zenon DEF WritePutMetaFails, tasks
    <2>2. CASE /\ meta' = [meta EXCEPT ![f] = [ver |-> writer[f].ver, numStripes |-> writer[f].n, named |-> 1 .. writer[f].n]]
               /\ stray' = (stray \ Written(f, writer[f].n)) \cup KeysOf(f, writer[f].old.ver, writer[f].old.named)
      BY <1>11, <2>2, PutMetaStray, Zenon DEF WritePutMetaFails
    <2> QED BY <1>11, <2>1, <2>2, Zenon DEF WritePutMetaFails
  <1>12. CASE WriteDeleteOld(f) \/ WriteUnlock(f)
    <2>1. /\ UNCHANGED <<meta, task>> /\ chunk' \subseteq chunk /\ stray \subseteq stray'
          /\ writer[f].pc \in {"deleteOld", "unlock"}
      BY <1>12, Zenon DEF WriteDeleteOld, WriteUnlock, Remove, redis, tasks, history
    <2>2. \A k : (Taken(k)' => Taken(k)) /\ (Unnamed(k)' <=> Unnamed(k)) /\ (k[1] = f => ~Own(k))
      BY <2>1, Zenon DEF Taken, Unnamed, Own, Writing
    <2> QED BY <1>2, <2>1, <2>2, StrayStays, Zenon
  <1>13. CASE DeleteFile(f)
    <2> DEFINE old == KeysOf(f, meta[f].ver, meta[f].named)
    <2>1. PICK bad \in SUBSET old : /\ chunk' = chunk \ (old \ bad)
                                    /\ stray' = stray \cup bad \cup {k \in Keys : k[1] = f /\ task[k] \notin Idling}
      BY <1>13, Zenon DEF DeleteFile, Idling
    <2>2. UNCHANGED <<task, writer>> /\ writer[f].pc = "idle" /\ \A g \in Names \ {f} : meta'[g] = meta[g]
      BY <1>13, Zenon DEF DeleteFile, tasks, FilesInv, WriterOK
    <2>3. \A k : (Taken(k)' => Taken(k)) /\ (Own(k) => Own(k)')
      BY <2>1, <2>2, Zenon DEF Taken, Own
    <2>4. ASSUME NEW k \in Keys, Taken(k)', k[1] = f PROVE k \in stray'
      <3>1. CASE task[k] \notin Idling
        BY <2>1, <2>4, <3>1, Zenon
      <3>2. CASE Unnamed(k)
        BY <2>1, <2>2, <2>3, <2>4, <3>2, Zenon DEF StrayInv, Own, Writing
      <3>3. CASE task[k] \in Idling /\ k \in chunk /\ k[2] < meta[f].ver
        <4>1. ~ByWriter(k) /\ ~ByWorker(k)
          BY <2>2, <2>4, <3>3, WorkedOn, Zenon DEF ByWriter, ByWorker, Busy
        <4> QED BY <2>1, <2>4, <3>3, <4>1, Zenon DEF ChunksInv, Guarded
      <3>4. CASE k \in chunk' /\ k[2] = meta[f].ver /\ k[3] \in meta[f].named
        <4>1. k \in old
          BY <1>3, <2>4, <3>4, Zenon DEF KeysOf
        <4> QED BY <2>1, <3>4, <4>1, Zenon
      <3>5. k[2] \in Int /\ meta[f].ver \in Int
        BY <2>4, KeyParts DEF FilesInv, Metas
      <3>6. k[2] < meta[f].ver \/ k[2] = meta[f].ver \/ meta[f].ver < k[2]
        BY <3>5
      <3>7. task[k] \in Idling => k \in chunk' /\ k \in chunk
        BY <2>1, <2>2, <2>4, Zenon DEF Taken
      <3> QED BY <2>4, <3>1, <3>2, <3>3, <3>4, <3>6, <3>7, Zenon DEF Unnamed
    <2>5. \A k \in Keys : k[1] # f => (Unnamed(k)' => Unnamed(k))
      BY <2>2, KeyParts, Zenon DEF Unnamed
    <2> QED BY <2>1, <2>3, <2>4, <2>5, Zenon DEF StrayInv
  <1> QED BY <1>5, <1>6, <1>7, <1>9, <1>10, <1>11, <1>12, <1>13, Zenon DEF Write

\* Every step keeps StrayInv.
LEMMA StrayNext ==
  ASSUME ChunksInv, FilesInv, TasksInv, StrayInv, writeRedundancyInBackground, Step
  PROVE  StrayInv'
  <1>1. CASE \E f \in Names : WriteLock(f) \/ Write(f) \/ DeleteFile(f)
    BY <1>1, WriteStray, Zenon
  <1>2. ASSUME NEW j \in Keys, PutChunk(j) \/ PutChunkFails(j) PROVE StrayInv'
    <2>1. UNCHANGED <<meta, writer, stray>> /\ chunk' \subseteq chunk \cup {j} /\ task[j] = "sent"
      BY <1>2, Zenon DEF PutChunk, PutChunkFails, redis, history
    <2>2. \A k \in Keys : k # j => task'[k] = task[k]
      BY <1>2, Zenon DEF PutChunk, PutChunkFails, TasksInv, TasksTyped
    <2>3. \A k \in Keys : (Taken(k)' => Taken(k)) /\ (Unnamed(k)' <=> Unnamed(k)) /\ (Own(k)' <=> Own(k))
      BY <2>1, <2>2, Zenon DEF Taken, Unnamed, Own, Idling
    <2> QED BY <2>1, <2>3, StrayStays, Zenon
  <1>3. ASSUME NEW w \in Workers, RunWorker(w) PROVE StrayInv'
    <2>1. meta' = meta
      BY <1>3, WorkerMeta, Zenon
    <2>2. writer' = writer /\ stray \subseteq stray' /\ chunk' \subseteq chunk
      BY <1>3, Zenon DEF RunWorker, Take, CheckBefore, Join, CheckAfter, RevertTask, Remove, MarkFailed, SetStatus, PartStatus,
             Free, history
    <2>3. \A k \in Keys : task'[k] = task[k] \/ task'[k] = "freed" \/ (k = worker[w].key /\ Busy(w))
      BY <1>3, Zenon DEF RunWorker, Take, CheckBefore, Join, CheckAfter, RevertTask, MarkFailed, SetStatus, PartStatus, Free,
             tasks, Busy, TasksInv, TasksTyped
    <2>4. \A k \in Keys : Taken(k)' => Taken(k)
      BY <2>2, <2>3, WorkedOn, Zenon DEF Taken, Idling
    <2>5. \A k : (Unnamed(k)' <=> Unnamed(k)) /\ (Own(k)' <=> Own(k))
      BY <2>1, <2>2, Zenon DEF Unnamed, Own
    <2> QED BY <2>2, <2>4, <2>5, StrayStays, Zenon
  <1>4. CASE TaskCheck
    <2>1. UNCHANGED <<writer, chunk, task>> /\ stray \subseteq stray' /\ \A f \in Names : meta'[f].ver = meta[f].ver
      BY <1>4, CheckLeaves, Zenon
    <2>2. ASSUME NEW k \in Keys, Unnamed(k)' PROVE Unnamed(k) \/ k \in stray'
      <3>1. k[1] \in Names /\ k = <<k[1], k[2], k[3]>>
        BY KeyParts, Zenon
      <3>2. CASE CheckChunks
        <4>1. PICK bad : meta' = meta \/ (/\ meta' = updateChunks(checker.f, meta[checker.f].ver, bad)
                                          /\ KeysOf(checker.f, meta[checker.f].ver, bad) \subseteq stray')
          BY <3>2, Zenon DEF CheckChunks
        <4>2. \A g \in Names : meta'[g].named = meta[g].named \/ (g = checker.f /\ meta'[g].named = meta[g].named \ bad)
          <5>1. \A g \in Names : g # checker.f => meta'[g] = meta[g]
            BY <4>1, Zenon DEF updateChunks, FilesInv
          <5>2. checker.f \in Names /\ meta[checker.f] \in Metas /\ meta \in [Names -> Metas]
            BY Zenon DEF FilesInv
          <5>3. meta'[checker.f].named \in {meta[checker.f].named, meta[checker.f].named \ bad}
            BY <4>1, <5>2, Zenon DEF updateChunks, Metas
          <5> QED BY <5>1, <5>3, Zenon
        <4>3. CASE k[1] = checker.f /\ k[2] = meta[checker.f].ver /\ k[3] \in bad /\ meta' # meta
          BY <3>1, <4>1, <4>3, Zenon DEF KeysOf
        <4> QED BY <2>1, <2>2, <3>1, <4>2, <4>3, Zenon DEF Unnamed
      <3>3. CASE ~CheckChunks
        <4>1. meta' = meta
          BY <1>4, <3>3, Zenon DEF TaskCheck, NextFile, NoNextFile, TaskExists, CheckLock, CheckGetMeta, CheckGetMetaFails,
               CheckUnlock, ResetPending, redis
        <4> QED BY <2>2, <4>1, Zenon DEF Unnamed
      <3> QED BY <3>2, <3>3, Zenon
    <2>3. \A k \in Keys : (Taken(k)' <=> Taken(k)) /\ (Own(k)' <=> Own(k))
      BY <2>1, Zenon DEF Taken, Own
    <2> QED BY <2>1, <2>2, <2>3, StrayStays, Zenon
  <1>5. CASE Restart
    <2>1. PICK late \in SUBSET {k \in Keys : task[k] = "sent"} : chunk' = chunk \cup late
      BY <1>5, Zenon DEF Restart
    <2>2. stray' = stray \cup {k \in Keys : task[k] \notin Idling} /\ UNCHANGED <<meta, writer>> /\ \A k \in Keys : task'[k] = "none"
      BY <1>5, Zenon DEF Restart, Idling, redis
    <2>3. \A k \in Keys : (Taken(k)' => Taken(k)) /\ (Unnamed(k)' <=> Unnamed(k)) /\ (Own(k)' <=> Own(k))
      BY <2>1, <2>2, Zenon DEF Taken, Unnamed, Own, Idling
    <2> QED BY <2>2, <2>3, StrayStays, Zenon
  <1> QED BY <1>1, <1>2, <1>3, <1>4, <1>5, Zenon DEF Step

-----------------------------------------------------------------------------
\* The invariant holds at the start.
LEMMA BInvInit == Init => BInv
  <1> SUFFICES ASSUME Init PROVE FilesInv /\ TasksInv /\ ChunksInv /\ StrayInv
    BY Zenon DEF BInv
  <1>1. FilesInv
    <2>1. -1 \in -1 .. MaxVersion
      BY BackgroundAssumption
    <2> QED BY <2>1, NoMetaType, IdleWriterType, Zenon DEF Init, FilesInv, WriterOK, CheckerLabels
  <1>2. \A f \in Names : Active(f) = {}
    BY Zenon DEF Init, Active, Idling
  <1>3. TasksInv
    <2>1. TasksTyped /\ QueueOK
      BY DEF Init, TasksTyped, QueueOK, IdleWorker, WorkerLabels, TaskStates, Idling
    <2>2. \A w \in Workers : WorkerOK(w)
      BY Zenon DEF Init, WorkerOK, Busy, IdleWorker
    <2>3. \A k \in Keys : SentOK(k)
      BY Zenon DEF Init, SentOK
    <2>4. \A f \in Names : CountOK(f)
      BY <1>2, FS_EmptySet, Zenon DEF Init, CountOK
    <2> QED BY <2>1, <2>2, <2>3, <2>4, Zenon DEF TasksInv
  <1>4. ChunksInv
    BY Zenon DEF Init, ChunksInv
  <1>5. StrayInv
    BY Zenon DEF Init, StrayInv, Taken, Idling
  <1> QED BY <1>1, <1>3, <1>4, <1>5, Zenon

\* Every step keeps the invariant.
LEMMA BInvNext == BInv /\ [Next]_vars => BInv'
  <1> SUFFICES ASSUME BInv, [Next]_vars, writeRedundancyInBackground' PROVE (FilesInv /\ TasksInv /\ ChunksInv /\ StrayInv)'
    BY Zenon DEF BInv
  <1>1. writeRedundancyInBackground /\ FilesInv /\ TasksInv /\ ChunksInv /\ StrayInv
    BY Zenon DEF BInv, Next, vars
  <1>2. CASE Step
    BY <1>1, <1>2, FilesNext, TasksNext, ChunksNext, StrayNext, Zenon
  <1>3. CASE UNCHANGED vars
    <2>1. FilesInv'
      BY <1>1, <1>3, FilesFrame, Zenon DEF vars, history
    <2>2. TasksInv'
      BY <1>1, <1>3, TasksFrame, Zenon DEF vars, tasks
    <2>3. ChunksInv'
      BY <1>1, <1>3, Zenon DEF vars, history, ChunksInv, Guarded, ByWriter, ByWorker
    <2>4. StrayInv'
      BY <1>1, <1>3, StrayStays, Zenon DEF vars, tasks, history, Taken, Unnamed, Own
    <2> QED BY <2>1, <2>2, <2>3, <2>4, Zenon
  <1> QED BY <1>2, <1>3, Zenon DEF Next

\* With redundancy written in the background, once the overwrites and the tasks of
\* a file are done every chunk of a replaced version that is left is a stray: its
\* delete request failed, its worker could not read that it was replaced, the task
\* check took it for failed, or its task outlived its write, its file or its proxy.
THEOREM ReplacedAlwaysRemoved == Spec => []ReplacedRemoved
  <1>1. BInv => ReplacedRemoved
    <2> SUFFICES ASSUME FilesInv, TasksInv, ChunksInv, NEW f \in Names, Quiet(f),
                        NEW k \in chunk, k[1] = f, k[2] < meta[f].ver
                 PROVE  k \in stray
      BY Zenon DEF BInv, ReplacedRemoved
    <2>1. Guarded(k) /\ ~ByWriter(k)
      BY Zenon DEF ChunksInv, ByWriter, Quiet
    <2>2. Active(f) = {}
      BY FS_EmptySet, Zenon DEF Quiet, TasksInv, CountOK
    <2>3. ~ByWorker(k)
      BY <2>2, WorkedOn, Zenon DEF ByWorker, Busy, Active
    <2> QED BY <2>1, <2>3, Zenon DEF Guarded
  <1> QED BY <1>1, BInvInit, BInvNext, PTL DEF Spec

\* A worker whose chunk could not be written leaves the metadata as they are, in
\* every state that can be reached: "update the metadata if there is any failures"
\* (bg_chunk_handler.cc:140) never comes to pass, since the File it passes to
\* updateChunks has no version and no file in the metadata store is without one.
THEOREM FailuresStayUnmarked ==
  Spec => [][writeRedundancyInBackground => \A w \in Workers : RunWorker(w) => UNCHANGED meta]_vars
  <1>1. BInv /\ [Next]_vars =>
          [writeRedundancyInBackground => \A w \in Workers : RunWorker(w) => UNCHANGED meta]_vars
    BY WorkerMeta, Zenon DEF BInv
  <1> QED BY <1>1, BInvInit, BInvNext, PTL DEF Spec

=============================================================================
