------------------------------ MODULE Background ------------------------------
(***************************************************************************)
(* Redundancy that is written, or acknowledged, in the background: the     *)
(* tasks of the chunk handler, its workers, the number of pending tasks in *)
(* Redis, and the thread that checks files on which tasks were left.       *)
(*                                                                         *)
(* A stripe has one chunk that is written in the background; those that    *)
(* are written before its file is acknowledged are left out.               *)
(***************************************************************************)
EXTENDS Integers, Sequences, FiniteSets

CONSTANTS
    Names,
    NumStripes,     \* bound on the stripes of a file
    Workers,        \* threads of the background chunk handler
    MaxVersion,     \* bound on the versions of a file
    MaxEvents       \* bound on deletions, restarts of the proxy, and calls that fail

ASSUME BackgroundAssumption ==
    /\ NumStripes \in Nat \ {0} /\ MaxVersion \in Nat /\ MaxEvents \in Nat

Stripes == 1 .. NumStripes
\* The chunk of a stripe, named after its file, version and stripe, and its task.
Keys == Names \X (0 .. MaxVersion) \X Stripes

\* The metadata of a file: its version, its number of stripes, and the stripes
\* whose chunk has a container id.
NoMeta == [ver |-> -1, numStripes |-> 0, named |-> {}]
NoTask == <<>>
\* A file that is not in the sorted set of files with pending tasks.
None == [in |-> FALSE, n |-> 0]

VARIABLES
    writeRedundancyInBackground,
    meta, lock,     \* metadata, and the names locked, in Redis
    pending,        \* name -> its entry in the set of pending tasks, in Redis
    chunk,          \* keys of the chunks in the containers
    queue,          \* tasks of the chunk handler
    fileTaskCount,  \* name -> tasks queued or worked on
    task,           \* key -> state of its task
    writer,         \* name -> the write under way
    worker,         \* the task of a worker
    checker,        \* the file of the task check, and the version in its File
    stray,          \* keys whose chunk nobody is going to remove any more
    events

vars == <<writeRedundancyInBackground, meta, lock, pending, chunk, queue, fileTaskCount, task, writer, worker,
          checker, stray, events>>
redis == <<meta, lock, pending>>
tasks == <<queue, fileTaskCount, task>>
history == <<stray, events>>

IdleWriter == [pc |-> "idle", ver |-> 0, s |-> 1, n |-> 0, old |-> NoMeta]
IdleWorker == [pc |-> "wait", key |-> NoTask]

Init ==
    /\ writeRedundancyInBackground \in BOOLEAN
    /\ meta = [f \in Names |-> NoMeta] /\ lock = {} /\ pending = [f \in Names |-> None]
    /\ chunk = {} /\ queue = <<>>
    /\ fileTaskCount = [f \in Names |-> 0] /\ task = [k \in Keys |-> "none"]
    /\ writer = [f \in Names |-> IdleWriter]
    /\ worker = [w \in Workers |-> IdleWorker]
    /\ checker \in [pc : {"idle"}, f : Names, ver : {-1}]
    /\ stray = {} /\ events = 0

Event == events < MaxEvents /\ events' = events + 1
NoEvent == UNCHANGED events

\* The chunks of f in version v.
KeysOf(f, v, ss) == {<<f, v, s>> : s \in ss}

\* Delete requests for the chunks in ks: those in bad are refused, sent to a
\* container that is down, or lost.
Remove(ks, bad) ==
    /\ IF bad = {} THEN NoEvent ELSE Event
    /\ chunk' = chunk \ (ks \ bad)

-----------------------------------------------------------------------------
(* updateFileStatus: the entry of a file in the sorted set.                *)

Increment(p) == [in |-> TRUE, n |-> p.n + 1]
Decrement(p) == IF p.n = 1 THEN None ELSE [in |-> TRUE, n |-> p.n - 1]

\* What updateFileStatus(*task.file) after addChunkTask does: a worker may have
\* set the status of the task's file, or freed it, in which case the status is
\* any value.
StatusSeen(f, k) ==
    CASE task[k] = "part" -> {Decrement(pending[f])}
      [] task[k] = "freed" -> {Increment(pending[f]), Decrement(pending[f]), None, pending[f]}
      [] OTHER -> {Increment(pending[f])}

\* The callers go on when Redis does not execute the command.
UpdateFileStatus(f, ps) ==
    \/ NoEvent /\ \E p \in ps : pending' = [pending EXCEPT ![f] = p]
    \/ Event /\ UNCHANGED pending

-----------------------------------------------------------------------------
(* A write: of its stripes and their tasks, the metadata, and the removal  *)
(* of the chunks that the replaced metadata names.                         *)

Goto(f, pc) == writer' = [writer EXCEPT ![f].pc = pc]
WriterKey(f) == <<f, writer[f].ver, writer[f].s>>
\* The chunks of the stripes up to n of the write.
Written(f, n) == KeysOf(f, writer[f].ver, 1 .. n)

\* The write of a file of n stripes.  If the metadata cannot be read, it takes the
\* file for a new one and starts at version 0 (FileStore has what this does to
\* the file).
WriteLock(f) ==
    /\ writer[f].pc = "idle" /\ f \notin lock
    /\ lock' = lock \cup {f}
    /\ \E n \in 0 .. NumStripes, seen \in {meta[f], NoMeta} :
          /\ seen.ver < MaxVersion
          /\ writer' = [writer EXCEPT ![f] = [pc |-> IF n = 0 THEN "putMeta" ELSE "stripe", ver |-> seen.ver + 1,
                                              s |-> 1, n |-> n, old |-> seen]]
          /\ IF seen = meta[f] THEN UNCHANGED <<stray, events>>
             ELSE Event /\ stray' = stray \cup {k \in Keys : k[1] = f}
    /\ UNCHANGED <<meta, pending, chunk, tasks, worker, checker>>

\* The bound on names leaves out a second task of the same name, of a file that
\* was deleted, or whose write failed, and that is written again while the first
\* one is not done.
addChunkTask(f) ==
    LET k == WriterKey(f) IN
    /\ writer[f].pc = "stripe"
    /\ task[k] \in {"none", "freed"}
    /\ queue' = Append(queue, k)
    /\ fileTaskCount' = [fileTaskCount EXCEPT ![f] = @ + 1]
    /\ task' = [task EXCEPT ![k] = IF writeRedundancyInBackground THEN "todo" ELSE "sent"]
    /\ Goto(f, "status")
    /\ UNCHANGED <<redis, chunk, worker, checker, history>>

AddStatus(f) ==
    /\ writer[f].pc = "status"
    /\ UpdateFileStatus(f, StatusSeen(f, WriterKey(f)))
    /\ IF writer[f].s = writer[f].n THEN Goto(f, "putMeta")
       ELSE writer' = [writer EXCEPT ![f].pc = "stripe", ![f].s = @ + 1]
    /\ UNCHANGED <<meta, lock, chunk, tasks, worker, checker, stray>>

\* A stripe cannot be written: there are not enough containers for it, or of the
\* requests of the stripe before, in the foreground, not enough succeeded.  Then the
\* chunks of that stripe are deleted, whereas its task stays, as do the other stripes.
WriteFails(f) ==
    LET w == writer[f]
        tasked == IF w.pc = "putMeta" THEN w.n ELSE w.s - 1 IN
    /\ w.pc \in {"stripe", "putMeta"} /\ w.n > 0 /\ Event
    /\ chunk' \in {chunk, chunk \ {<<f, w.ver, tasked>>}}
    /\ stray' = stray \cup Written(f, tasked)
    /\ Goto(f, "unlock")
    /\ UNCHANGED <<redis, tasks, worker, checker>>

\* From now on the metadata names the chunks of the version.
WritePutMeta(f) ==
    LET w == writer[f] IN
    /\ w.pc = "putMeta"
    /\ meta' = [meta EXCEPT ![f] = [ver |-> w.ver, numStripes |-> w.n, named |-> 1 .. w.n]]
    /\ stray' = stray \ Written(f, w.n)
    /\ Goto(f, "deleteOld")
    /\ UNCHANGED <<lock, pending, chunk, tasks, worker, checker, events>>

\* putMeta reports an error, before or after Redis executed the command.
WritePutMetaFails(f) ==
    LET w == writer[f] IN
    /\ w.pc = "putMeta" /\ Event
    /\ \/ UNCHANGED meta /\ stray' = stray \cup Written(f, w.n)
       \/ /\ meta' = [meta EXCEPT ![f] = [ver |-> w.ver, numStripes |-> w.n, named |-> 1 .. w.n]]
          /\ stray' = (stray \ Written(f, w.n)) \cup KeysOf(f, w.old.ver, w.old.named)
    /\ Goto(f, "unlock")
    /\ UNCHANGED <<lock, pending, chunk, tasks, worker, checker>>

\* The result of the delete requests is logged.
WriteDeleteOld(f) ==
    LET old == KeysOf(f, writer[f].old.ver, writer[f].old.named) IN
    /\ writer[f].pc = "deleteOld"
    /\ \E bad \in SUBSET old : Remove(old, bad) /\ stray' = stray \cup bad
    /\ Goto(f, "unlock")
    /\ UNCHANGED <<redis, tasks, worker, checker>>

WriteUnlock(f) ==
    /\ writer[f].pc = "unlock"
    /\ lock' = lock \ {f}
    /\ writer' = [writer EXCEPT ![f] = IdleWriter]
    /\ UNCHANGED <<meta, pending, chunk, tasks, worker, checker, history>>

\* A deletion, in one step: FileStore has its parts.  Tasks and the set of
\* pending tasks stay as they are.
DeleteFile(f) ==
    LET old == KeysOf(f, meta[f].ver, meta[f].named) IN
    /\ Event /\ f \notin lock /\ meta[f] # NoMeta
    /\ meta' = [meta EXCEPT ![f] = NoMeta]
    /\ \E bad \in SUBSET old :
          /\ chunk' = chunk \ (old \ bad)
          /\ stray' = stray \cup bad \cup {k \in Keys : k[1] = f /\ task[k] \notin {"none", "freed"}}
    /\ UNCHANGED <<lock, pending, tasks, writer, worker, checker>>

-----------------------------------------------------------------------------
(* runWorker                                                               *)

WorkerGoto(w, pc) == worker' = [worker EXCEPT ![w].pc = pc]

Take(w) ==
    /\ worker[w].pc = "wait" /\ queue # <<>>
    /\ queue' = Tail(queue)
    /\ worker' = [worker EXCEPT ![w] = [pc |-> IF writeRedundancyInBackground THEN "check" ELSE "join", key |-> Head(queue)]]
    /\ UNCHANGED <<redis, chunk, fileTaskCount, task, writer, checker, history>>

\* What getMeta tells a worker of the version of a file: -1 if there is none, and
\* if the metadata cannot be read.
VersionSeen(f, v) ==
    \/ NoEvent /\ v = meta[f].ver
    \/ Event /\ v = -1

\* Mutant: a task of a replaced version is dropped on the spot.
CheckBeforeDropped(w) ==
    LET k == worker[w].key IN
    /\ worker[w].pc = "check"
    /\ \E v \in {meta[k[1]].ver, -1} :
          /\ VersionSeen(k[1], v)
          /\ IF v > k[2]
             THEN worker' = [worker EXCEPT ![w] = IdleWorker] /\ task' = [task EXCEPT ![k] = "freed"]
             ELSE WorkerGoto(w, "join") /\ task' = [task EXCEPT ![k] = "sent"]
    /\ UNCHANGED <<redis, chunk, queue, fileTaskCount, writer, checker, stray>>

\* Chunks of a version that was replaced are not written.
CheckBefore(w) ==
    LET k == worker[w].key IN
    /\ worker[w].pc = "check"
    /\ \E v \in {meta[k[1]].ver, -1} :
          /\ VersionSeen(k[1], v)
          /\ IF v > k[2] THEN WorkerGoto(w, "done") /\ UNCHANGED task
             ELSE WorkerGoto(w, "join") /\ task' = [task EXCEPT ![k] = "sent"]
    /\ UNCHANGED <<redis, chunk, queue, fileTaskCount, writer, checker, stray>>

\* The agent executes the request, or not, or its reply does not arrive.
PutChunk(k) ==
    /\ task[k] = "sent"
    /\ task' = [task EXCEPT ![k] = "ok"]
    /\ chunk' = chunk \cup {k}
    /\ UNCHANGED <<redis, queue, fileTaskCount, writer, worker, checker, history>>

PutChunkFails(k) ==
    /\ task[k] = "sent" /\ Event
    /\ task' = [task EXCEPT ![k] = "failed"]
    /\ chunk' \in {chunk, chunk \cup {k}}
    /\ UNCHANGED <<redis, queue, fileTaskCount, writer, worker, checker, stray>>

Join(w) ==
    /\ worker[w].pc = "join" /\ task[worker[w].key] \in {"ok", "failed"}
    /\ WorkerGoto(w, IF writeRedundancyInBackground THEN "checkAgain" ELSE "mark")
    /\ UNCHANGED <<redis, chunk, tasks, writer, checker, history>>

\* Mutant: the version is looked at before the chunk is written only.
CheckAfterNone(w) ==
    /\ worker[w].pc = "checkAgain"
    /\ WorkerGoto(w, "mark")
    /\ UNCHANGED <<redis, chunk, tasks, writer, checker, history>>

\* The chunk is deleted again if its version was replaced in the meantime.  If the
\* metadata cannot be read, a replaced version is taken for a current one.
CheckAfter(w) ==
    LET k == worker[w].key IN
    /\ worker[w].pc = "checkAgain"
    /\ \E v \in {meta[k[1]].ver, -1} :
          /\ VersionSeen(k[1], v)
          /\ WorkerGoto(w, IF v > k[2] THEN "revert" ELSE "mark")
          /\ stray' = stray \cup (IF v <= k[2] /\ k[2] < meta[k[1]].ver THEN {k} ELSE {})
    /\ UNCHANGED <<redis, chunk, tasks, writer, checker>>

\* Nobody looks at the result of the delete request.
RevertTask(w) ==
    LET k == worker[w].key IN
    /\ worker[w].pc = "revert"
    /\ \E bad \in SUBSET {k} : Remove({k}, bad) /\ stray' = stray \cup bad
    /\ WorkerGoto(w, "done")
    /\ UNCHANGED <<redis, tasks, writer, checker>>

\* updateChunks: the stripes in ss lose their container ids if the file has the
\* version of the caller's File.
updateChunks(f, version, ss) ==
    IF meta[f] # NoMeta /\ meta[f].ver = version THEN [meta EXCEPT ![f].named = @ \ ss] ELSE meta

\* The File of the worker has a copy of name and size, and no version (-1).
MarkFailed(w) ==
    LET k == worker[w].key IN
    /\ worker[w].pc = "mark"
    /\ meta' = IF task[k] = "failed" THEN updateChunks(k[1], -1, {k[3]}) ELSE meta
    /\ WorkerGoto(w, "done")
    /\ UNCHANGED <<lock, pending, chunk, tasks, writer, checker, history>>

SetStatus(w) ==
    /\ worker[w].pc = "done"
    /\ task' = [task EXCEPT ![worker[w].key] = "part"]
    /\ WorkerGoto(w, "status")
    /\ UNCHANGED <<redis, chunk, queue, fileTaskCount, writer, checker, history>>

PartStatus(w) ==
    LET f == worker[w].key[1] IN
    /\ worker[w].pc = "status"
    /\ UpdateFileStatus(f, {Decrement(pending[f])})
    /\ WorkerGoto(w, "free")
    /\ UNCHANGED <<meta, lock, chunk, tasks, writer, checker, stray>>

Free(w) ==
    LET k == worker[w].key IN
    /\ worker[w].pc = "free"
    /\ fileTaskCount' = [fileTaskCount EXCEPT ![k[1]] = @ - 1]
    /\ task' = [task EXCEPT ![k] = "freed"]
    /\ worker' = [worker EXCEPT ![w] = IdleWorker]
    /\ UNCHANGED <<redis, chunk, queue, writer, checker, history>>

RunWorker(w) ==
    \/ Take(w) \/ CheckBefore(w) \/ Join(w) \/ CheckAfter(w) \/ RevertTask(w)
    \/ MarkFailed(w) \/ SetStatus(w) \/ PartStatus(w) \/ Free(w)

-----------------------------------------------------------------------------
(* backgroundTaskCheck: a file in the set of pending tasks that has none.  *)

CheckerGoto(pc) == checker' = [checker EXCEPT !.pc = pc]

\* Out of the loop, to the next interval and to a new File.
CheckerBreak == checker' = [checker EXCEPT !.pc = "idle", !.ver = -1]

\* The File of the loop keeps its version when it gets the name of the next file.
NextFile ==
    /\ checker.pc = "idle"
    /\ \E f \in Names : pending[f].in /\ checker' = [checker EXCEPT !.pc = "exists", !.f = f]
    /\ UNCHANGED <<redis, chunk, tasks, writer, worker, history>>

NoNextFile ==
    /\ checker.pc = "idle" /\ checker.ver # -1
    /\ IF \E f \in Names : pending[f].in THEN Event ELSE NoEvent
    /\ CheckerBreak
    /\ UNCHANGED <<redis, chunk, tasks, writer, worker, stray>>

TaskExists ==
    /\ checker.pc = "exists"
    /\ IF fileTaskCount[checker.f] > 0 THEN CheckerBreak ELSE CheckerGoto("lock")
    /\ UNCHANGED <<redis, chunk, tasks, writer, worker, history>>

CheckLock ==
    /\ checker.pc = "lock"
    /\ IF checker.f \in lock THEN CheckerBreak /\ UNCHANGED lock
       ELSE CheckerGoto("get") /\ lock' = lock \cup {checker.f}
    /\ UNCHANGED <<meta, pending, chunk, tasks, writer, worker, history>>

\* A File with a version that is not the stored one asks for the metadata of an
\* earlier version, of which none is kept.
CheckGetMeta ==
    LET m == meta[checker.f] IN
    /\ checker.pc = "get"
    /\ m # NoMeta /\ checker.ver \in {-1, m.ver}
    /\ checker' = [checker EXCEPT !.pc = IF m.numStripes > 0 THEN "chunks" ELSE "reset", !.ver = m.ver]
    /\ UNCHANGED <<redis, chunk, tasks, writer, worker, history>>

\* The lock of a file without metadata, or without stripes, is not released.
CheckGetMetaFails ==
    LET m == meta[checker.f] IN
    /\ checker.pc = "get"
    /\ IF m = NoMeta \/ checker.ver \notin {-1, m.ver} THEN NoEvent ELSE Event
    /\ CheckerGoto("reset")
    /\ UNCHANGED <<redis, chunk, tasks, writer, worker, stray>>

\* Chunks that are not in their containers, or in containers that do not answer,
\* lose their container ids, if Redis executes the command.
CheckChunks ==
    LET f == checker.f
        absent == {s \in meta[f].named : <<f, meta[f].ver, s>> \notin chunk} IN
    /\ checker.pc = "chunks"
    /\ \E bad \in SUBSET meta[f].named, done \in BOOLEAN :
          /\ absent \subseteq bad
          /\ IF bad = absent /\ done THEN NoEvent ELSE Event
          /\ meta' = IF done THEN updateChunks(f, meta[f].ver, bad) ELSE meta
          /\ stray' = IF done THEN stray \cup KeysOf(f, meta[f].ver, bad) ELSE stray
    /\ CheckerGoto("unlock")
    /\ UNCHANGED <<lock, pending, chunk, tasks, writer, worker>>

CheckUnlock ==
    /\ checker.pc = "unlock"
    /\ lock' = lock \ {checker.f}
    /\ CheckerGoto("reset")
    /\ UNCHANGED <<meta, pending, chunk, tasks, writer, worker, history>>

\* Mutant: only a file whose count is back at zero is taken out of the set.
ResetPendingZero ==
    /\ checker.pc = "reset"
    /\ UpdateFileStatus(checker.f, {IF pending[checker.f].n = 0 THEN None ELSE pending[checker.f]})
    /\ CheckerGoto("idle")
    /\ UNCHANGED <<meta, lock, chunk, tasks, writer, worker, stray>>

ResetPending ==
    /\ checker.pc = "reset"
    /\ UpdateFileStatus(checker.f, {None})
    /\ CheckerGoto("idle")
    /\ UNCHANGED <<meta, lock, chunk, tasks, writer, worker, stray>>

TaskCheck ==
    \/ NextFile \/ NoNextFile \/ TaskExists \/ CheckLock \/ CheckGetMeta \/ CheckGetMetaFails
    \/ CheckChunks \/ CheckUnlock \/ ResetPending

-----------------------------------------------------------------------------
\* The proxy dies while no lock is held (FileStore has the others) and is started
\* again.  Tasks are lost; a request that was sent may still be executed.
Restart ==
    /\ Event /\ lock = {}
    /\ queue' = <<>> /\ fileTaskCount' = [f \in Names |-> 0]
    /\ task' = [k \in Keys |-> "none"]
    /\ stray' = stray \cup {k \in Keys : task[k] \notin {"none", "freed"}}
    /\ \E late \in SUBSET {k \in Keys : task[k] = "sent"} : chunk' = chunk \cup late
    /\ worker' = [w \in Workers |-> IdleWorker]
    /\ CheckerBreak
    /\ UNCHANGED <<redis, writer>>

Write(f) ==
    \/ addChunkTask(f) \/ AddStatus(f) \/ WriteFails(f)
    \/ WritePutMeta(f) \/ WritePutMetaFails(f) \/ WriteDeleteOld(f) \/ WriteUnlock(f)

Step ==
    \/ \E f \in Names : WriteLock(f) \/ Write(f) \/ DeleteFile(f)
    \/ \E k \in Keys : PutChunk(k) \/ PutChunkFails(k)
    \/ \E w \in Workers : RunWorker(w)
    \/ TaskCheck
    \/ Restart

Next == Step /\ UNCHANGED writeRedundancyInBackground

Spec == Init /\ [][Next]_vars

\* Threads are scheduled, and chunk requests return or time out.  The scan of the
\* task check comes to every file: its thread runs at every interval.
FairSpec ==
    /\ Spec
    /\ \A f \in Names : WF_vars(Write(f) /\ UNCHANGED writeRedundancyInBackground)
    /\ \A w \in Workers : WF_vars(RunWorker(w) /\ UNCHANGED writeRedundancyInBackground)
    /\ \A k \in Keys : WF_vars(PutChunk(k) /\ UNCHANGED writeRedundancyInBackground)
    /\ WF_vars(TaskCheck /\ UNCHANGED writeRedundancyInBackground)

-----------------------------------------------------------------------------
(* Properties.                                                             *)

Quiet(f) == writer[f].pc = "idle" /\ fileTaskCount[f] = 0

\* With redundancy written in the background, overwrites and tasks race for the
\* chunks of the replaced version: the version checks around the write of a task
\* and the removal by the overwrite leave none behind once both are done.  The
\* chunks in stray are excepted, for which the code has nobody left: those whose
\* delete request failed, whose worker could not read that they were replaced, that
\* the task check took for failed, and those whose task outlived its write (which
\* failed), its file (which was deleted) or its proxy.  A write that names the chunk
\* again ends the exception.
ReplacedRemoved ==
    writeRedundancyInBackground =>
        \A f \in Names : Quiet(f) => \A k \in chunk : k[1] = f /\ k[2] < meta[f].ver => k \in stray

\* Tasks are done or skipped, and the files they belong to do not count as busy
\* for ever.
TasksDone == \A f \in Names : fileTaskCount[f] > 0 ~> fileTaskCount[f] = 0

LeftLocked(f) == f \in lock /\ writer[f].pc = "idle" /\ checker.pc \in {"idle", "exists", "lock", "reset"}

\* However increments and decrements of the pending tasks cross, and after a
\* restart that lost the tasks, no file stays in the set of files to check, unless
\* an earlier check has left it locked: CheckGetMetaFails, an empty file.
PendingCleared == \A f \in Names : pending[f].in ~> (~pending[f].in \/ LeftLocked(f))

=============================================================================
