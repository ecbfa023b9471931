# Nexoedge in TLA+

Nexoedge stores files in several clouds at once. A *proxy* splits each file
into stripes, encodes each stripe into `n` chunks any `k` of which restore it,
and sends the chunks to *agents*, which keep them in *containers* (a directory,
an S3 bucket, ...). Everything the proxy knows about a file is in a Redis
*metadata store*, which several proxies may share. This directory models the
program under `src/src`, checks the models with TLC and proves theorems about
them with TLAPS.

## The system and its models

State that outlives a request is in three places:

* **Redis**: per file a hash with version, size, coding, and the container of
  every chunk; the set of locked names; the files to repair, with pending
  background tasks, and to be written back; immutable policies.
* **Containers**: chunks, named by file, version and chunk id.
* **The staging directory** of a proxy, if there is one.

| part | source | modules | what makes it hard |
|---|---|---|---|
| file operations, chunk manager, metadata store, background repair | `proxy/proxy_file_ops.cc`, `chunk_manager.cc`, `metastore/redis_metastore.cc`, `proxy.cc` | `FileStore`, `FileMove` | each operation is a sequence of Redis commands and chunk requests, any of which may fail; locks are taken and released by hand; reads take none |
| agents and containers | `agent/`, `common/io.cc` | `Agents`, `ChunkContainers` | requests half done, undone, given up and executed late; agents that wait for agents |
| proxy coordinator | `proxy/coordinator.cc`, `agent/coordinator.cc` | `Coordinator`, `Placement` | registrations, pings and late answers cross; cached liveness; limits per agent |
| background writes | `proxy/bg_chunk_handler.cc`, `proxy.cc` | `Background` | tasks that outlive the write that made them |
| staging | `proxy/staging`, `proxy.cc` | `Staging` | write-back races with new writes and with the cleaner |
| immutable policies and their API | `proxy/immutable`, `ds/immutable_policy.cc`, `proxy/interfaces/immutable_management_apis.cc` | `Immutable` | a clock; checks before the lock; policies that move with their file |
| client interface | `proxy/interfaces/zmq.cc`, `client/c/zmq_interface.c` | `Wire`, `Gateway` | messages of several parts whose number depends on the request; timeouts |

`FileService`, `MoveService` and `RemoteCalls` are abstract specifications:
what clients are promised of files, of renames and copies, and of calls.
Modules named `MC...` instantiate the others for TLC, modules named `...Proofs`
hold the proofs. Definitions named as mutants are plausible mistakes in the
definition after them; each property is known to fail with one of them.
`PROJECT.json` maps every definition to its lines of code, lists each part with
its status, and under `hazards` the lines where something can go wrong that a
test would hardly reach.

The modules meet where one part uses another. `FileMove` extends `FileStore`;
`Agents` is built on the containers, `Placement` on the coordinator, `Gateway`
on the message format. Elsewhere a module has the part below as what it may do:
`FileStore` sees containers that lose requests and replies, and any choice of
spare containers that are all different (`Placement` shows where this is so: not
for repairs with the least-used policy); `Gateway`, `Staging` and `Immutable`
take file operations, or their chunks, as one step.

## How the modules correspond to the code

### FileStore

The configuration is that of `sample/proxy.ini`: overwriting (no versions
kept), no staging, no deduplication, requests in the foreground. A file has one
stripe with one chunk per container.

`fileLock`, `meta`, `stubs` and `repairQ` are Redis; `store` is what the
containers hold; `pc`, `file`, `of`, `wf`, `todo`, `got` and `batch` are the
local state of the threads, named after the variables of the code where it has
them. One step is one Redis operation or one round of chunk requests, so that
other threads, and the death of the proxy, come between any two of them. Reads
ask for the chunks one by one, since other threads may change them in between.

A chunk is abstracted to the payload it was made from. A set of chunks decodes
to a payload if all of them hold it, and to `Garbage` otherwise. Metadata
carries the payload that its size and checksums stand for.

What may fail:

* A container in `Flaky` may be found dead, and a request to it may be
  dropped, executed without a reply, or answered (`Alive`, `Acked`). The
  liveness cache makes these independent: a dead container may be found alive.
* `"putMeta"` in `Faults`: storing, deleting or renaming metadata reports an
  error before or after it took effect.
* `"getMeta"`: reading metadata fails. `getMeta` returns false, as it does for
  a file that does not exist.
* `"crash"`: all threads start anew, Redis and the containers stay.

The commands that lock and unlock a file are taken to be executed and
answered. If the reply to a lock command is lost, `lockFile` reports a failure
for a lock that it holds, and nobody releases it.

A thread that finds a file locked in all its attempts returns without having
changed anything, so that this is no step for writes and deletes. For repairs
it is one (`RepairBusy`), since the rest of the batch is dropped.

### FileMove

`dst` and `df` are the second file of a rename or copy and its metadata. The
rename marks the source as repaired, locks it, looks up the destination and
deletes it with the code of `deleteFile` (the `Nested` actions, which take and
release the lock of the destination), locks the destination, moves the chunks,
renames the metadata, and moves the chunks back if that failed. `Modified` is
`fullFileModify`, one round of copy or move requests with its clean-up.

### ChunkContainers and Agents

A container operation of `ChunkContainers` is a set of outcomes: what it leaves
of the chunk, what it returns, and the version it reports. The four container
types keep earlier versions differently: the file system container renames the
old file to one with the time, S3 keeps versions, Azure takes snapshots, Alibaba
keeps none. `okay` are the outcomes of storage that works, `fail` those of
storage that fails at any of the calls the operation makes, with a result that
says so or, where the code ignores the failed call, with success: a chunk in a
directory that was cut short when its buffer was written is noticed only if
`verifyChunkChecksum` is configured (both values are checked). Azure copies in
its own time: a blob may be `Copying`, without content, until `FinishCopy`. A
request for a copy or move has the checksum of the source and none of the new
chunk, against which a directory verifies it.

In `Agents` a worker takes a request from its agent's queue and executes it
chunk by chunk, one container operation per step, in the order and with the undo
of `ContainerManager`. A repair sends requests for its input chunks to other
agents, waits, encodes, stores its results through further requests, and deletes
them again if one could not be sent. The sender of a request gives up after a
timeout, and the request stays in the queue. Agents die with the requests they
execute and start again; the clock moves the names of old files and their
clean-up. Each behaviour has one batch of requests of the proxy (`Batches`):
two repairs across two agents, a move and a copy, a rename to a name that is
free or taken, overwrites and their reverts for one container type, or checks
and deletes.

### Coordinator and Placement

`map` and `listed` are the two structures that say which agent has which
container: `_containerToAgentMap` and the arrays in `AgentInfo`. Registration,
ping and status update hold `_agentsLock` from end to end and are one step each.
An agent's monitor registers again on a new connection. `sock` is the request
socket of the proxy to an agent, which an unanswered request makes unusable.

`Placement` adds the callers: a write or a repair checks liveness, updating the
agents if the cache has expired, and selects containers by policy, turn by turn
over agents and containers as `findSpareContainers` does, with the indices it
keeps between calls. Agents come and go between any two of these steps. The
policy is one of round-robin, static and least-used.

### Background

A write hands a task per stripe to the chunk handler and returns. A worker
compares versions, writes the chunk (or waits for a request that was sent
before), compares again, marks failed chunks and updates the number of pending
tasks. The task check goes through the files with pending tasks, locks them and
looks for the chunks itself. `writeRedundancyInBackground` is whether chunks are
written or only acknowledged in the background. A restart of the proxy loses the
tasks; it happens where no lock is held, since a lock would stay for ever. The
time in `tctime` is left out.

Any call may fail, and the model goes on as the code does: the result of a
delete request is logged or not looked at; a worker that cannot read the
metadata takes the version for -1, and so for a current one; a write whose
stripe or metadata fails leaves its tasks behind. `stray` has the chunks that
nobody is left to remove after that. The `File` of the task check keeps its
version from one file to the next (`checker.ver`), and a version that is not the
stored one finds no metadata.

### Staging

The configuration (`mode`) says whether the cleaner runs, whether the directory
can be written, which requests come and what fails. The write-back thread takes
a file from the pending list, checks that it is not recent, locks it, reads the
staged copy, writes the cloud copy and the metadata, and unpins the file. The
chunks in the cloud are one content in the metadata.

`size` and `ssize` are the size of the staged copy and the one in the metadata,
by which the write-back and the read of a whole file go. The metadata that a
write-back stores has none. An overwrite is taken to stay within the file, an
append to start at its end. Failures to pin, list or fill the staged copy, whose
results the code ignores or cannot see, and failures to store metadata after the
staged copy was changed, put the file into `unhandled`.

### Immutable

A policy has a start, a number of days and a renewal flag. The clock counts half
days, so that the instant a period ends and the time after it are different. The
store's scripts are atomic, as Redis runs them. A file operation looks up the
policies it respects one by one before it locks the file, and removes or moves
policies after it has unlocked it. `held` records the policies that were valid
ever since the operation began. `Forbidding` is the manual's table of what
forbids which operation, `Checks` what the code looks up.

### Wire and Gateway

`Wire` has, for every operation code, the parts the client sends and the server
expects, and the parts the server sends and the client expects; a part carries
what the sender meant, its value, and whether another was announced. `Gateway`
runs them: clients and workers go strictly by turns on their sockets, the
dispatcher hands requests to workers, messages get lost, clients time out and
connect again, and the interface stops. The proxy behind it does not stage files
(`sample/proxy.ini`): the size of a staged file may be no size at all, and a
reply of that size cannot be sent. The reply to a read of an empty file has the
length asked for and a buffer of one byte: its data are anything, and a crash is
a `Stop`.

## Runs

Passing runs:

| run | what it shows | instance |
|---|---|---|
| `FilesFaults` | `TypeOK`; `Exclusive`, one thread in the locked part of a file; `Durable`, the metadata names enough chunks that are there; `VersionsGrow`, no lost update; `ServiceSpec`, `FileStore` implements `FileService`; with all failures but `"getMeta"` | 1 worker, 1 repairer, n=2, k=1, 2 flaky containers |
| `FilesReads` | `ReadsConsistent`, unlocked reads beside writes and repairs; `NoLeakedLock`; `NoOrphans`, nothing is left behind; without failures and deletes | 2 workers, 1 repairer, n=3, k=2 |
| `MoveClean` | `MoveServiceSpec`, renames and copies are atomic; `SettledDurable`, files that are not locked have their own chunks; the proxy may die | 1 worker, 1 repairer, 2 files, n=k=2 |
| `MoveLocks` | `LocksHeld`, each lock belongs to one thread; `OperationsEnd`, crossing renames and copies return | 2 workers, 2 files, n=k=1, a flaky container |
| `AgentRequests` | `AckedStored`, what is acknowledged is stored; `MovedNotLost`; `RevertRestores`; `WorkersFree`, agents that wait for each other become free | 2 agents, 4 containers of 4 types, all flaky, with and without verification |
| `Placement` | `RoutesMatch`, `NoTakeover`, `LiveAgentsKept`, `DeadNoticed` of the coordinator; `SpareDistinct`, `NewStripeSurvives` of what is selected | 2 agents, 6 containers of which both are configured with one, n=4, k=1, f=1, 3 policies |
| `Background` | `ReplacedRemoved`, no chunk of a replaced version stays that somebody is left to remove; `TasksDone`; `PendingCleared`, files leave the set of pending tasks | 1 worker, 1 file of at most 1 stripe, 2 versions |
| `Staging` | `ReadsCurrent`, reads pick the current copy; `StagedKept`, the only copy is kept, pinned and listed; `WrittenBack` | 1 file, 1 request at a time, write-back thread, cleaner |
| `Immutable` | `HoldsEnforced`, operations past their checks meet no policy that held all along; `NeverShortened`; `HoldsFollow`, policies follow a rename | 2 files, 1 operation, 2 policy changes, 3 days |
| `Gateway` | `WorkersServe` and `ConnectionsUsable`, both sides agree on the parts of every message; `CallSpec`, at most one execution per call and its own result; `RequestsAnswered` | 2 clients, 2 workers, every request of the library |

Runs that find a disagreement between the code and what the repository says of
it (`findings` in `PROJECT.json` quotes both):

| run | what happens |
|---|---|
| `MoveRace` | a write of the destination between the look-up and the lock of a rename is lost, with no failure at all |
| `ImmutableRename` | a file on deletion hold is renamed: the check does not look at this hold, which the manual names |

What the properties except, because the code does not do it:

* `ReplacedRemoved` excepts the chunks in `stray`: those whose delete request
  failed, whose worker could not read that they were replaced, that the task
  check took for failed, and those whose task outlived its write (which failed),
  its file (which was deleted) or its proxy. `PendingCleared` excepts a file that
  the task check has left locked, since it is deleted or empty or its metadata
  could not be read.
* `AckedStored`, `MovedNotLost` and `RevertRestores` are about requests whose
  chunks no given-up request is still going to change. Without verification
  `AckedStored` excepts chunks that a directory cut short unnoticed and blobs
  that Azure has not finished copying (`Unseen`), and `MovedNotLost` excepts
  Azure, where the source is deleted all the same. `MovedNotLost` is about moves
  to a name that was free (`Free`), and a revert in Azure may still be copying.
* `SpareDistinct` excepts repairs with the least-used policy: a container at hand
  is stepped over by its place and not in the order of use, and the one after it
  may come up twice.
* `ReadsCurrent` and `StagedKept` except files in `unhandled`, `ReadsCurrent` also
  the read of a whole file whose staged copy has no size in the metadata
  (`ReadsNothing`), which succeeds without data. The run reaches both.
* `HoldsEnforced` excepts the deletion hold of a renamed file (`Overlooked`),
  which `ImmutableRename` is about.
* `WrittenBack` is about files that are written as a whole: a change in place
  to a file that is already on its way is not written back.
* `NoOrphans` and `ReadsConsistent` are checked without deletes and failures
  (what is proved of them goes further, see below),
  `SettledDurable` and `MoveServiceSpec` without failures other than crashes. A
  file that a dead proxy left locked is out of `SettledDurable`, and
  `MoveServiceSpec` takes it for what its metadata stands for.
* `NeverShortened` leaves out policies with renewal, whose end moves.

### Bounds

* `MaxVersion` bounds the versions. One overwrite (two versions) is enough for
  old and new chunks to coexist; a delete makes the next write start at 0, so
  that behaviours stay unbounded in length. `MoveLocks` has version 0 only:
  there the question is about locks and names.
* `MaxLeft` bounds the chunks that failed operations left behind, as a state
  constraint (`FewLeft`, `MFewLeft`). What is left behind is never read unless a
  later write reuses its name, for which one such chunk is enough. It is 0 in
  `FilesReads`, where nothing fails, and in `MoveLocks`, where the behaviours
  that are followed for `OperationsEnd` are those that leave no chunk behind
  once a file is unlocked. In `MoveLocks` metadata requests do not fail: a
  failed metadata request leads to the same unlocking steps as a round of chunk
  requests that fails.
* `MaxFaults`, `MaxEvents`: faults come at any point, but one (two in
  `Placement`) in each behaviour. `MaxTime`, `MaxWrites`, `MaxOps`,
  `MaxChanges`, `MaxRequests` end the behaviours of the modules with clocks and
  counters; they leave room for a policy to begin, end and be replaced, a file to
  be staged, written back and changed again, and a request after a timeout.
* Two payloads tell old from new. One name is enough where files do not
  interact, two for renames and copies. In `Background` files meet in the `File`
  of the task check: with one name its version is carried over from an earlier
  look at the same file only. The proof of `ReplacedRemoved` has any number of
  names and workers.
* The stripe that is repaired in `Placement` has two containers at each agent,
  and a limit of three containers for each: with less the least-used policy never
  comes to a container twice, and its exception would not be needed.
* `batchSize` is 1: the runs have one name, or renames that mark one file at a
  time. The proofs hold for every batch size.
* Containers, workers, payloads and files are symmetric where a run says so; no
  run of a liveness property uses symmetry.
* Deadlock is not checked where the system may stop: after a crash locks stay
  in Redis for ever, and bounds on requests and versions end the behaviours.

### Fairness

Requests, failures, restarts and deletes are never assumed to happen.

* `MFairSpec`: each thread's next step once an operation has begun. The threads
  are scheduled, Redis commands return, chunk requests have a timeout, and
  `lockFile` gives up after a number of attempts, so no step waits for another
  thread.
* `Agents`: the workers' steps and the timeouts of requests that agents send
  (`ZMQ_RCVTIMEO` in `common/io.cc`).
* `PlaceFairSpec`: the coordinator registers preset agents when it starts, and
  updates agents, as every scan has it do. Registrations and pings are not
  relied on.
* `Background`: writes, workers, chunk requests and the task check, which runs
  at every interval and whose scan comes to every file.
* `Staging`: requests, the scan, the write-back thread, and the clock.
* `Gateway`: the dispatcher, the workers, and a client that has a reply.
  Timeouts are not relied on.

## Proofs

The theorems hold for all sets of names, threads, containers and agents, all
`n`, `k` and bounds, and all choices of failures except where stated.

* **`TypeCorrect`**, **`LocksExclude`** (`FileStoreProofs`): the inductive
  invariant is `LockInv` = `TypeOK`, `Exclusive` and `Places`. `Places` says
  what a thread has at hand at each point: it names a file where it holds a
  lock, a write below the version bound stays below it because the lock keeps
  the metadata still, a repair has metadata of an existing file. No assumption
  on failures: exclusion survives crashes since a crash keeps the locks.
* **`LocksReleased`** (assumes `"crash" \notin Faults`): each step either
  moves a lock to its thread or drops the lock with it.
* **`FilesDurable`** (`FileStoreProofs`, assumes `"getMeta" \notin Faults`):
  `DataInv` adds to `Durable` what each thread knows while it holds the lock
  (`Duties`): its copy is the stored metadata, the version it writes is the
  next one, the chunks of what it is about to store are there, and what it is
  about to delete is not what the metadata names. Chunks it puts or deletes
  are then of a version the metadata does not name; a repair puts what the
  chunks it read decode to, the payload of that very version. Without the
  assumption the theorem is false: an overwrite whose `getMeta` fails starts at
  version 0 again.
* **`NoLostUpdate`**, **`Refinement`** (`FileStoreProofs`, same assumption):
  from `LockInv` and `DataInv`, `VersionsGrow` holds of every step, and every
  step changes what at most one file decodes to, from a payload to another as
  a write or delete of `FileService` does.
* **`ReadsOnePayload`** (`FileStoreProofs`, assumes `verifyChunkChecksum`, or
  `"delete" \notin Ops` and `"getMeta" \notin Faults`): a read holds no lock, so
  its metadata may be replaced while it gets chunks. `ReadInv` says that the
  chunks it has are of the payload of its metadata and, in the second case, that
  those it is still going to ask for are of that payload or gone (`ReadsOwn`).
  The latter is kept because whatever is stored goes under the next version or
  restores a chunk of the current one (`StoresInOrder`, from `DataInv`). It is
  lost when versions start over, after a delete or a write whose `getMeta`
  failed; then only the checksums tell the payloads apart.
* **`NothingLeftBehind`** (`FileStoreProofs`, assumes `Flaky = {}` and
  `Faults = {}`): `OrphanInv` says that every chunk is named by the metadata of
  its file, or by what the thread that holds the lock is going to store as
  metadata, or by what it is going to delete (`Claimed`, `InCare`), and what
  that thread has to know for it (`Owed`). With failures it is not claimed: a
  write whose metadata update fails, or a delete of a chunk that is refused,
  leaves chunks that no metadata names.
* **`MoveLocksHeld`** (`FileMoveProofs`, assumes `"crash" \notin Faults`): a
  thread may hold two locks, and a third comes and goes with the delete that a
  rename calls. `MLockInv` is the `LockInv` of `FileMove`: two threads never
  hold one name, whichever of their two names it is (`MExclusive`), and
  `MPlaces` says what a thread has at hand. `LocksHeld` needs, besides, that
  every way out releases what was taken. No assumption on requests that fail or
  on how many renames cross.
* **`MovesSettle`**, **`MovesRefine`** (`MoveServiceProofs`): assume `OneRequest`, that is one client request at a
  time, containers that answer and Redis commands that report no error, beside
  any number of repairs, deaths of the proxy, names, chunks and versions.
  `MDataInv` says that the chunks the metadata names are there for every file
  that is not on the move (`Settled`), and for each step of an operation what
  its thread knows (`MDuties`): after the move the chunks are under the names of
  the destination, and the metadata of the source is still what it was. In the
  refinement mapping a file whose chunks are on the way, or were when the proxy
  died, is taken for the payload of its metadata; the lemma `TakenForPayload`
  says that the others decode to it as well, so that steps of the file service
  are the steps that change metadata. The hypothesis is what the code needs:
  with two requests the run `MoveRace` finds a destination that is written after
  it was looked up, and a rename whose requests fail half-way leaves metadata
  behind the chunks.
* **`HoldsAlways`**, **`PoliciesLast`**, **`PoliciesFollow`**
  (`ImmutableProofs`): no assumption beside the types of the constants. The
  inductive invariant `IInv` says that a policy that was valid ever since the
  operation began and forbids it is among those still to be looked up, unless a
  lookup failed (`Cleared`), and that such policies are valid now (`HeldValid`).
  What forbids an operation is what the manual says, without the one hold that
  the code overlooks (`Barring`).
  For `NeverShortened` each of setting, extending and renewing is shown to leave
  a policy that ends no earlier (`Lasts`).
* **`ReadsStayCurrent`**, **`StagedStayKept`** (`StagingProofs`, assume
  `Orderly`): `Safe` says of one file that its current content is in the cloud,
  or is in the staged copy, which is the one that reads use and is pinned and
  listed. `SInv` says that it holds of every file that no request works on,
  and for each step of a request what the request owes until it is over
  (`Duty`): between truncating and filling the staged copy, for example, the
  file is locked and the copy pinned. Contents that are current are a set,
  since a request that failed or was cut off may have left either content; so
  `Safe` is stated of any such set. `Orderly` excludes two things, and TLC finds
  both properties violated in each. Changes in place (append, overwrite) do not
  pin the staged copy, so that the cleaner may remove it. When a write to the
  directory fails, the file goes to the cloud although a staged copy is there;
  if the cloud or Redis then fails too, an earlier request is lost. Files in
  `unhandled`, with a failure that the code ignores, are outside of `SInv` for
  good, and no other file is touched by their failures.
* **`RoutesMatchAlways`**, **`NoTakeoverAlways`**, **`LiveAgentsKeptAlways`**
  (`CoordinatorProofs`): a registration takes containers from agents that are
  down one after the other, and takes them out of the map again if a later one
  cannot be had. `Taken` is what it takes; the lemmas on it say that containers
  leave the list of an agent exactly when their place in the map changes. The
  inductive invariant `CoordInv` adds `SocketsReady`: a running agent whose last
  registration was accepted has left a request unanswered since, or is alive
  and has a socket that is ready. Without the socket the next request would
  fail, and the agent would be taken for dead.

* **`ReplacedAlwaysRemoved`** (`BackgroundProofs`): no hypothesis on failures;
  what they leave behind is in `stray`, which the property excepts.
  `BInv` has three parts. `FilesInv`: who holds the lock of a file knows its
  metadata. `TasksInv`: `fileTaskCount` is the number of a file's tasks that are
  not done, each has one worker at most, and their states fit.
  `ChunksInv`: a chunk of a replaced version has somebody who is going to remove
  it (`Guarded`), the overwrite that has not removed it yet, or the worker that
  wrote it and has not compared versions again, unless it is in `stray`. When
  the overwrite is over and no task is counted, nobody is left, and so no other
  chunk.
* **`FailuresStayUnmarked`** (`BackgroundProofs`, from the same invariant): no
  step of a worker changes metadata. `updateChunks` compares the stored version
  with that of the `File` it is given, which is -1, instead of with its argument,
  so that "update the metadata if there is any failures"
  (`bg_chunk_handler.cc:140`) never comes to pass: a chunk whose background
  write failed goes on being named, until the task check looks for it.
* **`WireFaithful`** (`GatewayProofs`): each side of the socket decides by
  itself which parts a message has. Proved for every request of the client
  library (`Library`, any sizes and offsets up to `MaxSize`; a copy is always of the
  whole range) and every reply with at most
  one entry in its lists, as in `Gateway`: the message is whole, the other side
  reads what was sent, and no part is left.
* **`WorkersAlwaysServe`**, **`ConnectionsStayUsable`**, **`CallsImplemented`**
  (`GatewayProofs`, from **`GatewayInvariant`** and `WireFaithful`): `Inv` says
  that a message is in one place only (`Places`), belongs to one call
  (`HeldInv`) under an id of its own (`IssuedInv`), that a worker has read it to
  the end and its reply is a true answer (`WorkerInv`), that a message that
  waits was not executed (`LogInv`), and that a client that waits for a reply
  has at most its own call on its way over its connection (`ClientInv`). The
  last is why a late reply is never taken for that of another call: a client
  that gave up connects again, and replies to the old connection are dropped.
  It takes all of them that a call returns the outcome of its own request and
  that no request is carried out twice.

`MoveServiceProofs` extends `FileMoveProofs`, which extends `FileStoreProofs`:
they share what it says of keys and of chunks that decode (`Decodable`, proved
from the library's facts on finite sets).

Assumptions on the constants are the `ASSUME`s of `FileStore` (`1 <= K <= N`,
special values are different from others), `Coordinator` (no container twice in
the configuration of an agent), `Immutable` and `Staging` (bounds are numbers,
special values are different from others, inputs and modes have the fields the
code reads), `Background` (bounds are numbers) and `Gateway` (sizes are numbers,
`Garbage`, which stands for a misread part, is no number and no kind of request,
and clients make requests of the library). TLC evaluates each of them in the
runs.

Only model-checked:

* liveness (`OperationsEnd`, `TasksDone`, `PendingCleared`, `WrittenBack`,
  `WorkersFree`, `DeadNoticed`, `RequestsAnswered`), out of reach of the prover;
* `Placement`: `SpareDistinct` and `NewStripeSurvives` are about what a loop
  over a sequence returns, that is induction over data;
* `Agents`: `MovedNotLost`, `AckedStored` and `RevertRestores` relate what
  several containers hold to the requests still on their way to them.

## Seen while modelling

The models follow the code in these places, where it is not what a comment or
the manual says, or may surprise. No run is about them.

* A read across a delete and a new write can return chunks of both files: the
  new file starts at version 0 again, with the same chunk names.
* A failed repair does not go back to the repair list (`proxy.cc:257`).
* A move that fails half-way leaves chunks under the new name
  (`chunk_manager.cc:615`), since `deleteFile` is given the indicator of what
  was to be moved.
* `renameMeta` that took effect and reports an error has the chunks moved back
  under a name that no metadata has any more.
* The undo of a put of several chunks deletes the chunk that failed, in the
  containers of the others (`container_manager.cc:101`).
* A copy does not look at the policies of the file it overwrites; a renewal
  revives an expired policy (`immutable_policy_store_redis.cc:292`).
* The usage an agent reports is stored by the position in its report, also
  after another agent took one of its containers (`coordinator.cc:622`).
* The task check leaves a deleted or empty file locked, and resets the number of
  pending tasks of a file after it has unlocked it (`proxy.cc:576`, `615`). If
  no chunk of a stripe is found, `checkFile` returns 0 and nothing is marked.
* After a write-back of a file that was new when it was staged, a read of the
  whole file succeeds without data while the staged copy is there
  (`proxy_file_ops.cc:929`): "the size and data will be returned on successful
  read" (`proxy.hh:70`).
* A full staging directory makes a write go on for ever, with the lock of its
  file: `fwrite` returns a `size_t`, which is never negative
  (`staging_fs_storage.cc:256`).
* With verification of checksums every copy and move in a directory fails, as do
  the requests of a repair at an agent for whole chunks: the request has no
  checksum of the chunk (`chunk_manager.cc:552`).
* The undo of a move that did not happen brings a chunk that had the new name to
  the old one (`fs.cc:302`), and a move in Azure deletes the source of a copy
  that may not be finished (`azure_blob.cc:190`).
* A ranged read of an empty file leaves a reply with the length asked for and a
  buffer of one byte (`proxy_file_ops.cc:940`).
* A change in place to a staged file whose write-back is under way stays in the
  staging area.

## Not modelled

* Files of several stripes and the clean-up of earlier stripes, overwriting
  encoded stripes in place, partial reads of encoded files: two stripes of
  chunks beside the interleavings of `FileStore` are out of reach.
* Versioned metadata (`overwrite_files = 0`), folders and file lists: indices
  and queries beside the file hash.
* `findChunkGroups`; repair at an agent is modelled for one repaired chunk in
  the case of partial encoding, which is the case the code allows.
* The thread that scans checksums: what it finds enters the repair list, as what
  the modelled scan finds.
* The journal (its callers are commented out), deduplication (the only
  implementation finds nothing), the ring buffer and statistics (nothing reads
  them), the sentinel client (which server a Redis request goes to; a failed
  request is modelled).
* Coding arithmetic, parsing of HTTP and JSON, configuration files, benchmarks
  and tools, which hold no shared state.
