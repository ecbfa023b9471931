------------------------------- MODULE Staging -------------------------------
(***************************************************************************)
(* The staging area of a proxy: a write-back cache of files in a local     *)
(* directory.  A write goes to the directory and is acknowledged; a        *)
(* background thread later writes the file to the cloud; another thread    *)
(* removes files from the directory that are not pinned.  The list of      *)
(* files to write back, the metadata and the file locks are in Redis.      *)
(*                                                                         *)
(* The chunks of a file in the cloud stand in its metadata as one content: *)
(* the modules FileStore and Agents are about how they get there.          *)
(***************************************************************************)
EXTENDS Integers, FiniteSets

CONSTANTS
    Files,      \* names of files
    Procs,      \* client requests served at the same time
    Modes,      \* configurations and environments: [clean, staging, kinds, faults]
    Nil,        \* no content, no file, no metadata
    Torn,       \* content that is cut, filled in part or missing
    MaxTime,    \* bound on the clock
    MaxWrites,  \* bound on requests that write
    MaxFaults   \* bound on failed requests, failed updates and restarts

Data == Nat \cup {Nil, Torn}

\* Metadata of a file: its version, when it was last written to the cloud and to
\* the staging area, the size of the staged copy (-1: INVALID_FILE_OFFSET), whether
\* it says how to code the staged copy, and the cloud copy.
Metas == [ver : Int, mtime : Nat, smtime : Nat, ssize : Int, coded : BOOLEAN, cloud : Data]

\* A file in the directory.  Each content that is written or grown by an append is
\* longer than those before it: its size is its number.
Copies == [data : Data, mtime : Nat, size : Nat]

ASSUME StagingAssumption ==
    /\ MaxTime \in Nat /\ MaxWrites \in Nat /\ MaxFaults \in Nat
    /\ Nil # Torn /\ Nil \notin Nat \cup Metas \cup Copies /\ Torn \notin Nat
    /\ \A m \in Modes :
          /\ m.clean \in BOOLEAN /\ m.staging \in BOOLEAN
          /\ m.kinds \subseteq {"write", "empty", "append", "overwrite", "delete"}
          /\ m.faults \subseteq {"stage", "meta", "cloud", "crash", "pin", "mark", "fill"}

VARIABLES
    mode,     \* the configuration
    now,      \* the clock, in intervals within which a file counts as recent
    meta,     \* Redis: the metadata of each file, or Nil
    locked,   \* Redis: the files that are locked
    pending,  \* Redis: files, with versions, to be written back
    rest,     \* Redis: the part of them that the scan has not taken yet
    comp,     \* Redis: files taken by the scan and not known to be written
    ended,    \* the scan has reached its end
    staged,   \* the directory: each staged file, or Nil
    pinned,   \* the directory: files with a pin file
    op,       \* the request of each process
    bg,       \* the write-back thread
    allowed,  \* history: what a read of each file may return
    unhandled, \* history: files with a failure that the code ignores or does not undo
    writes,   \* number of requests that write so far
    faults    \* number of faults so far

redis == <<meta, locked, pending, rest, comp>>
vars == <<mode, now, redis, ended, staged, pinned, op, bg, allowed, unhandled, writes, faults>>

Idle == [pc |-> "idle", kind |-> "none", f |-> Nil, d |-> Nil, m |-> Nil, t |-> 0, ok |-> FALSE]

NoKey == [pc |-> "idle", f |-> Nil, v |-> 0, m |-> Nil, d |-> Nil]

Init ==
    /\ mode \in Modes
    /\ now = 1 /\ writes = 0 /\ faults = 0
    /\ meta = [f \in Files |-> Nil] /\ locked = {}
    /\ pending = {} /\ rest = {} /\ comp = {} /\ ended = FALSE
    /\ staged = [f \in Files |-> Nil] /\ pinned = {}
    /\ op = [p \in Procs |-> Idle] /\ bg = NoKey
    /\ allowed = [f \in Files |-> {Nil}] /\ unhandled = {}

\* A fault of the given kind, among those the environment has.
Fault(k) == k \in mode.faults /\ faults < MaxFaults /\ faults' = faults + 1

\* A fault that the code ignores, does not see or does not undo.
Unhandled(k, f) == Fault(k) /\ unhandled' = unhandled \cup {f}

Fine == UNCHANGED <<faults, unhandled>>

-----------------------------------------------------------------------------
(* The file storage of the staging area. *)

pinFile(f) == pinned' = pinned \cup {f}

unpinFile(f) == pinned' = pinned \ {f}

\* A truncating write renames the file of the last write away and opens a new
\* one; the old one is removed unless versions are kept.
openTruncated(f) == staged' = [staged EXCEPT ![f] = [data |-> Torn, mtime |-> now, size |-> 0]]

writeFile(f, d, n) == staged' = [staged EXCEPT ![f] = [data |-> d, mtime |-> now, size |-> n]]

\* A write that does not truncate goes into the file there is, or into a new
\* file that then holds the range written and nothing else.  An overwrite stays
\* within the file, an append starts at its end.
modifyFile(f, d, kind) ==
    writeFile(f, IF staged[f] = Nil \/ staged[f].data = Torn THEN Torn ELSE d,
                 IF kind = "append" \/ staged[f] = Nil THEN d ELSE staged[f].size)

\* fwrite returns a size_t, so that `ret < 0` never holds: on a full disk the loop
\* writes nothing for ever.  What only fclose fails to write is lost unseen.
partialWrite(f) == Unhandled("fill", f) /\ writeFile(f, Torn, 0)

\* A failed write leaves the old file if it cannot be renamed, and none if the
\* new one cannot be opened.
failedWrite(f) == staged' \in {staged, [staged EXCEPT ![f] = Nil]}

deleteFile(f) == staged' = [staged EXCEPT ![f] = Nil] /\ pinned' = pinned \ {f}

\* Mutant: the cleaner takes pinned files too.
CleanablePinned(f) == staged[f] # Nil

\* The cleaner holds the lock on pins from the check to the removal.
Cleanable(f) == staged[f] # Nil /\ f \notin pinned

cleanIdleFiles(f) ==
    /\ mode.clean /\ Cleanable(f)
    /\ deleteFile(f)
    /\ UNCHANGED <<mode, now, redis, ended, op, bg, allowed, unhandled, writes, faults>>

-----------------------------------------------------------------------------
(* Metadata. *)

\* The most recent content is in the staging area.
Recent(m) == m.smtime >= m.mtime

\* The staged copy, read up to the size in the metadata.  With a size of -1, which
\* is 2^64 - 1, the buffer cannot be allocated and the read succeeds without data.
UpTo(n, s) == IF n < s.size THEN Torn ELSE s.data

\* readFile takes the staged copy.
PicksStaged(f) ==
    meta[f] # Nil /\ staged[f] # Nil /\ Recent(meta[f]) /\ staged[f].mtime >= meta[f].smtime

\* What readFile returns for a range, or for the whole file: only then does it go
\* by the size in the metadata.
ReadResult(f, whole) ==
    IF meta[f] = Nil THEN Nil
    ELSE IF ~PicksStaged(f) THEN meta[f].cloud
    ELSE IF whole THEN UpTo(meta[f].ssize, staged[f])
    ELSE staged[f].data

\* The metadata of a file that was never written, as in a new File object.
Fresh == [ver |-> -1, mtime |-> 0, smtime |-> 0, ssize |-> -1, coded |-> FALSE, cloud |-> Nil]

Old(f) == IF meta[f] = Nil THEN Fresh ELSE meta[f]

\* writeFile keeps the metadata of the cloud copy and adds the staged copy.
StagedMeta(m, t, n) ==
    [m EXCEPT !.ver = IF @ = -1 THEN 0 ELSE @, !.smtime = t, !.ssize = n, !.coded = TRUE]

\* The metadata of a File object that holds no staged copy.
CloudMeta(v, t, d) == [Fresh EXCEPT !.ver = v, !.mtime = t, !.cloud = d]

markFileAsPendingWriteToCloud(k) == pending' = pending \cup {k}

markFileAsWrittenToCloud(k, removePending) ==
    /\ comp' = comp \ {k}
    /\ pending' = IF removePending THEN pending \ {k} ELSE pending

-----------------------------------------------------------------------------
(* Client requests.  Each keeps the lock on its file from its first step   *)
(* to its last.                                                            *)

Goto(p, l) == op' = [op EXCEPT ![p].pc = l]

\* The rest of a request after it has failed, or after it has succeeded.
Finish(p, result) == op' = [op EXCEPT ![p].pc = "unlock", ![p].ok = result]

Keep == UNCHANGED <<mode, now, rest, ended, bg, writes>>

\* lockFile, and getMeta under the lock.
Lock(p, f, kind, d, first) ==
    /\ op[p] = Idle /\ kind \in mode.kinds /\ f \notin locked
    /\ writes < MaxWrites /\ now < MaxTime
    /\ locked' = locked \cup {f}
    /\ writes' = writes + 1
    /\ op' = [op EXCEPT ![p] = [pc |-> first, kind |-> kind, f |-> f, d |-> d,
                                m |-> Old(f), t |-> now, ok |-> FALSE]]
    /\ allowed' = [allowed EXCEPT ![f] = @ \cup {d}]
    /\ Fine /\ UNCHANGED <<mode, now, meta, pending, rest, comp, ended, staged, pinned, bg>>

\* An empty file goes past the staging area.
Begin(p, f) ==
    \/ Lock(p, f, "write", writes + 1, "pin")
    \/ Lock(p, f, "empty", Nil, "putCloud")
    \/ \E kind \in {"append", "overwrite"} :
          meta[f] # Nil /\ Lock(p, f, kind, writes + 1,
                                IF Recent(meta[f]) THEN "modify" ELSE "cloud")
    \/ meta[f] # Nil /\ Lock(p, f, "delete", Nil, "deleteMeta")

\* writeFile does not look at the result of pinStagedFile.
Pin(p) ==
    /\ op[p].pc = "pin"
    /\ \/ pinFile(op[p].f) /\ Fine
       \/ Unhandled("pin", op[p].f) /\ UNCHANGED pinned
    /\ Goto(p, "open")
    /\ Keep /\ UNCHANGED <<redis, staged, allowed>>

\* The first half of writing to the staging area.
Open(p) ==
    /\ op[p].pc = "open"
    /\ \/ /\ mode.staging /\ openTruncated(op[p].f)
          /\ Goto(p, "fill") /\ UNCHANGED <<pinned, faults>>
       \/ /\ mode.staging => Fault("stage")
          /\ ~mode.staging => UNCHANGED faults
          /\ failedWrite(op[p].f)
          /\ unpinFile(op[p].f)
          /\ Goto(p, "cloud")
    /\ Keep /\ UNCHANGED <<redis, allowed, unhandled>>

\* At "full" a request goes on trying to write, with its lock.
Fill(p) ==
    /\ op[p].pc = "fill"
    /\ \/ writeFile(op[p].f, op[p].d, op[p].d) /\ Goto(p, "mark") /\ Fine
       \/ partialWrite(op[p].f) /\ \E l \in {"mark", "full"} : Goto(p, l)
    /\ Keep /\ UNCHANGED <<redis, pinned, allowed>>

\* The version of a file that is new is set to 0 before the file is listed.
Key(p) == <<op[p].f, IF op[p].m.ver = -1 THEN 0 ELSE op[p].m.ver>>

\* The result of listing the file is not looked at either.
Mark(p) ==
    /\ op[p].pc = "mark"
    /\ \/ markFileAsPendingWriteToCloud(Key(p)) /\ Fine
       \/ Unhandled("mark", op[p].f) /\ UNCHANGED pending
    /\ IF op[p].kind = "write" THEN Goto(p, "putStaged") ELSE Finish(p, TRUE)
    /\ Keep /\ UNCHANGED <<meta, locked, comp, staged, pinned, allowed>>

\* Overwriting or appending in place, in the staging area: without a pin.  The
\* cloud copy is used instead if it is as recent.
ModifyStaged(p) ==
    /\ op[p].pc = "modify"
    /\ \/ /\ mode.staging /\ modifyFile(op[p].f, op[p].d, op[p].kind)
          /\ Goto(p, "putModified") /\ Fine
       \/ /\ mode.staging /\ partialWrite(op[p].f)
          /\ \E l \in {"putModified", "full"} : Goto(p, l)
       \/ /\ mode.staging => Fault("stage")
          /\ ~mode.staging => UNCHANGED faults
          /\ UNCHANGED <<staged, unhandled>>
          /\ IF op[p].m.smtime > op[p].m.mtime THEN Finish(p, FALSE) ELSE Goto(p, "cloud")
    /\ Keep /\ UNCHANGED <<redis, pinned, allowed>>

\* Writing the stripes of the file to the cloud.
WriteCloud(p) ==
    /\ op[p].pc = "cloud"
    /\ \/ Goto(p, "putCloud") /\ UNCHANGED faults
       \/ Fault("cloud") /\ Finish(p, FALSE)
    /\ Keep /\ UNCHANGED <<redis, staged, pinned, allowed, unhandled>>

\* The metadata that the request writes.  A change in place leaves the times and
\* the storage class of the staged copy as they were; an append sets its size.
NewMeta(p) ==
    CASE op[p].pc = "putStaged" -> StagedMeta(op[p].m, op[p].t, op[p].d)
      [] op[p].pc = "putModified" ->
            IF op[p].kind = "append" THEN [op[p].m EXCEPT !.ssize = op[p].d] ELSE op[p].m
      [] op[p].pc = "putCloud" /\ op[p].kind \in {"append", "overwrite"} ->
            CloudMeta(op[p].m.ver, now, op[p].d)
      [] OTHER -> CloudMeta(op[p].m.ver + 1, op[p].t, op[p].d)

\* A change in place goes on when its metadata cannot be written.  A write fails
\* then, and the staged file stays what it is: it is read up to the old size.
PutMeta(p) ==
    /\ op[p].pc \in {"putStaged", "putModified", "putCloud"}
    /\ \/ meta' = [meta EXCEPT ![op[p].f] = NewMeta(p)] /\ Fine
       \/ /\ UNCHANGED meta
          /\ IF op[p].pc = "putCloud" THEN Fault("meta") /\ UNCHANGED unhandled
             ELSE Unhandled("meta", op[p].f)
    /\ IF op[p].pc = "putModified" THEN Goto(p, "mark") ELSE Finish(p, faults' = faults)
    /\ Keep /\ UNCHANGED <<locked, pending, comp, staged, pinned, allowed>>

DeleteMeta(p) ==
    /\ op[p].pc = "deleteMeta"
    /\ \/ /\ meta' = [meta EXCEPT ![op[p].f] = Nil] /\ UNCHANGED faults
          /\ Goto(p, IF op[p].m.cloud = Nil THEN "deleteStaged" ELSE "deleteChunks")
       \/ Fault("meta") /\ Finish(p, FALSE) /\ UNCHANGED meta
    /\ Keep /\ UNCHANGED <<locked, pending, comp, staged, pinned, allowed, unhandled>>

DeleteChunks(p) ==
    /\ op[p].pc = "deleteChunks"
    /\ \/ /\ markFileAsWrittenToCloud(Key(p), TRUE)
          /\ Goto(p, "deleteStaged") /\ UNCHANGED faults
       \/ Fault("cloud") /\ Finish(p, FALSE) /\ UNCHANGED <<pending, comp>>
    /\ Keep /\ UNCHANGED <<meta, locked, staged, pinned, allowed, unhandled>>

DeleteStaged(p) ==
    /\ op[p].pc = "deleteStaged"
    /\ deleteFile(op[p].f)
    /\ Finish(p, TRUE)
    /\ Keep /\ Fine /\ UNCHANGED <<redis, allowed>>

\* The request ends, and the client is told how.
Unlock(p) ==
    /\ op[p].pc = "unlock"
    /\ locked' = locked \ {op[p].f}
    /\ allowed' = IF op[p].ok THEN [allowed EXCEPT ![op[p].f] = {op[p].d}] ELSE allowed
    /\ op' = [op EXCEPT ![p] = Idle]
    /\ Keep /\ Fine /\ UNCHANGED <<meta, pending, comp, staged, pinned>>

Step(p) ==
    \/ Pin(p) \/ Open(p) \/ Fill(p) \/ Mark(p) \/ ModifyStaged(p) \/ WriteCloud(p) \/ PutMeta(p)
    \/ DeleteMeta(p) \/ DeleteChunks(p) \/ DeleteStaged(p) \/ Unlock(p)

-----------------------------------------------------------------------------
(* The write-back thread. *)

\* The scan goes over a copy of the list and stops for a while at its end.
getFilesPendingWriteToCloud ==
    /\ bg = NoKey
    /\ LET left == IF rest = {} /\ ended THEN pending ELSE rest IN
       IF left = {}
       THEN ended' = TRUE /\ UNCHANGED <<pending, rest, comp, bg>>
       ELSE \E k \in left :
               /\ ended' = FALSE
               /\ rest' = left \ {k}
               /\ IF k \in pending
                  THEN /\ pending' = pending \ {k} /\ comp' = comp \cup {k}
                       /\ bg' = [NoKey EXCEPT !.pc = "check", !.f = k[1], !.v = k[2]]
                  ELSE UNCHANGED <<pending, comp, bg>>
    /\ Fine /\ UNCHANGED <<mode, now, meta, locked, staged, pinned, op, allowed, writes>>

KeepBg == UNCHANGED <<mode, now, rest, ended, staged, op, allowed, writes>>

\* Mutant: a file whose write-back fails is not put back on the list.
GiveUpSilently == bg' = NoKey /\ UNCHANGED <<pending, comp, meta, pinned, unhandled>>

\* The file goes back to the list, whatever the result of that, and the next one
\* is taken.
GiveUp ==
    /\ \/ markFileAsPendingWriteToCloud(<<bg.f, bg.v>>) /\ UNCHANGED unhandled
       \/ "mark" \in mode.faults /\ unhandled' = unhandled \cup {bg.f} /\ UNCHANGED pending
    /\ bg' = NoKey
    /\ UNCHANGED <<comp, meta, pinned>>

\* At the bound of the clock every file has been left alone for long enough.
Recently(t) == t = now /\ now < MaxTime

\* Files that are not staged or were modified recently are skipped.
WriteBackCheck ==
    /\ bg.pc = "check"
    /\ IF staged[bg.f] = Nil \/ Recently(staged[bg.f].mtime)
       THEN GiveUp
       ELSE bg' = [bg EXCEPT !.pc = "lock"] /\ UNCHANGED <<meta, pending, comp, pinned, unhandled>>
    /\ KeepBg /\ UNCHANGED <<locked, faults>>

WriteBackLock ==
    /\ bg.pc = "lock"
    /\ IF bg.f \in locked \/ meta[bg.f] = Nil
       THEN GiveUp /\ UNCHANGED locked
       ELSE /\ bg' = [bg EXCEPT !.pc = "read", !.m = meta[bg.f]]
            /\ locked' = locked \cup {bg.f}
            /\ UNCHANGED <<meta, pending, comp, pinned, unhandled>>
    /\ KeepBg /\ UNCHANGED faults

\* Reading the staged file into memory, after looking up how to store it.  The
\* metadata says so only after a write, not after a write-back.
WriteBackRead ==
    /\ bg.pc = "read"
    /\ IF ~bg.m.coded \/ staged[bg.f] = Nil
       THEN GiveUp /\ locked' = locked \ {bg.f}
       ELSE /\ bg' = [bg EXCEPT !.pc = "write", !.d = UpTo(bg.m.ssize, staged[bg.f])]
            /\ UNCHANGED <<meta, locked, pending, comp, pinned, unhandled>>
    /\ KeepBg /\ UNCHANGED faults

WriteBackStripes ==
    /\ bg.pc = "write"
    /\ \/ /\ bg' = [bg EXCEPT !.pc = "put"]
          /\ Fine /\ UNCHANGED <<meta, locked, pending, comp, pinned>>
       \/ Fault("cloud") /\ GiveUp /\ locked' = locked \ {bg.f}
    /\ KeepBg

\* Mutant: the metadata goes on naming the staged copy as the current one.
WriteBackStillStaged(m, d) == [m EXCEPT !.ver = @ + 1, !.cloud = d]

\* The record of a new File object: it has no size, time and class of a staged copy.
\* The time of the cloud copy stays what it was before the file was staged, so that
\* a file that was new then still is read from the staged copy.
WriteBackMeta(m, d) == CloudMeta(m.ver + 1, m.mtime, d)

WriteBackPutMeta ==
    /\ bg.pc = "put"
    /\ \/ /\ meta' = [meta EXCEPT ![bg.f] = WriteBackMeta(bg.m, bg.d)]
          /\ bg' = [bg EXCEPT !.pc = "end"]
          /\ Fine /\ UNCHANGED <<locked, pending, comp, pinned>>
       \/ Fault("meta") /\ GiveUp /\ locked' = locked \ {bg.f}
    /\ KeepBg

WriteBackEnd ==
    /\ bg.pc = "end"
    /\ markFileAsWrittenToCloud(<<bg.f, bg.v>>, FALSE)
    /\ unpinFile(bg.f)
    /\ locked' = locked \ {bg.f}
    /\ bg' = NoKey
    /\ KeepBg /\ Fine /\ UNCHANGED meta

bgwriteFileToCloud ==
    \/ WriteBackCheck \/ WriteBackLock \/ WriteBackRead
    \/ WriteBackStripes \/ WriteBackPutMeta \/ WriteBackEnd

-----------------------------------------------------------------------------
Tick == now < MaxTime /\ now' = now + 1
        /\ UNCHANGED <<mode, redis, ended, staged, pinned, op, bg, allowed, unhandled, writes, faults>>

\* Where a request has changed the staged file and not yet recorded its size.
Midway == {"fill", "full", "mark", "putStaged", "putModified"}

\* The proxy dies and is started again.  A staged file that was being written
\* is what was written of it, and is read up to the size of the last one.
Crash ==
    /\ Fault("crash")
    /\ op' = [p \in Procs |-> Idle] /\ bg' = NoKey /\ ended' = FALSE
    /\ allowed' = [f \in Files |->
          allowed[f] \cup {Torn : p \in {q \in Procs : op[q].f = f /\ op[q].pc \in Midway}}]
    /\ UNCHANGED <<mode, now, redis, staged, pinned, unhandled, writes>>

Next ==
    \/ \E p \in Procs, f \in Files : Begin(p, f)
    \/ \E p \in Procs : Step(p)
    \/ getFilesPendingWriteToCloud \/ bgwriteFileToCloud
    \/ \E f \in Files : cleanIdleFiles(f)
    \/ Tick \/ Crash

Spec == Init /\ [][Next]_vars

FairSpec ==
    /\ Spec
    /\ \A p \in Procs : WF_vars(Step(p))
    /\ WF_vars(getFilesPendingWriteToCloud) /\ WF_vars(bgwriteFileToCloud)
    /\ WF_vars(Tick)

-----------------------------------------------------------------------------
(* Properties. *)

Busy(f) == \E p \in Procs : op[p].f = f

\* The only copy of the last content written is the staged one.
OnlyStaged(f) == meta[f] # Nil /\ meta[f].smtime > meta[f].mtime

\* A read of the whole file that succeeds without data: a file that was new when
\* it was staged has been written back and is still in the directory.
ReadsNothing(f) == PicksStaged(f) /\ meta[f].ssize = -1

\* A read that no request overlaps gets what the last acknowledged request left,
\* or what one that failed or was cut off since may have left: whichever copy
\* readFile picks, and wherever the write-back thread and the cleaner are.  Two
\* cases are left out: a whole file that is read without data, and a file with a
\* failure that the code ignores or does not undo.
ReadsCurrent ==
    \A f \in Files \ unhandled, whole \in BOOLEAN :
        ~Busy(f) /\ ~(whole /\ ReadsNothing(f)) => ReadResult(f, whole) \in allowed[f]

\* As long as the staging area has the only copy of what a client wrote, the
\* file is there, is pinned against the cleaner, and is listed as pending or as
\* being written back, unless a failure to write, pin or list it was not handled.
StagedKept ==
    \A f \in Files \ unhandled : ~Busy(f) /\ OnlyStaged(f) =>
        /\ staged[f] # Nil /\ f \in pinned
        /\ \E k \in pending \cup comp : k[1] = f

\* The cloud does not have what the last acknowledged request left.
Behind(f) == ~Busy(f) /\ meta[f] # Nil /\ meta[f].cloud \notin allowed[f]

Died == "crash" \in mode.faults /\ faults > 0

\* What a client wrote reaches the cloud, however often a write-back fails or
\* meets a locked file, unless the proxy dies meanwhile or a failure is
\* not handled; with files that are written as a whole.
WrittenBack ==
    \A f \in Files :
        (Behind(f) /\ mode.kinds \cap {"append", "overwrite"} = {})
            ~> (~Behind(f) \/ Died \/ f \in unhandled)

=============================================================================
