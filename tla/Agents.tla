-------------------------------- MODULE Agents --------------------------------
(***************************************************************************)
(* The agents: worker threads that take chunk requests from a queue and    *)
(* run them on the containers of their agent, and repair at an agent, which *)
(* sends requests to other agents on its own.                              *)
(*                                                                         *)
(* A request names chunks and their containers.  It is executed chunk by   *)
(* chunk, one container call per step.  Whoever sent it waits for a reply  *)
(* until a timeout, after which the request may still be executed.         *)
(***************************************************************************)
EXTENDS ChunkContainers, Sequences, FiniteSets, FiniteSetsExt, TLC

CONSTANTS
    AgentIds, Containers, Names,
    Workers,                \* worker threads of all agents
    WorkerOf, AgentOf,      \* the agent of a worker, of a container
    Type,                   \* container -> "fs", "aws", "azure" or "ali"
    Flaky,                  \* containers whose calls may fail
    Batches,                \* sets of requests: the proxy makes those of one
    InitChunks,             \* what the containers hold at first: key -> payload
    MaxTime                 \* bound on the seconds that pass

Keys == Containers \X Names

ASSUME AgentAssumption ==
    /\ WorkerOf \in [Workers -> AgentIds] /\ AgentOf \in [Containers -> AgentIds]
    /\ Type \in [Containers -> {"fs", "aws", "azure", "ali"}]
    /\ InitChunks \in [Keys -> Payloads \cup {Nil}]

\* A request (ChunkEvent): chunk ns[i] in container at[i], its new name to[i];
\* d is the payload, or what the checksum of the sender stands for; v the chunk
\* version to revert to; in the input chunks of a repair, and from who sent it.
NoMsg == [op |-> "none", at |-> <<>>, ns |-> <<>>, to |-> <<>>, d |-> Nil, v |-> NoVersion,
          in |-> <<>>, car |-> FALSE, from |-> Nil]
Idle == [m |-> NoMsg, i |-> 1, bad |-> FALSE, ps |-> {}, st |-> "idle"]

VARIABLES
    chunk,  \* key -> current payload, and older ones by version
    now,    \* seconds
    queue,  \* agent -> requests that no worker has taken
    work,   \* worker -> the request it executes and how far it is
    sent,   \* request -> its state at the sender, payloads and version replied
    vers,   \* key -> chunk version of the last acknowledged PUT
    todo    \* requests that the proxy has not made so far

vars == <<verifyChunkChecksum, chunk, now, queue, work, sent, vers, todo>>

Init ==
    /\ verifyChunkChecksum \in BOOLEAN
    /\ chunk = [k \in Keys |-> [cur |-> InitChunks[k],
                   old |-> IF Type[k[1]] = "aws" /\ InitChunks[k] # Nil THEN {<<1, InitChunks[k]>>} ELSE {}]]
    /\ now = 1
    /\ queue = [a \in AgentIds |-> {}]
    /\ work = [w \in Workers |-> Idle]
    /\ sent = <<>>
    /\ vers = [k \in Keys |-> NoVersion]
    /\ todo \in Batches

-----------------------------------------------------------------------------
(* The calls of the Container that a request names.                        *)

Fresh(c) == 1 + Max({0} \cup {o[1] : o \in UNION {chunk[<<c, n>>].old : n \in Names}})
Outcomes(c, o) == o.okay \cup IF c \in Flaky THEN o.fail ELSE {}

PutChunk(c, n, d) ==
    LET s == chunk[<<c, n>>]
    IN Outcomes(c, CASE Type[c] = "fs" -> FsPut(s, d, now)
                     [] Type[c] = "aws" -> AwsPut(s, d, Fresh(c))
                     [] Type[c] = "azure" -> AzurePut(s, d, Fresh(c))
                     [] Type[c] = "ali" -> AliPut(s, d))

GetChunk(c, n, d, skip) ==
    LET s == chunk[<<c, n>>]
    IN Outcomes(c, CASE Type[c] = "fs" -> FsGet(s, d, skip)
                     [] Type[c] = "aws" -> AwsGet(s, d, skip)
                     [] Type[c] = "azure" -> AzureGet(s, d, skip)
                     [] Type[c] = "ali" -> AliGet(s, d, skip))

DeleteCall(c, s) ==
    CASE Type[c] = "fs" -> FsDelete(s)
      [] Type[c] = "aws" -> AwsDelete(s, Fresh(c) + 1)
      [] Type[c] = "azure" -> AzureDelete(s)
      [] Type[c] = "ali" -> AliDelete(s)
DeleteChunk(c, n) == Outcomes(c, DeleteCall(c, chunk[<<c, n>>]))
\* A chunk s after a deletion that succeeds.
Deleted(c, s) == (CHOOSE o \in DeleteCall(c, s).okay : TRUE).s

\* The request has the checksum d of the source, and none of the new chunk.
CopyChunk(c, n, m, d) ==
    LET s == chunk[<<c, n>>]
        t == chunk[<<c, m>>]
    IN Outcomes(c, CASE Type[c] = "fs" -> FsCopy(s, t, Nil)
                     [] Type[c] = "aws" -> AwsCopy(s, t, d, Fresh(c))
                     [] Type[c] = "azure" -> AzureCopy(s, t, d)
                     [] Type[c] = "ali" -> AliCopy(s, t, d))

\* Mutant: the source is removed whether or not it was copied.
MoveChunkUnchecked(c, n, m, d) ==
    {Pair(Deleted(c, o.s[1]), o.s[2], o.res) : o \in CopyChunk(c, n, m, d)}

MoveCall(c, s, t, d, e) ==
    CASE Type[c] = "fs" -> FsMove(s, t, e)
      [] Type[c] = "aws" -> AwsMove(s, t, d, Fresh(c))
      [] Type[c] = "azure" -> AzureMove(s, t, d)
      [] Type[c] = "ali" -> AliMove(s, t, d)
MoveChunk(c, n, m, d) == Outcomes(c, MoveCall(c, chunk[<<c, n>>], chunk[<<c, m>>], d, Nil))

RevertChunk(c, n, v) ==
    LET s == chunk[<<c, n>>]
    IN Outcomes(c, CASE Type[c] = "fs" -> FsRevert(s, v)
                     [] Type[c] = "aws" -> AwsRevert(s, v)
                     [] Type[c] = "azure" -> AzureRevert(s, v)
                     [] Type[c] = "ali" -> AliRevert(s, v))

HasChunk(c, n, d) == Outcomes(c, Has(chunk[<<c, n>>], d))
VerifyChunk(c, n, d) == Outcomes(c, Verify(chunk[<<c, n>>], d))

\* FsContainer::cleanUpOldChunks goes by the time the old chunk was written, not
\* the time it was renamed: it may take any of them.
CleanUpOldChunks(c) ==
    /\ Type[c] = "fs"
    /\ \E n \in Names : \E o \in chunk[<<c, n>>].old :
          chunk' = [chunk EXCEPT ![<<c, n>>].old = @ \ {o}]
    /\ UNCHANGED <<now, queue, work, sent, vers>>

\* The service of an Azure container finishes a copy, or gives it up since the
\* source is gone.
FinishCopy(k) ==
    /\ chunk[k].cur \in Copies
    /\ \E p \in {chunk[k].cur[2], Partial} : chunk' = [chunk EXCEPT ![k].cur = p]
    /\ UNCHANGED <<now, queue, work, sent, vers>>

-----------------------------------------------------------------------------
(* Requests and replies.                                                   *)

KeyAt(m, i) == <<m.at[i], m.ns[i]>>
NewKeyAt(m, i) == <<m.at[i], m.to[i]>>
NamesOf(m) == {m.ns[i] : i \in DOMAIN m.ns} \cup {m.to[i] : i \in DOMAIN m.to} \cup {k[2] : k \in {m.in[i] : i \in DOMAIN m.in}}
\* A request goes to the agent of its first container.
To(m) == AgentOf[m.at[1]]

Waiting == [st |-> "wait", ps |-> {}, v |-> NoVersion]

\* The messages in ms are sent.
Send(ms) ==
    /\ queue' = [a \in AgentIds |-> queue[a] \cup {m \in ms : To(m) = a}]
    /\ sent' = [m \in ms |-> Waiting] @@ sent

\* The worker replies, which nobody takes notice of after a timeout, and is free.
Reply(w, res, ps, v) ==
    LET m == work[w].m IN
    /\ work' = [work EXCEPT ![w] = Idle]
    /\ IF sent[m].st = "wait"
       THEN /\ sent' = [sent EXCEPT ![m] = [st |-> res, ps |-> ps, v |-> v]]
            /\ vers' = IF m.op = "PUT" /\ res = "ok" THEN [vers EXCEPT ![KeyAt(m, 1)] = v] ELSE vers
       ELSE UNCHANGED <<sent, vers>>

\* The proxy holds the file lock: no request for these chunks is under way that
\* it did not give up.
Request(m) ==
    /\ todo' = todo \ {m}
    /\ \A x \in DOMAIN sent : x.from = Nil /\ sent[x].st = "wait" => NamesOf(x) \cap NamesOf(m) = {}
    /\ Send({IF m.op = "RVT" THEN [m EXCEPT !.v = vers[KeyAt(m, 1)]] ELSE m})
    /\ UNCHANGED <<chunk, now, work, vers>>

Timeout(m) ==
    /\ sent[m].st = "wait"
    /\ sent' = [sent EXCEPT ![m].st = "timeout"]
    /\ UNCHANGED <<chunk, now, queue, work, vers>>

Take(w) ==
    /\ work[w] = Idle
    /\ \E m \in queue[WorkerOf[w]] :
          /\ queue' = [queue EXCEPT ![WorkerOf[w]] = @ \ {m}]
          /\ work' = [work EXCEPT ![w] = [Idle EXCEPT !.m = m, !.st = IF m.op = "RPR" THEN "repair" ELSE "run"]]
    /\ UNCHANGED <<chunk, now, sent, vers>>

-----------------------------------------------------------------------------
(* ContainerManager                                                        *)

Running(w, op) == work[w].st = "run" /\ work[w].m.op = op

\* The request is done with its last chunk, or goes on with the next one.
Advance(w, bad, ps, v) ==
    LET x == work[w] IN
    IF x.i = Len(x.m.at) THEN Reply(w, IF bad THEN "fail" ELSE "ok", x.ps \cup ps, v)
    ELSE /\ work' = [work EXCEPT ![w].i = @ + 1, ![w].bad = bad, ![w].ps = @ \cup ps]
         /\ UNCHANGED <<sent, vers>>

\* After a failure chunk i, not chunk j, is deleted from the containers of the
\* chunks j before it, except those in skip, which fail to do it.
PutUndo(st, m, i, skip) ==
    [k \in Keys |-> IF \E j \in 1 .. i - 1 : k = <<m.at[j], m.ns[i]>> /\ k[1] \notin skip /\ st[k].cur # Nil
                   THEN Deleted(k[1], st[k]) ELSE st[k]]

\* Mutant: the result of the container is not looked at.
PutChunksUnchecked(w) ==
    LET m == work[w].m
        i == work[w].i IN
    /\ Running(w, "PUT")
    /\ \E o \in PutChunk(m.at[i], m.ns[i], m.d) :
          chunk' = [chunk EXCEPT ![KeyAt(m, i)] = o.s] /\ Advance(w, FALSE, {}, o.v)
    /\ UNCHANGED <<now, queue>>

PutChunks(w) ==
    LET m == work[w].m
        i == work[w].i IN
    /\ Running(w, "PUT")
    /\ \E o \in PutChunk(m.at[i], m.ns[i], m.d) :
          LET st == [chunk EXCEPT ![KeyAt(m, i)] = o.s] IN
          IF o.res = "ok" THEN chunk' = st /\ Advance(w, FALSE, {}, o.v)
          ELSE /\ \E skip \in SUBSET Flaky : chunk' = PutUndo(st, m, i, skip)
               /\ Reply(w, "fail", {}, NoVersion)
    /\ UNCHANGED <<now, queue>>

\* getChunks, and getEncodedChunks for partial encoding, which skips checksums
\* and takes an empty chunk for a failure.
GetChunks(w) ==
    LET m == work[w].m
        i == work[w].i IN
    /\ Running(w, "GET") \/ Running(w, "ENC")
    /\ \E o \in GetChunk(m.at[i], m.ns[i], m.d, m.op = "ENC") :
          IF o.res = "ok" /\ ~(m.op = "ENC" /\ o.p = Nil)
          THEN Advance(w, FALSE, {o.p}, NoVersion)
          ELSE Reply(w, "fail", {}, NoVersion)
    /\ UNCHANGED <<chunk, now, queue>>

DeleteChunks(w) ==
    LET m == work[w].m
        i == work[w].i IN
    /\ Running(w, "DEL")
    /\ \E o \in DeleteChunk(m.at[i], m.ns[i]) : chunk' = [chunk EXCEPT ![KeyAt(m, i)] = o.s]
    /\ Advance(w, FALSE, {}, NoVersion)
    /\ UNCHANGED <<now, queue>>

\* The copy of chunk j is deleted, or the chunk moved back, which may fail.
Undo(st, m, j) ==
    LET c == m.at[j]
        s == st[KeyAt(m, j)]
        t == st[NewKeyAt(m, j)]
    IN IF m.op = "MOV" THEN {[from |-> o.s[2], to |-> o.s[1]] : o \in Outcomes(c, MoveCall(c, t, s, m.d, m.d))}
       ELSE {[from |-> s, to |-> o.s] : o \in Outcomes(c, DeleteCall(c, t))}

\* What the chunks before i may be after that.
Undone(st, m, i) ==
    LET J == 1 .. i - 1
        undos == {f \in [J -> UNION {Undo(st, m, j) : j \in J}] : \A j \in J : f[j] \in Undo(st, m, j)}
    IN {[k \in Keys |-> IF \E j \in J : k = KeyAt(m, j) THEN f[CHOOSE j \in J : k = KeyAt(m, j)].from
                        ELSE IF \E j \in J : k = NewKeyAt(m, j) THEN f[CHOOSE j \in J : k = NewKeyAt(m, j)].to
                        ELSE st[k]] : f \in undos}

\* copyChunks and moveChunks go on after a failure; an exception undoes the
\* chunks before it.
CopyOrMoveChunks(w) ==
    LET m == work[w].m
        i == work[w].i IN
    /\ Running(w, "CPY") \/ Running(w, "MOV")
    /\ \E o \in IF m.op = "CPY" THEN CopyChunk(m.at[i], m.ns[i], m.to[i], m.d)
                  ELSE MoveChunk(m.at[i], m.ns[i], m.to[i], m.d) :
          LET st == [chunk EXCEPT ![KeyAt(m, i)] = o.s[1], ![NewKeyAt(m, i)] = o.s[2]] IN
          IF o.res = "throw" THEN chunk' \in Undone(st, m, i) /\ Reply(w, "fail", {}, NoVersion)
          ELSE chunk' = st /\ Advance(w, work[w].bad \/ o.res = "fail", {}, NoVersion)
    /\ UNCHANGED <<now, queue>>

\* hasChunks and revertChunks stop at the first failure.
HasChunks(w) ==
    LET m == work[w].m
        i == work[w].i IN
    /\ Running(w, "CHK")
    /\ \E okay \in HasChunk(m.at[i], m.ns[i], m.d) :
          IF okay THEN Advance(w, FALSE, {}, NoVersion) ELSE Reply(w, "fail", {}, NoVersion)
    /\ UNCHANGED <<chunk, now, queue>>

RevertChunks(w) ==
    LET m == work[w].m
        i == work[w].i IN
    /\ Running(w, "RVT")
    /\ \E o \in RevertChunk(m.at[i], m.ns[i], m.v) :
          /\ chunk' = [chunk EXCEPT ![KeyAt(m, i)] = o.s]
          /\ IF o.res = "ok" THEN Advance(w, FALSE, {}, NoVersion) ELSE Reply(w, "fail", {}, NoVersion)
    /\ UNCHANGED <<now, queue>>

\* verifyChunks replies with the chunks that are corrupted, here whether there are any.
VerifyChunks(w) ==
    LET m == work[w].m
        i == work[w].i IN
    /\ Running(w, "VRF")
    /\ \E okay \in VerifyChunk(m.at[i], m.ns[i], m.d) :
          Advance(w, work[w].bad \/ ~okay, {}, NoVersion)
    /\ UNCHANGED <<chunk, now, queue>>

-----------------------------------------------------------------------------
(* Repair at an agent.                                                     *)

\* One GET for each input chunk, or one ENC for those of each agent.
InputRequests(m) ==
    LET msg(op, ks) == [NoMsg EXCEPT !.op = op, !.from = m.ns,
                           !.at = [i \in DOMAIN ks |-> ks[i][1]], !.ns = [i \in DOMAIN ks |-> ks[i][2]]]
    IN IF m.car THEN {msg("ENC", SelectSeq(m.in, LAMBDA k : AgentOf[k[1]] = a)) : a \in {AgentOf[m.in[i][1]] : i \in DOMAIN m.in}}
       ELSE {msg("GET", <<m.in[i]>>) : i \in DOMAIN m.in}

\* One PUT for each repaired chunk but the first; with partial encoding all of
\* them stay at this agent.
StoreRequests(m, d) ==
    IF m.car THEN {}
    ELSE {[NoMsg EXCEPT !.op = "PUT", !.from = m.ns, !.at = <<m.at[i]>>, !.ns = <<m.ns[i]>>, !.d = d]
             : i \in DOMAIN m.at \ {1}}

Decode(ps) == IF \E p \in Payloads : ps = {p} THEN CHOOSE p \in Payloads : ps = {p} ELSE Garbage

RepairCollect(w) ==
    /\ work[w].st = "repair"
    /\ Send(InputRequests(work[w].m))
    /\ work' = [work EXCEPT ![w].st = "collect"]
    /\ UNCHANGED <<chunk, now, vers>>

\* Mutant: a request without a reply is waited for.
RepairEncodeNoTimeout(w) ==
    LET m == work[w].m
        in == InputRequests(m) IN
    /\ work[w].st = "collect"
    /\ \A x \in in : sent[x].st \notin {"wait", "timeout"}
    /\ IF \A x \in in : sent[x].st = "ok"
       THEN LET d == Decode(UNION {sent[x].ps : x \in in}) IN
            /\ Send(StoreRequests(m, d))
            /\ work' = [work EXCEPT ![w].st = "put", ![w].ps = {d}]
            /\ UNCHANGED vers
       ELSE Reply(w, "fail", {}, NoVersion) /\ UNCHANGED queue
    /\ UNCHANGED <<chunk, now>>

\* All inputs are needed.  The chunks are decoded and sent to their agents.
RepairEncode(w) ==
    LET m == work[w].m
        in == InputRequests(m) IN
    /\ work[w].st = "collect"
    /\ \A x \in in : sent[x].st # "wait"
    /\ IF \A x \in in : sent[x].st = "ok"
       THEN LET d == Decode(UNION {sent[x].ps : x \in in}) IN
            /\ Send(StoreRequests(m, d))
            /\ work' = [work EXCEPT ![w].st = "put", ![w].ps = {d}]
            /\ UNCHANGED vers
       ELSE Reply(w, "fail", {}, NoVersion) /\ UNCHANGED queue
    /\ UNCHANGED <<chunk, now>>

\* The first chunk is put into the first container, of this agent.
RepairPut(w) ==
    LET m == work[w].m IN
    /\ work[w].st = "put"
    /\ \E d \in work[w].ps : \E o \in PutChunk(m.at[1], m.ns[1], d) :
          /\ chunk' = [chunk EXCEPT ![KeyAt(m, 1)] = o.s]
          /\ work' = [work EXCEPT ![w].st = "stored", ![w].bad = (o.res # "ok")]
    /\ UNCHANGED <<now, queue, sent, vers>>

\* The repair succeeds if all chunks are stored; those that are stay if not.
RepairEnd(w) ==
    LET m == work[w].m
        out == UNION {StoreRequests(m, d) : d \in work[w].ps} IN
    /\ work[w].st = "stored"
    /\ \A x \in out : sent[x].st # "wait"
    /\ Reply(w, IF ~work[w].bad /\ \A x \in out : sent[x].st = "ok" THEN "ok" ELSE "fail", {}, NoVersion)
    /\ UNCHANGED <<chunk, now, queue>>

-----------------------------------------------------------------------------
\* An agent dies and is started again.
Restart(a) ==
    /\ queue' = [queue EXCEPT ![a] = {}]
    /\ work' = [w \in Workers |-> IF WorkerOf[w] = a THEN Idle ELSE work[w]]
    /\ UNCHANGED <<chunk, now, sent, vers>>

Tick ==
    /\ now < MaxTime
    /\ now' = now + 1
    /\ UNCHANGED <<chunk, queue, work, sent, vers>>

Handle(w) ==
    \/ Take(w)
    \/ PutChunks(w) \/ GetChunks(w) \/ DeleteChunks(w) \/ CopyOrMoveChunks(w)
    \/ HasChunks(w) \/ RevertChunks(w) \/ VerifyChunks(w)
    \/ RepairCollect(w) \/ RepairEncode(w) \/ RepairPut(w) \/ RepairEnd(w)

Next ==
    /\ \/ \E m \in todo : Request(m)
       \/ /\ \/ \E m \in DOMAIN sent : Timeout(m)
             \/ \E w \in Workers : Handle(w)
             \/ \E c \in Containers : CleanUpOldChunks(c)
             \/ \E k \in Keys : FinishCopy(k)
             \/ \E a \in AgentIds : Restart(a)
             \/ Tick
          /\ UNCHANGED todo
    /\ UNCHANGED verifyChunkChecksum

Spec == Init /\ [][Next]_vars

\* Worker threads are scheduled, container calls return, and the sockets have
\* timeouts.
FairSpec ==
    /\ Spec
    /\ \A w \in Workers : WF_vars(Handle(w) /\ UNCHANGED <<todo, verifyChunkChecksum>>)
    /\ WF_vars(\E m \in DOMAIN sent : m.from # Nil /\ Timeout(m) /\ UNCHANGED <<todo, verifyChunkChecksum>>)

-----------------------------------------------------------------------------
(* Properties.                                                             *)

\* No request for chunks of m was given up, so none is executed late.
Alone(m) == \A x \in DOMAIN sent \ {m} : sent[x].st = "timeout" => NamesOf(x) \cap NamesOf(m) = {}
Acked(m) == m \in DOMAIN sent /\ sent[m].st = "wait" /\ sent'[m].st = "ok"
Results(m) == IF m.op \in {"CPY", "MOV"} THEN {NewKeyAt(m, i) : i \in DOMAIN m.at} ELSE {KeyAt(m, i) : i \in DOMAIN m.at}

\* What goes unnoticed without verification: a file that was cut short when its
\* buffer was written, and a blob that is still to be copied.
Unseen(m, k) ==
    IF verifyChunkChecksum THEN {}
    ELSE CASE Type[k[1]] = "fs" -> {Partial}
           [] Type[k[1]] = "azure" /\ m.op \in {"CPY", "MOV"} -> {Partial, Copying(m.d)}
           [] OTHER -> {}

\* A positive reply to a put, copy, move or repair means that all its chunks are
\* in their containers, with the right payload: also after agents asked each
\* other for chunks, timed out, or were restarted.  Without verification there
\* are two exceptions, and no others: a directory may have the chunk cut short
\* (the results of fflush, fsync and fclose are ignored, fs.cc:103-117), and an
\* Azure container may still have to copy it (azure_blob.cc:171).
AckedStored ==
    [][\A m \in DOMAIN sent : m.op \in {"PUT", "CPY", "MOV", "RPR"} /\ Acked(m) /\ Alone(m) =>
          \A k \in Results(m) : chunk'[k].cur \in {m.d} \cup Unseen(m, k)]_vars

\* The new name was free.
Free(m, k) == InitChunks[k] = Nil /\ \A x \in DOMAIN sent \ {m} : k \notin Results(x)

\* A chunk that is moved is never lost, whatever fails: it has its old name or
\* its new one.  The code has two exceptions, and no others: an Azure container
\* without verification deletes the source of a copy that is not finished
\* (azure_blob.cc:171, 190), and a chunk that has the new name already takes the
\* place of the source when a move is undone that did not happen (fs.cc:301-302,
\* container_manager.cc:171).
MovedNotLost ==
    \A m \in DOMAIN sent : m.op = "MOV" /\ Alone(m) =>
        \A i \in DOMAIN m.at :
            (Type[m.at[i]] = "azure" => verifyChunkChecksum) /\ Free(m, NewKeyAt(m, i))
            => m.d \in {chunk[KeyAt(m, i)].cur, chunk[NewKeyAt(m, i)].cur}

\* A positive reply to a revert means that the payload from before the last put
\* is back, where the container kept one, or is being copied back (Azure).
RevertRestores ==
    [][\A m \in DOMAIN sent : m.op = "RVT" /\ Acked(m) /\ Alone(m) /\ m.v # NoVersion =>
          chunk'[KeyAt(m, 1)].cur \in {m.d, Copying(m.d)}]_vars

\* No agent waits for ever: workers that repair, each with inputs from an agent
\* whose workers are busy with the same, all become free again.
WorkersFree == \A w \in Workers : work[w] # Idle ~> work[w] = Idle

=============================================================================
