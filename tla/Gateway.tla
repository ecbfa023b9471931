-------------------------------- MODULE Gateway --------------------------------
(***************************************************************************)
(* The proxy's client interface (proxy/interfaces/zmq.cc) and the client   *)
(* library that talks to it (client/c/zmq_interface.c).  Clients hold a    *)
(* request socket each; the proxy passes their requests on to its workers, *)
(* each with a reply socket and a queue of its own.  Both kinds of socket  *)
(* go strictly by turns: a client sends one request and must receive all   *)
(* parts of one reply before it may send again, a worker must receive all  *)
(* parts of a request and send all parts of its reply before it may        *)
(* receive again.  The calls into the proxy are atomic here; the other     *)
(* modules take them apart.  The proxy does not stage files, which is how  *)
(* it is configured unless staging is enabled: a whole staged file may be  *)
(* read with a size that is no size (ReadsNothing in Staging), and a reply *)
(* of that size cannot be sent.                                            *)
(***************************************************************************)
EXTENDS Wire, FiniteSets

CONSTANTS Clients, Workers,
          Scenarios,     \* sequence of [requests, limit, clients, workers, faults]
          MaxRequests,   \* requests per client; the scenario limits all requests
          MaxFaults,     \* lost messages, timeouts, shutdown
          MaxSize,       \* sizes of the data a client sends
          NoFile, Failed

VARIABLES store,     \* the proxy's files: name -> [v, size] or NoFile
          issued,    \* the requests issued so far (history)
          log,       \* the calls into the proxy so far (history)
          call,      \* the request each client waits for
          result,    \* what the client's last call returned
          sock,      \* the client's socket: ready, sent (waits for a reply) or stuck
          conn,      \* how many times the client has connected
          front,     \* requests between the clients and the workers' queues
          inq,       \* the workers' queues
          worker,    \* what each worker is doing
          replies,   \* replies that have reached the client's socket
          running,   \* _isRunning
          scenario, faults

vars == <<store, issued, log, call, result, sock, conn, front, inq, worker, replies,
          running, scenario, faults>>

clientVars == <<issued, call, result, sock, conn, scenario>>
serverVars == <<store, log, inq, worker, running, scenario>>

Names == {"f", "g"}
NoCall == [id |-> <<>>]
Ids(c) == {<<c, n>> : n \in 1 .. MaxRequests}
Waiting == [pc |-> "recv"]
NoData == <<>>
Old == <<NoFile, 0>>   \* what wrote the files that are there at first

--------------------------------------------------------------------------------
(***************************************************************************)
(* The requests of the client library, one set per group of set_*_request  *)
(* functions.  A rename and a copy carry the new name as the cache path.   *)
(***************************************************************************)

Request(op, name, size, offset, cached, to) ==
    [op |-> op, name |-> name, size |-> size, offset |-> offset, cached |-> cached, to |-> to]

set_file_write_request ==
    {Request("WRITE_FILE", "f", n, 0, b, "path") : n \in 0 .. MaxSize, b \in BOOLEAN}

set_file_read_request ==
    {Request("READ_FILE", "f", 0, 0, b, "path") : b \in BOOLEAN}

set_delete_file_request == {Request("DEL_FILE", "f", 0, 0, FALSE, "path")}

set_file_append_request ==
    {Request("APPEND_FILE", "f", n, o, b, "path") : n, o \in 0 .. MaxSize, b \in BOOLEAN}

set_buffered_file_overwrite_request ==
    {Request("OVERWRITE_FILE", "f", n, o, FALSE, "path") : n, o \in 0 .. MaxSize}

set_file_partial_read_request ==
    {Request("READ_FILE_RANGE", "f", n, o, b, "path") : n, o \in 0 .. MaxSize, b \in BOOLEAN}

set_file_rename_request == {Request("RENAME_FILE", "f", 0, 0, TRUE, "g")}
set_file_copy_request == {Request("COPY_FILE", "f", MaxSize, 0, TRUE, "g")}

set_get_request ==
    {Request(op, "f", 0, 0, FALSE, "path") : op \in StatusOps \cup QueryOps}

\* All of them.
Library == UNION {set_file_write_request, set_file_read_request, set_delete_file_request,
                  set_file_append_request, set_buffered_file_overwrite_request,
                  set_file_partial_read_request, set_file_rename_request,
                  set_file_copy_request, set_get_request}

\* Sizes are numbers, a misread part is neither a number nor an operation code
\* the server knows, and the clients make the library's requests.
ASSUME GatewayAssumption ==
    /\ MaxSize \in Nat
    /\ Garbage \notin Nat
    /\ \A r \in Library : r.op # Garbage
    /\ \A s \in DOMAIN Scenarios : Scenarios[s].requests \subseteq Library

--------------------------------------------------------------------------------
(***************************************************************************)
(* The calls into the proxy.  Every one may fail and then changes nothing  *)
(* (what a failed call leaves behind is the matter of other modules).      *)
(***************************************************************************)

Out(ok, st, size, data) == [ok |-> ok, store |-> st, size |-> size, data |-> data]

Fails(st) == {Out(FALSE, st, 0, NoData)}

Content(id, size) == [v |-> id, size |-> size]

writeFile(r, id, st) == {Out(TRUE, [st EXCEPT ![r.name] = Content(id, r.size)], r.size, NoData)}

\* A read of an empty file succeeds and leaves the size it was asked for: 0 for
\* a whole file, the range's length for a range.  The buffer has one byte, and
\* sendReply reads on behind it: the data are anything (should the proxy crash
\* there, that is a Stop).
readFile(r, id, st) ==
    LET f == st[r.name]
    IN  CASE f = NoFile -> {}
          [] f # NoFile /\ r.op = "READ_FILE" -> {Out(TRUE, st, f.size, f.v)}
          [] f # NoFile /\ r.op = "READ_FILE_RANGE" ->
                IF f.size = 0 THEN {Out(TRUE, st, r.size, Garbage)}
                ELSE {Out(TRUE, st, n, f.v) :
                        n \in {n \in 0 .. r.size : r.offset + n <= f.size}}

deleteFile(r, id, st) ==
    IF st[r.name] = NoFile THEN {} ELSE {Out(TRUE, [st EXCEPT ![r.name] = NoFile], r.size, NoData)}

\* appendFile at the end of the file, overwriteFile within it.
modifyFile(r, id, st) ==
    LET f   == st[r.name]
        end == r.offset + r.size
    IN  IF f = NoFile \/ r.offset > f.size \/ (r.op = "APPEND_FILE" /\ r.offset # f.size) THEN {}
        ELSE {Out(TRUE, [st EXCEPT ![r.name] = Content(id, IF end > f.size THEN end ELSE f.size)],
                  end, NoData)}

renameFile(r, id, st) ==
    IF st[r.name] = NoFile THEN {}
    ELSE {Out(TRUE, [st EXCEPT ![r.to] = st[r.name], ![r.name] = NoFile], r.size, NoData)}

copyFile(r, id, st) ==
    IF st[r.name] = NoFile THEN {}
    ELSE {Out(TRUE, [st EXCEPT ![r.to] = st[r.name]], r.size, NoData)}

\* getStorageUsage, getFileList and the like; getExpectedAppendSize and
\* getExpectedReadSize have a size, and a read size of 0 is a failure.
getStatus(r, id, st) ==
    CASE r.op = "GET_APPEND_SIZE" -> {Out(TRUE, st, 1, NoData)}
      [] r.op = "GET_READ_SIZE" -> {Out(FALSE, st, 0, NoData), Out(TRUE, st, 1, NoData)}
      [] OTHER -> {Out(TRUE, st, r.size, NoData)}

Effects(r, id, st) ==
    (IF r.op \in StatusOps \cup QueryOps THEN {} ELSE Fails(st)) \cup
    CASE r.op = "WRITE_FILE" -> writeFile(r, id, st)
      [] r.op \in {"READ_FILE", "READ_FILE_RANGE"} -> readFile(r, id, st)
      [] r.op = "DEL_FILE" -> deleteFile(r, id, st)
      [] r.op \in {"APPEND_FILE", "OVERWRITE_FILE"} -> modifyFile(r, id, st)
      [] r.op = "RENAME_FILE" -> renameFile(r, id, st)
      [] r.op = "COPY_FILE" -> copyFile(r, id, st)
      [] OTHER -> getStatus(r, id, st)

--------------------------------------------------------------------------------
(***************************************************************************)
(* The client.                                                             *)
(***************************************************************************)

Init ==
    /\ scenario \in DOMAIN Scenarios
    /\ store = [n \in Names |-> IF n = "f" THEN Content(Old, MaxSize) ELSE NoFile]
    /\ issued = {}
    /\ log = {}
    /\ call = [c \in Clients |-> NoCall]
    /\ result = [c \in Clients |-> Failed]
    /\ sock = [c \in Clients |-> "ready"]
    /\ conn = [c \in Clients |-> 0]
    /\ front = <<>>
    /\ inq = [w \in Workers |-> <<>>]
    /\ worker = [w \in Workers |-> Waiting]
    /\ replies = [c \in Clients |-> <<>>]
    /\ running = TRUE
    /\ faults = 0

Fault(kind) == kind \in Scenarios[scenario].faults /\ faults < MaxFaults /\ faults' = faults + 1

\* Calls are told apart by ids, of which a client has MaxRequests.
Fresh(id) == \A e \in issued : e.id # id
NewId(c) == CHOOSE id \in Ids(c) : Fresh(id)

\* send_request up to the wait: the parts go to the socket one by one.  If it
\* refuses one, or still waits for more, the call fails at once.
Send(c, r) ==
    LET e == [id |-> NewId(c), req |-> r]
        m == Message(RequestFrames(r))
        sent == m.whole /\ ~m.over
    IN  /\ c \in Scenarios[scenario].clients
        /\ sock[c] = "ready"
        /\ (\E id \in Ids(c) : Fresh(id)) /\ Cardinality(issued) < Scenarios[scenario].limit
        /\ issued' = issued \cup {e}
        /\ call' = [call EXCEPT ![c] = IF sent THEN e ELSE NoCall]
        /\ sock' = [sock EXCEPT ![c] = IF sent THEN "sent" ELSE "broken"]
        /\ front' = IF m.whole
                    THEN Append(front, [id |-> e.id, conn |-> conn[c], parts |-> m.parts])
                    ELSE front
        /\ UNCHANGED <<result, conn, replies, faults, serverVars>>

\* send_request after the wait.  Of the failures, only those of the operations
\* on files are failures of the call.
Receive(c) ==
    LET g == getReply(Head(replies[c]), call[c].req)
    IN  /\ sock[c] = "sent" /\ replies[c] # <<>>
        /\ replies' = [replies EXCEPT ![c] = Tail(@)]
        /\ sock' = [sock EXCEPT ![c] = IF g.rest = <<>> THEN "ready" ELSE "broken"]
        /\ call' = [call EXCEPT ![c] = NoCall]
        /\ result' = [result EXCEPT ![c] =
              IF g.ret = "-1" \/ (~g.ok /\ call[c].req.op \notin StatusOps \cup QueryOps) THEN Failed
              ELSE [ok |-> g.ok, size |-> g.size, data |-> g.data]]
        /\ UNCHANGED <<issued, conn, front, faults, serverVars>>

\* RCVTIMEO expires and the call fails.  The socket still waits for the reply it
\* did not get and refuses to send.
Timeout(c) ==
    /\ sock[c] = "sent" /\ Fault("timeout")
    /\ sock' = [sock EXCEPT ![c] = "late"]
    /\ call' = [call EXCEPT ![c] = NoCall]
    /\ result' = [result EXCEPT ![c] = Failed]
    /\ UNCHANGED <<issued, conn, front, replies, serverVars>>

\* ncloud_conn_t_release and ncloud_conn_t_init: replies to the old connection
\* are dropped.
Reconnect(c) ==
    /\ sock[c] = "late"
    /\ sock' = [sock EXCEPT ![c] = "ready"]
    /\ conn' = [conn EXCEPT ![c] = @ + 1]
    /\ replies' = [replies EXCEPT ![c] = <<>>]
    /\ UNCHANGED <<issued, call, result, front, faults, serverVars>>

--------------------------------------------------------------------------------
(***************************************************************************)
(* The proxy.                                                              *)
(***************************************************************************)

Goto(w, st) == worker' = [worker EXCEPT ![w] = st]

\* run: zmq::proxy gives each request to one of the workers, busy or not.
Dispatch(w) ==
    /\ running /\ front # <<>>
    /\ w \in Scenarios[scenario].workers /\ worker[w].pc # "exited"
    /\ front' = Tail(front)
    /\ inq' = [inq EXCEPT ![w] = Append(@, Head(front))]
    /\ UNCHANGED <<store, log, worker, replies, running, faults, clientVars>>

\* The connection breaks with a request or a reply in it; nothing sends it again.
Lose ==
    /\ Fault("loss")
    /\ \/ front # <<>> /\ front' = Tail(front) /\ UNCHANGED replies
       \/ \E c \in Clients : /\ replies[c] # <<>>
                              /\ replies' = [replies EXCEPT ![c] = <<>>]
                              /\ UNCHANGED front
    /\ UNCHANGED <<store, log, inq, worker, running, clientVars>>

\* The worker's next request.  If a part is missing the code goes on to receive
\* without having replied, which the socket refuses: the worker's loop ends.
GetRequest(w) ==
    LET m == Head(inq[w])
        g == getRequest(m.parts)
    IN  /\ running /\ worker[w].pc = "recv" /\ inq[w] # <<>>
        /\ inq' = [inq EXCEPT ![w] = Tail(@)]
        /\ Goto(w, IF g.rc # "0" THEN [pc |-> "exited"]
                   ELSE [pc |-> IF g.req.op = "READ_FILE" /\ g.req.cached THEN "size" ELSE "call",
                         m |-> m, req |-> g.req, rest |-> g.rest, size |-> g.req.size])
        /\ UNCHANGED <<store, log, front, replies, running, faults, clientVars>>

\* The reply of worker w; the lists have n entries.
Reply(w, ok, size, data, n) ==
    [pc |-> "reply", m |-> worker[w].m, rest |-> worker[w].rest,
     p |-> [op |-> worker[w].req.op, ok |-> ok, size |-> size, cached |-> worker[w].req.cached,
            data |-> data, n |-> n, m |-> n]]

\* A read into a cache file needs the size to map the file: getFileSize.
GetFileSize(w) ==
    LET f == store[worker[w].req.name]
    IN  /\ worker[w].pc = "size"
        /\ Goto(w, IF f = NoFile THEN Reply(w, FALSE, 0, NoData, 0)
                   ELSE [worker[w] EXCEPT !.pc = "call", !.size = f.size])
        /\ UNCHANGED <<store, log, front, inq, replies, running, faults, clientVars>>

\* The cache file cannot be opened, sized or mapped, as a file of no bytes never
\* can; an empty write needs no mapping, and an empty append or range is refused.
CacheFails(w) ==
    /\ worker[w].pc = "call"
    /\ worker[w].req.cached
    /\ worker[w].req.op \in {"WRITE_FILE", "READ_FILE", "APPEND_FILE", "READ_FILE_RANGE"}
    /\ Goto(w, Reply(w, FALSE, worker[w].size, NoData, 0))
    /\ UNCHANGED <<store, log, front, inq, replies, running, faults, clientVars>>

NeedsMapping(w) ==
    /\ worker[w].req.cached
    /\ worker[w].size = 0
    /\ worker[w].req.op \in {"READ_FILE", "APPEND_FILE", "READ_FILE_RANGE"}

\* rep.opcode of the handlers: success && okay.
SucceedsAlways(out) == TRUE
Succeeds(out) == out.ok

\* handleRequests: the call into the proxy and the reply.  A read of a file that
\* has become empty since GetFileSize leaves the earlier size in the reply.  An
\* unknown operation code is answered with itself.
CallProxy(w) ==
    LET r == worker[w].req
    IN  /\ worker[w].pc = "call"
        /\ ~NeedsMapping(w)
        /\ IF r.op = Garbage
           THEN Goto(w, Reply(w, FALSE, 0, NoData, 0)) /\ UNCHANGED <<store, log>>
           ELSE \E out \in Effects(r, worker[w].m.id, store), n \in {0, 1} :
                   /\ n = 0 \/ r.op \in {"GET_FILE_LIST", "GET_AGENT_STATUS", "GET_BG_TASK_PRG"}
                   /\ store' = out.store
                   /\ log' = log \cup {[id |-> worker[w].m.id, ok |-> out.ok,
                                        size |-> out.size, data |-> out.data]}
                   /\ Goto(w, Reply(w, Succeeds(out),
                                    IF r.op = "READ_FILE" /\ out.size = 0
                                    THEN worker[w].size ELSE out.size,
                                    out.data, n))
        /\ UNCHANGED <<front, inq, replies, running, faults, clientVars>>

\* sendReply.  The socket refuses a reply while parts of the request are unread;
\* the error is caught, and the next round reads those parts as a request.  A
\* reply that never ends is not sent, and the next receive is refused.  The
\* reply goes to the connection the request came from.
SendReply(w) ==
    LET st == worker[w]
        m  == Message(ReplyFrames(st.p))
        c  == st.m.id[1]
    IN  /\ st.pc = "reply"
        /\ inq' = IF st.rest = <<>> THEN inq
                  ELSE [inq EXCEPT ![w] = <<[st.m EXCEPT !.parts = st.rest]>> \o @]
        /\ replies' = IF st.rest = <<>> /\ m.whole /\ running /\ st.m.conn = conn[c]
                      THEN [replies EXCEPT ![c] = Append(@, m.parts)]
                      ELSE replies
        /\ Goto(w, IF ~running \/ (st.rest = <<>> /\ ~m.whole) THEN [pc |-> "exited"] ELSE Waiting)
        /\ UNCHANGED <<store, log, front, running, faults, clientVars>>

\* stop: the sockets and their context are closed, with all that is queued.
Stop ==
    /\ running /\ Fault("stop")
    /\ running' = FALSE
    /\ front' = <<>>
    /\ inq' = [w \in Workers |-> <<>>]
    /\ UNCHANGED <<store, log, worker, replies, clientVars>>

\* A worker that waits for a request when the context closes leaves its loop.
Exit(w) ==
    /\ ~running /\ worker[w].pc = "recv"
    /\ Goto(w, [pc |-> "exited"])
    /\ UNCHANGED <<store, log, front, inq, replies, running, faults, clientVars>>

--------------------------------------------------------------------------------
Client(c) == (\E r \in Scenarios[scenario].requests : Send(c, r)) \/ Receive(c) \/ Timeout(c) \/ Reconnect(c)

Worker(w) == GetRequest(w) \/ GetFileSize(w) \/ CacheFails(w) \/ CallProxy(w) \/ SendReply(w)
             \/ Exit(w)

Next == \/ \E c \in Clients : Client(c)
        \/ \E w \in Workers : Dispatch(w) \/ Worker(w)
        \/ Lose
        \/ Stop

Spec == Init /\ [][Next]_vars

\* When a worker can take a step, a client a reply, the dispatcher a request.
WorkerReady(w) == \/ worker[w].pc = "recv" /\ (running => inq[w] # <<>>)
                  \/ worker[w].pc \in {"size", "call", "reply"}
ReplyReady(c) == sock[c] = "sent" /\ replies[c] # <<>>
DispatchReady ==
    running /\ front # <<>> /\ \E w \in Scenarios[scenario].workers : worker[w].pc # "exited"

\* The dispatcher and the workers are threads that run on, and a client that has
\* a reply takes it; timeouts are not relied on.  Weak fairness of the three,
\* with the conditions under which they are enabled, and what only their steps
\* change, written out.
FairSpec ==
    /\ Spec
    /\ \A c \in Clients : []<>(~ReplyReady(c)) \/ []<><<sock'[c] # sock[c]>>_vars
    /\ \A w \in Workers : []<>(~WorkerReady(w)) \/ []<><<worker'[w] # worker[w]>>_vars
    /\ []<>(~DispatchReady) \/ []<><<Len(front') < Len(front)>>_vars

--------------------------------------------------------------------------------
(***************************************************************************)
(* Properties.                                                             *)
(***************************************************************************)

\* No request of the client library, whatever its operation, sizes or cache
\* path, ends a worker: handleRequests leaves its loop only when the interface
\* stops (zmq.cc 129-135).  The socket ends the loop as soon as one side sends a
\* part more or less than the other reads, so this says that they never do.
WorkersServe == running => \A w \in Workers : worker[w].pc # "exited"

\* After a call that was answered, well or badly, the connection can carry the
\* next request: issue_request leaves no part of a reply unread and sends none
\* that does not belong to the request.
ConnectionsUsable == \A c \in Clients : sock[c] # "broken"

\* The interface with its framing, queues, lost messages, timeouts and
\* reconnections implements calls that are carried out at most once and return
\* the outcome of their own request.
Calls == INSTANCE RemoteCalls WITH Requests <- UNION {Scenarios[s].requests : s \in DOMAIN Scenarios},
                                   Store <- {[n \in Names |-> IF n = "f" THEN Content(Old, MaxSize) ELSE NoFile]}
CallSpec == Calls!CallSpec

\* While nothing is lost and the interface runs, a request is answered: there
\* may be more clients than workers, and a request may be queued behind a slow one.
RequestsAnswered ==
    \A c \in Clients : sock[c] = "sent" ~> (sock[c] # "sent" \/ faults > 0)
================================================================================
