---------------------------------- MODULE Wire ----------------------------------
(***************************************************************************)
(* The message format between the client library (client/c/zmq_interface)  *)
(* and the proxy's client interface (proxy/interfaces/zmq).  A request and *)
(* a reply are multi-part messages.  A part is a frame [is, v, more]: what *)
(* the sender put in it, its value, and whether the sender announced       *)
(* another part after it.  Nothing on the wire says what a part is: the    *)
(* receiver takes the i-th part for the i-th field it expects, so the two  *)
(* sides agree only if their lists of fields do, for every operation code, *)
(* with and without a cache path, down to length zero and empty lists.     *)
(***************************************************************************)
EXTENDS Naturals, Sequences

CONSTANT Garbage    \* what a part is worth when taken for another field

StatusOps == {"GET_CAPACITY", "GET_AGENT_STATUS", "GET_PROXY_STATUS", "GET_BG_TASK_PRG"}
QueryOps == {"GET_APPEND_SIZE", "GET_READ_SIZE", "GET_FILE_LIST", "GET_REPAIR_STATS"}

Frame(is, v, more) == [is |-> is, v |-> v, more |-> more]

\* The parts, or fields, fs if the condition holds.
When(cond, fs) == IF cond THEN fs ELSE <<>>

\* The sequences ss[1], ss[2], ... in a row.
InRow(ss) ==
    LET upTo[i \in 0 .. Len(ss)] == IF i = 0 THEN <<>> ELSE upTo[i - 1] \o ss[i]
    IN  upTo[Len(ss)]

\* What becomes of the parts fs given to a socket in this order: a message ends
\* with the first part that announces no other; parts after it are refused, and
\* without such a part nothing is sent.
Message(fs) ==
    LET ends == {i \in DOMAIN fs : ~fs[i].more}
        end  == CHOOSE i \in ends : \A j \in ends : i <= j
    IN  [whole |-> ends # {},
         parts |-> IF ends = {} THEN <<>> ELSE SubSeq(fs, 1, end),
         over  |-> ends # {} /\ end < Len(fs)]

--------------------------------------------------------------------------------
(***************************************************************************)
(* Requests: what the client sends and what the server expects.            *)
(***************************************************************************)

\* The client's classification of the operation codes.
has_file_data(op) == op \in {"WRITE_FILE", "APPEND_FILE", "OVERWRITE_FILE"}
has_opcode_only(op) == op \in StatusOps
has_size_or_length(op) ==
    op \in {"WRITE_FILE", "APPEND_FILE", "OVERWRITE_FILE", "READ_FILE_RANGE", "COPY_FILE"}
has_offset(op) == op \in {"APPEND_FILE", "OVERWRITE_FILE", "READ_FILE_RANGE", "COPY_FILE"}

\* The data part is sent only for a positive size.
SendsDataAlways(r) == has_file_data(r.op)
SendsData(r) == has_file_data(r.op) /\ r.size > 0

\* issue_request, first half: the parts of request r.
RequestFrames(r) ==
    <<Frame("opcode", r.op, ~has_opcode_only(r.op))>> \o
    When(~has_opcode_only(r.op),
         <<Frame("namespace", "ns", TRUE)>> \o
         CASE r.op = "GET_APPEND_SIZE" -> <<Frame("class", "class", FALSE)>>
           [] r.op \in {"GET_READ_SIZE", "GET_FILE_LIST"} -> <<Frame("name", r.name, FALSE)>>
           [] OTHER ->
                <<Frame("name", r.name, TRUE)>>
                \o When(has_size_or_length(r.op), <<Frame("size", r.size, TRUE)>>)
                \o (IF r.op = "WRITE_FILE" THEN <<Frame("class", "class", TRUE)>>
                    ELSE When(has_offset(r.op), <<Frame("offset", r.offset, TRUE)>>))
                \o <<Frame("cached", r.cached, SendsData(r) \/ r.cached)>>
                \o (IF r.cached THEN <<Frame("path", r.to, FALSE)>>
                    ELSE When(SendsData(r), <<Frame("data", r.size, FALSE)>>)))

\* The server's classification of the operation codes.
hasFileData(op) == op \in {"WRITE_FILE", "APPEND_FILE", "OVERWRITE_FILE"}
hasOpcodeOnly(op) ==
    op \in {"GET_CAPACITY", "GET_AGENT_STATUS", "GET_PROXY_STATUS", "GET_BG_TASK_PRG"}
hasFileSize(op) ==
    op \in {"WRITE_FILE", "APPEND_FILE", "OVERWRITE_FILE", "READ_FILE_RANGE", "COPY_FILE"}
hasFileOffset(op) == op \in {"APPEND_FILE", "OVERWRITE_FILE", "READ_FILE_RANGE", "COPY_FILE"}

\* The fields getRequest reads before it looks at their values.
RequestFields(op) ==
    <<"opcode">> \o
    When(~hasOpcodeOnly(op),
         <<"namespace">> \o
         CASE op = "GET_APPEND_SIZE" -> <<"class">>
           [] op \in {"GET_READ_SIZE", "GET_FILE_LIST"} -> <<"name">>
           [] OTHER -> <<"name">>
                       \o When(hasFileSize(op), <<"size">>)
                       \o (IF op = "WRITE_FILE" THEN <<"class">>
                           ELSE When(hasFileOffset(op), <<"offset">>))
                       \o <<"cached">>)

\* The value of field is when the parts fs are read as fields; def if there is
\* no such field among them.
Field(fs, fields, is, def) ==
    LET at == {i \in DOMAIN fields : fields[i] = is}
        i  == CHOOSE i \in at : TRUE
    IN  CASE at = {} -> def
          [] at # {} /\ (i > Len(fs) \/ fs[i].is # is) -> Garbage
          [] OTHER -> fs[i].v

\* getRequest: the request read from the parts fs, and the parts left unread.
\* rc is 0, 1 when a part is missing, or "throw" when the part after the opcode
\* is: the code receives it without asking whether it is there.  Fields that the
\* message does not have keep the values of Request().
getRequest(fs) ==
    LET op     == IF fs[1].is = "opcode" THEN fs[1].v ELSE Garbage
        head   == RequestFields(op)
        cached == Field(fs, head, "cached", FALSE)
        size   == Field(fs, head, "size", 0)
        fields == head \o When(cached = TRUE, <<"path">>)
                       \o When(hasFileData(op) /\ cached = FALSE /\ size # 0, <<"data">>)
    IN  [rc   |-> CASE Len(fs) >= Len(fields) -> "0"
                    [] Len(fs) < 2 /\ Len(fs) < Len(fields) -> "throw"
                    [] OTHER -> "1",
         req  |-> [op     |-> op,
                   name   |-> Field(fs, fields, "name", ""),
                   size   |-> size,
                   offset |-> Field(fs, fields, "offset", 0),
                   cached |-> cached,
                   to     |-> Field(fs, fields, "path", "")],
         rest |-> SubSeq(fs, Len(fields) + 1, Len(fs))]

--------------------------------------------------------------------------------
(***************************************************************************)
(* Replies: what the server sends and what the client expects.  A reply p  *)
(* has the operation code and the outcome; a file's size, data and whether *)
(* they are in a cache file; and the number of entries of a list: n files, *)
(* tasks or agents, m containers of an agent.                              *)
(***************************************************************************)

replyFileData(p) == p.ok /\ p.op \in {"READ_FILE", "READ_FILE_RANGE"}

\* The replies of one part: all failures, and the successes listed here.
replyOpcodeOnly(p) ==
    ~p.ok \/ p.op \notin {"READ_FILE", "READ_FILE_RANGE", "GET_CAPACITY", "GET_FILE_LIST",
                         "GET_APPEND_SIZE", "GET_READ_SIZE", "APPEND_FILE", "OVERWRITE_FILE",
                         "GET_AGENT_STATUS", "GET_PROXY_STATUS", "GET_BG_TASK_PRG",
                         "GET_REPAIR_STATS"}

\* The parts is[1], is[2], ... with another part after the last one if more.
Fields(is, more) == [i \in DOMAIN is |-> Frame(is[i], is[i], i < Len(is) \/ more)]

SEND_SYS_INFO(more) ==
    Fields(<<"cpus", "cpu usage", "memory", "free", "in", "out", "host">>, more)

\* The number of entries, and whether it announces them.
TotalAlways(n) == <<Frame("total", n, TRUE)>>
Total(n) == <<Frame("total", n, n > 0)>>

\* sendReply's part for agent i of p.n.
AgentFrames(p, i) ==
    Fields(<<"alive", "addr", "host type">>, TRUE) \o SEND_SYS_INFO(TRUE)
    \o <<Frame("containers", p.m, ~(p.m = 0 /\ i = p.n))>>
    \o When(p.m > 0, Fields(<<"ids", "types", "usages", "capacities">>, i # p.n))

\* sendReply: the parts of reply p.
ReplyFrames(p) ==
    <<Frame("reply", [op |-> p.op, ok |-> p.ok], ~replyOpcodeOnly(p))>> \o
    CASE ~p.ok -> <<>>
      [] replyFileData(p) ->
            When(p.op = "READ_FILE_RANGE", Fields(<<"offset">>, TRUE))
            \o <<Frame("size", p.size, TRUE), Frame("cached", p.cached, TRUE)>>
            \o (IF p.cached THEN Fields(<<"path">>, FALSE) ELSE <<Frame("data", p.data, FALSE)>>)
      [] p.ok /\ p.op = "GET_CAPACITY" ->
            Fields(<<"usage", "capacity", "count", "limit">>, FALSE)
      [] p.ok /\ p.op = "GET_FILE_LIST" ->
            Total(p.n) \o InRow([i \in 1 .. p.n |->
                Fields(<<"name", "fsize", "ctime", "atime", "mtime">>, i # p.n)])
      [] p.ok /\ p.op \in {"GET_APPEND_SIZE", "GET_READ_SIZE", "APPEND_FILE", "OVERWRITE_FILE"} ->
            <<Frame("size", p.size, FALSE)>>
      [] p.ok /\ p.op = "GET_AGENT_STATUS" ->
            Total(p.n) \o InRow([i \in 1 .. p.n |-> AgentFrames(p, i)])
      [] p.ok /\ p.op = "GET_PROXY_STATUS" -> SEND_SYS_INFO(FALSE)
      [] p.ok /\ p.op = "GET_BG_TASK_PRG" ->
            Total(p.n) \o InRow([i \in 1 .. p.n |-> Fields(<<"name", "progress">>, i # p.n)])
      [] p.ok /\ p.op = "GET_REPAIR_STATS" -> Fields(<<"count", "repair">>, FALSE)
      [] OTHER -> <<>>

--------------------------------------------------------------------------------
(***************************************************************************)
(* issue_request, second half.  The client knows the number of entries     *)
(* only from the parts it has read, so its list of fields grows with them. *)
(***************************************************************************)

Times(n, fields) == InRow([i \in 1 .. n |-> fields])

RecvSysInfoNoHost == <<"cpus", "cpu usage", "memory", "free", "in", "out">>
RECV_SYS_INFO == <<"cpus", "cpu usage", "memory", "free", "in", "out", "host">>

\* A number read from the parts, 0 until its part has been read.
Count(fs, fields, is) == LET v == Field(fs, fields, is, 0) IN IF v = Garbage THEN 0 ELSE v

\* The fields of the reply's files, tasks or agents, total of them.
ListFields(fs, entry) == <<"total">> \o Times(Count(fs, <<"reply", "total">>, "total"), entry)

\* The fields of an agent (all agents of a reply have the same number of containers here).
AgentFields(fs) ==
    LET head == <<"alive", "addr", "host type">> \o RECV_SYS_INFO \o <<"containers">>
        held == Count(fs, <<"reply", "total">> \o head, "containers")
    IN  head \o When(held > 0, <<"ids", "types", "usages", "capacities">>)

ReadFields(fs) ==
    LET head == When(fs[1].v.op = "READ_FILE_RANGE", <<"offset">>) \o <<"size", "cached">>
        cached == Field(fs, <<"reply">> \o head, "cached", FALSE)
    IN  head \o (IF cached = TRUE THEN <<"path">> ELSE <<"data">>)

ExpectedFields(fs) ==
    LET op == IF fs[1].v.ok THEN fs[1].v.op ELSE "failure"
    IN  CASE op \in {"READ_FILE", "READ_FILE_RANGE"} -> ReadFields(fs)
          [] op = "GET_CAPACITY" -> <<"usage", "capacity", "count", "limit">>
          [] op = "GET_FILE_LIST" ->
                ListFields(fs, <<"name", "fsize", "ctime", "atime", "mtime">>)
          [] op \in {"GET_APPEND_SIZE", "GET_READ_SIZE", "APPEND_FILE", "OVERWRITE_FILE"} ->
                <<"size">>
          [] op = "GET_AGENT_STATUS" -> ListFields(fs, AgentFields(fs))
          [] op = "GET_PROXY_STATUS" -> RECV_SYS_INFO
          [] op = "GET_BG_TASK_PRG" -> ListFields(fs, <<"name", "progress">>)
          [] op = "GET_REPAIR_STATS" -> <<"count", "repair">>
          [] OTHER -> <<>>

\* issue_request on the reply fs to request r: ret is the reply, or -1 when a
\* part is missing or the data exceed the caller's buffer (ranged reads bring
\* one, of the length they ask for); rest is what is left unread on the socket.
getReply(fs, r) ==
    LET fields == <<"reply">> \o ExpectedFields(fs)
        size   == Field(fs, fields, "size", r.size)
        short  == /\ r.op = "READ_FILE_RANGE" /\ ~r.cached
                  /\ \E i \in DOMAIN fields : fields[i] = "data"
                  /\ size > r.size
    IN  [ret  |-> IF short \/ Len(fs) < Len(fields) THEN "-1" ELSE "reply",
         ok   |-> fs[1].v.ok,
         size |-> size,
         data |-> Field(fs, fields, "data", <<>>),
         rest |-> SubSeq(fs, Len(fields) + (IF short THEN 0 ELSE 1), Len(fs))]
================================================================================
