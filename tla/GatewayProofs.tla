------------------------------ MODULE GatewayProofs ------------------------
(****************************************************************************)
(* Proofs about Gateway, for any clients, workers, bounds on requests and   *)
(* scenarios that GatewayAssumption allows.                                 *)
(*                                                                          *)
(* The argument has two halves.  WireFaithful is about one message: what    *)
(* issue_request and sendReply put on a socket is one whole message, and    *)
(* getRequest and the client read from it exactly the parts that it has.    *)
(* Both sides decide on their own which parts there are, so this is proved  *)
(* kind by kind, on lists of fields; the replies are those of Gateway, with *)
(* at most one entry in a list.                                             *)
(*                                                                          *)
(* The invariant Inv is about the messages on their way.  WorkersServe and  *)
(* ConnectionsUsable only say that nothing is left unread, but that the     *)
(* reply a client reads answers the call it waits for needs to know where   *)
(* every message is: in one place only, of one call only (Places, HeldInv), *)
(* not executed before its worker calls the proxy (LogInv), and the only    *)
(* one of its client's connection (ClientInv).  From Inv each step is a     *)
(* step of RemoteCalls or leaves the variables of RemoteCalls alone.        *)
(****************************************************************************)
EXTENDS Gateway, Integers, TLAPS

(***************************************************************************)
(* Messages: what they consist of, and what is read from them              *)
(***************************************************************************)

\* The parts that a request or a reply can have, by what they stand for.
FieldNames ==
    {"opcode", "namespace", "class", "name", "size", "offset", "cached", "path", "data",
     "reply", "usage", "capacity", "count", "limit", "total", "fsize", "ctime", "atime",
     "mtime", "cpus", "cpu usage", "memory", "free", "in", "out", "host", "alive", "addr",
     "host type", "containers", "ids", "types", "usages", "capacities", "progress", "repair"}

Lists == Seq(FieldNames)

\* A message as it goes over the socket: the fields of a list in order, with the
\* values of val, each announcing the next one.
Parts(is, val, more) == [i \in 1 .. Len(is) |-> Frame(is[i], val[is[i]], i < Len(is) \/ more)]
FrameSet(val) == [is : FieldNames, v : {val[x] : x \in FieldNames}, more : BOOLEAN]

\* Field x is one of the list s.
Occurs(x, s) == \E i \in 1 .. Len(s) : s[i] = x

\* The operations on files, and those that carry a size, an offset or data.
FileOps == {"WRITE_FILE", "READ_FILE", "DEL_FILE", "APPEND_FILE", "OVERWRITE_FILE", "READ_FILE_RANGE",
            "RENAME_FILE", "COPY_FILE"}

SizedOps == {"WRITE_FILE", "APPEND_FILE", "OVERWRITE_FILE", "READ_FILE_RANGE", "COPY_FILE"}
OffsetOps == {"APPEND_FILE", "OVERWRITE_FILE", "READ_FILE_RANGE", "COPY_FILE"}
DataOps == {"WRITE_FILE", "APPEND_FILE", "OVERWRITE_FILE"}

\* What a client puts into the fields of a request (issue_request).
RequestValue(r) ==
    [x \in FieldNames |->
        CASE x = "opcode" -> r.op
          [] x = "namespace" -> "ns"
          [] x = "name" -> r.name
          [] x = "size" -> r.size
          [] x = "offset" -> r.offset
          [] x = "cached" -> r.cached
          [] x = "path" -> r.to
          [] x = "data" -> r.size
          [] OTHER -> x]

\* The fields after the namespace of a request that names a file (getRequest).
NamedFields(op) ==
    <<"name">> \o When(hasFileSize(op), <<"size">>)
    \o (IF op = "WRITE_FILE" THEN <<"class">> ELSE When(hasFileOffset(op), <<"offset">>))
    \o <<"cached">>

\* The field after "cached": the path of a cached file, or the data.
Extra(r) == IF r.cached THEN <<"path">> ELSE When(SendsData(r), <<"data">>)
SentFields(r) == RequestFields(r.op) \o Extra(r)
NamedOps == FileOps \cup {"GET_REPAIR_STATS"}

\* Which fields the head h of a request of kind op has, as far as getRequest looks.
HeadOK(op, h) ==
    /\ Occurs("cached", h) <=> op \in NamedOps
    /\ Occurs("size", h) <=> op \in SizedOps
    /\ Occurs("offset", h) <=> op \in OffsetOps
    /\ op \in NamedOps => Occurs("name", h)
    /\ ~Occurs("path", h) /\ ~Occurs("data", h)

\* The server's reading q of a request agrees with what the client asked, r, in
\* every field that the handler of that kind uses.
Same(q, r) ==
    /\ q.op = r.op /\ q.size = r.size /\ q.offset = r.offset /\ q.cached = r.cached
    /\ r.op \in FileOps => q.name = r.name
    /\ r.op \in {"RENAME_FILE", "COPY_FILE"} => q.to = r.to

\* The fields of a reply whose value matters, and lists without any of them.
Special == {"reply", "size", "cached", "data", "total", "containers"}
Plain(s) == s \in Lists /\ Len(s) > 0 /\ \A i \in 1 .. Len(s) : s[i] \notin Special

\* What a worker puts into the fields of a reply (sendReply).
ReplyValue(p) ==
    [x \in FieldNames |->
        CASE x = "reply" -> [op |-> p.op, ok |-> p.ok]
          [] x = "size" -> p.size
          [] x = "cached" -> p.cached
          [] x = "data" -> p.data
          [] x = "total" -> p.n
          [] x = "containers" -> p.m
          [] OTHER -> x]

Ops == FileOps \cup StatusOps \cup QueryOps
Few(n) == n \in {0, 1}

\* A reply the workers make: of a known kind, with at most one entry in its lists,
\* as in Gateway.
Answer(p) ==
    /\ p.op \in Ops /\ p.ok \in BOOLEAN /\ p.cached \in BOOLEAN
    /\ Few(p.n) /\ p.m = p.n

ReadOps == {"READ_FILE", "READ_FILE_RANGE"}

\* What an entry of a list reply consists of.
FileEntry == <<"name", "fsize", "ctime", "atime", "mtime">>
TaskEntry == <<"name", "progress">>
AgentHead == <<"alive", "addr", "host type">> \o RECV_SYS_INFO \o <<"containers">>
AgentEntry == AgentHead \o <<"ids", "types", "usages", "capacities">>

\* The fields of a reply with a list, and of a reply to a read.
ListReply(n, entry) == <<"total">> \o (IF n = 1 THEN entry ELSE <<>>)
ReadReply(p) ==
    When(p.op = "READ_FILE_RANGE", <<"offset">>) \o <<"size", "cached">>
    \o (IF p.cached THEN <<"path">> ELSE <<"data">>)

\* What sendReply sends after the part "reply", case by case as in the code, and
\* the list of fields it amounts to.
ReplyTail(p) ==
    CASE ~p.ok -> <<>>
      [] replyFileData(p) ->
            When(p.op = "READ_FILE_RANGE", Fields(<<"offset">>, TRUE))
            \o <<Frame("size", p.size, TRUE), Frame("cached", p.cached, TRUE)>>
            \o (IF p.cached THEN Fields(<<"path">>, FALSE) ELSE <<Frame("data", p.data, FALSE)>>)
      [] p.ok /\ p.op = "GET_CAPACITY" ->
            Fields(<<"usage", "capacity", "count", "limit">>, FALSE)
      [] p.ok /\ p.op = "GET_FILE_LIST" ->
            Total(p.n) \o InRow([i \in 1 .. p.n |->
                Fields(<<"name", "fsize", "ctime", "atime", "mtime">>, i # p.n)])
      [] p.ok /\ p.op \in {"GET_APPEND_SIZE", "GET_READ_SIZE", "APPEND_FILE", "OVERWRITE_FILE"} ->
            <<Frame("size", p.size, FALSE)>>
      [] p.ok /\ p.op = "GET_AGENT_STATUS" ->
            Total(p.n) \o InRow([i \in 1 .. p.n |-> AgentFrames(p, i)])
      [] p.ok /\ p.op = "GET_PROXY_STATUS" -> SEND_SYS_INFO(FALSE)
      [] p.ok /\ p.op = "GET_BG_TASK_PRG" ->
            Total(p.n) \o InRow([i \in 1 .. p.n |-> Fields(<<"name", "progress">>, i # p.n)])
      [] p.ok /\ p.op = "GET_REPAIR_STATS" -> Fields(<<"count", "repair">>, FALSE)
      [] OTHER -> <<>>

Body(p) ==
    CASE ~p.ok -> <<>>
      [] p.ok /\ p.op \in {"READ_FILE", "READ_FILE_RANGE"} -> ReadReply(p)
      [] p.ok /\ p.op = "GET_CAPACITY" -> <<"usage", "capacity", "count", "limit">>
      [] p.ok /\ p.op = "GET_FILE_LIST" -> ListReply(p.n, FileEntry)
      [] p.ok /\ p.op \in {"GET_APPEND_SIZE", "GET_READ_SIZE", "APPEND_FILE", "OVERWRITE_FILE"} -> <<"size">>
      [] p.ok /\ p.op = "GET_AGENT_STATUS" -> ListReply(p.n, AgentEntry)
      [] p.ok /\ p.op = "GET_PROXY_STATUS" -> RECV_SYS_INFO
      [] p.ok /\ p.op = "GET_BG_TASK_PRG" -> ListReply(p.n, TaskEntry)
      [] p.ok /\ p.op = "GET_REPAIR_STATS" -> <<"count", "repair">>
      [] OTHER -> <<>>

ShortOps == {"WRITE_FILE", "DEL_FILE", "RENAME_FILE", "COPY_FILE"}
SizeOps == {"GET_APPEND_SIZE", "GET_READ_SIZE", "APPEND_FILE", "OVERWRITE_FILE"}

\* The replies that carry a size, and data.
HasSize(p) == p.ok /\ p.op \in ReadOps \cup SizeOps
HasData(p) == p.ok /\ p.op \in ReadOps /\ ~p.cached
Without(s) == s \in Lists /\ ~Occurs("size", s) /\ ~Occurs("data", s)

\* A partial read returns no more than was asked for, as the client checks.
Bounded(p, r) == p.ok /\ r.op = "READ_FILE_RANGE" => p.size \in Nat /\ r.size \in Nat /\ p.size <= r.size

\* A request of the client library is accepted by the socket as one whole message,
\* and getRequest reads from it what was asked, no part too many or too few.
RequestArrives ==
    \A r \in Library :
        /\ Message(RequestFrames(r)) = [whole |-> TRUE, parts |-> RequestFrames(r), over |-> FALSE]
        /\ LET g == getRequest(RequestFrames(r))
           IN  g.rc = "0" /\ g.rest = <<>> /\ Same(g.req, r)

\* A reply is accepted as one whole message, and a client that asked for that
\* kind of reply reads from it the status, the size and the data that were sent.
ReplyArrives ==
    \A p : Answer(p) =>
        /\ Message(ReplyFrames(p)) = [whole |-> TRUE, parts |-> ReplyFrames(p), over |-> FALSE]
        /\ \A r : p.op = r.op /\ Bounded(p, r) =>
              getReply(ReplyFrames(p), r) = [ret |-> "reply", ok |-> p.ok, size |-> IF HasSize(p) THEN p.size ELSE r.size,
                                             data |-> IF HasData(p) THEN p.data ELSE <<>>, rest |-> <<>>]

\* What the requests that the client library can build have in common.
LEMMA LibraryFacts ==
  ASSUME NEW r \in Library
  PROVE  /\ r.op \in FileOps \cup StatusOps \cup QueryOps
         /\ r.size \in Nat /\ r.offset \in Nat /\ r.cached \in BOOLEAN
         /\ r.op \notin SizedOps => r.size = 0
         /\ r.op \notin OffsetOps => r.offset = 0
         /\ r.op \in {"RENAME_FILE", "COPY_FILE"} => r.cached
         /\ r.op \in StatusOps \cup QueryOps \cup {"DEL_FILE"} => ~r.cached
  <1>0. MaxSize \in Nat /\ 0 \in Nat /\ \A n \in 0 .. MaxSize : n \in Nat
    BY GatewayAssumption
  <1>1. CASE r \in set_file_write_request
    <2>1. PICK n \in 0 .. MaxSize, b \in BOOLEAN : r = Request("WRITE_FILE", "f", n, 0, b, "path")
      BY <1>1 DEF set_file_write_request
    <2>2. r.op = "WRITE_FILE" /\ r.size = n /\ r.offset = 0 /\ r.cached = b
      BY <2>1, Zenon DEF Request
    <2> QED BY <1>0, <2>2, Zenon DEF FileOps, SizedOps, OffsetOps, StatusOps, QueryOps
  <1>2. CASE r \in set_file_read_request
    <2>1. PICK b \in BOOLEAN : r = Request("READ_FILE", "f", 0, 0, b, "path")
      BY <1>2, Zenon DEF set_file_read_request
    <2>2. r.op = "READ_FILE" /\ r.size = 0 /\ r.offset = 0 /\ r.cached = b
      BY <2>1, Zenon DEF Request
    <2> QED BY <1>0, <2>2, Zenon DEF FileOps, SizedOps, OffsetOps, StatusOps, QueryOps
  <1>3. CASE r \in set_delete_file_request
    <2>1. r = Request("DEL_FILE", "f", 0, 0, FALSE, "path")
      BY <1>3, Zenon DEF set_delete_file_request
    <2>2. r.op = "DEL_FILE" /\ r.size = 0 /\ r.offset = 0 /\ r.cached = FALSE
      BY <2>1, Zenon DEF Request
    <2> QED BY <1>0, <2>2, Zenon DEF FileOps, SizedOps, OffsetOps, StatusOps, QueryOps
  <1>4. CASE r \in set_file_append_request
    <2>1. PICK n \in 0 .. MaxSize, o \in 0 .. MaxSize, b \in BOOLEAN : r = Request("APPEND_FILE", "f", n, o, b, "path")
      BY <1>4 DEF set_file_append_request
    <2>2. r.op = "APPEND_FILE" /\ r.size = n /\ r.offset = o /\ r.cached = b
      BY <2>1, Zenon DEF Request
    <2> QED BY <1>0, <2>2, Zenon DEF FileOps, SizedOps, OffsetOps, StatusOps, QueryOps
  <1>5. CASE r \in set_buffered_file_overwrite_request
    <2>1. PICK n, o \in 0 .. MaxSize : r = Request("OVERWRITE_FILE", "f", n, o, FALSE, "path")
      BY <1>5, SMTT(30) DEF set_buffered_file_overwrite_request, Request
    <2>2. r.op = "OVERWRITE_FILE" /\ r.size = n /\ r.offset = o /\ r.cached = FALSE
      BY <2>1, Zenon DEF Request
    <2> QED BY <1>0, <2>2, Zenon DEF FileOps, SizedOps, OffsetOps, StatusOps, QueryOps
  <1>6. CASE r \in set_file_partial_read_request
    <2>1. PICK n \in 0 .. MaxSize, o \in 0 .. MaxSize, b \in BOOLEAN : r = Request("READ_FILE_RANGE", "f", n, o, b, "path")
      BY <1>6 DEF set_file_partial_read_request
    <2>2. r.op = "READ_FILE_RANGE" /\ r.size = n /\ r.offset = o /\ r.cached = b
      BY <2>1, Zenon DEF Request
    <2> QED BY <1>0, <2>2, Zenon DEF FileOps, SizedOps, OffsetOps, StatusOps, QueryOps
  <1>7. CASE r \in set_file_rename_request
    <2>1. r = Request("RENAME_FILE", "f", 0, 0, TRUE, "g")
      BY <1>7, Zenon DEF set_file_rename_request
    <2>2. r.op = "RENAME_FILE" /\ r.size = 0 /\ r.offset = 0 /\ r.cached = TRUE
      BY <2>1, Zenon DEF Request
    <2> QED BY <1>0, <2>2, Zenon DEF FileOps, SizedOps, OffsetOps, StatusOps, QueryOps
  <1>8. CASE r \in set_file_copy_request
    <2>1. r = Request("COPY_FILE", "f", MaxSize, 0, TRUE, "g")
      BY <1>8, Zenon DEF set_file_copy_request
    <2>2. r.op = "COPY_FILE" /\ r.size = MaxSize /\ r.offset = 0 /\ r.cached = TRUE
      BY <2>1, Zenon DEF Request
    <2> QED BY <1>0, <2>2, Zenon DEF FileOps, SizedOps, OffsetOps, StatusOps, QueryOps
  <1>9. CASE r \in set_get_request
    <2>1. PICK op \in StatusOps \cup QueryOps : r = Request(op, "f", 0, 0, FALSE, "path")
      BY <1>9, Zenon DEF set_get_request
    <2>2. r.op = op /\ r.size = 0 /\ r.offset = 0 /\ r.cached = FALSE
      BY <2>1, Zenon DEF Request
    <2> QED BY <1>0, <2>2, Zenon DEF FileOps, SizedOps, OffsetOps, StatusOps, QueryOps
  <1> QED BY <1>1, <1>2, <1>3, <1>4, <1>5, <1>6, <1>7, <1>8, <1>9, Zenon DEF Library

\* Client and server agree on the parts of every message: each of the requests
\* that the client library builds reaches the server as it was meant, and each
\* reply the client, although the parts depend on the kind of request, on success
\* and on values that were sent before (issue_request, getRequest, sendReply).
\* Steps of this proof that stand for a fact about lists or parts have names.
THEOREM WireFaithful ==
  RequestArrives /\ ReplyArrives
  \* Facts about sequences.
  <1>SeqSame.
    ASSUME NEW S, NEW a \in Seq(S), NEW b \in Seq(S), Len(a) = Len(b), \A k \in 1 .. Len(a) : a[k] = b[k]
    PROVE  a = b
    BY <1>SeqSame
  <1>SeqJoin.
    ASSUME NEW S, NEW a \in Seq(S), NEW b \in Seq(S)
    PROVE  /\ a \o b \in Seq(S) /\ Len(a \o b) = Len(a) + Len(b)
           /\ \A k \in 1 .. Len(a \o b) : (a \o b)[k] = IF k <= Len(a) THEN a[k] ELSE b[k - Len(a)]
           /\ a \o b = <<>> => a = <<>> /\ b = <<>>
    OBVIOUS
  <1>SeqUnit.
    ASSUME NEW S, NEW a \in Seq(S)
    PROVE  a \o <<>> = a /\ <<>> \o a = a
    OBVIOUS
  <1>SeqJoins.
    ASSUME NEW S, NEW a \in Seq(S), NEW b \in Seq(S), NEW c \in Seq(S)
    PROVE  (a \o b) \o c = a \o (b \o c)
    <2> DEFINE l == (a \o b) \o c
               r == a \o (b \o c)
    <2>1. l \in Seq(S) /\ r \in Seq(S) /\ Len(l) = Len(r)
      OBVIOUS
    <2>2. \A k \in 1 .. Len(l) : l[k] = r[k]
      OBVIOUS
    <2> QED BY <2>1, <2>2, <1>SeqSame, Zenon
  <1>SeqNoRest.
    ASSUME NEW a, NEW m \in Int, NEW n \in Int, n < m
    PROVE  SubSeq(a, m, n) = <<>>
    BY <1>SeqNoRest
  \* The fields of a part, and the parts of a list of fields.
  <1>FrameFields.
    ASSUME NEW a, NEW b, NEW c
    PROVE  Frame(a, b, c).is = a /\ Frame(a, b, c).v = b /\ Frame(a, b, c).more = c
    BY Zenon DEF Frame
  <1>PartsType.
    ASSUME NEW s \in Lists, NEW val, NEW more \in BOOLEAN
    PROVE  /\ Parts(s, val, more) \in Seq(FrameSet(val)) /\ Len(Parts(s, val, more)) = Len(s)
           /\ \A i \in 1 .. Len(s) : Parts(s, val, more)[i] = Frame(s[i], val[s[i]], i < Len(s) \/ more)
    <2> DEFINE fs == Parts(s, val, more)
    <2>1. Len(s) \in Nat /\ \A i \in 1 .. Len(s) : s[i] \in FieldNames
      BY DEF Lists
    <2>2. \A i \in 1 .. Len(s) : Frame(s[i], val[s[i]], i < Len(s) \/ more) \in FrameSet(val)
      BY <2>1, Zenon DEF Frame, FrameSet
    <2>3. fs \in [1 .. Len(s) -> FrameSet(val)]
      BY <2>2, Zenon DEF Parts
    <2>4. \A i \in 1 .. Len(s) : fs[i] = Frame(s[i], val[s[i]], i < Len(s) \/ more)
      BY Zenon DEF Parts
    <2> HIDE DEF fs
    <2>5. fs \in Seq(FrameSet(val)) /\ Len(fs) = Len(s)
      BY <2>1, <2>3
    <2> QED BY <2>4, <2>5, Zenon DEF fs
  \* Two runs of parts in a row are the parts of the joined list, if the last part
  \* of the first run announces more exactly when more follows.
  <1>Joined.
    ASSUME NEW s \in Lists, NEW t \in Lists, NEW val, NEW more \in BOOLEAN,
           NEW last \in BOOLEAN, last <=> (Len(t) > 0 \/ more)
    PROVE  s \o t \in Lists /\ Parts(s, val, last) \o Parts(t, val, more) = Parts(s \o t, val, more)
    <2> USE <1>Joined
    <2> DEFINE a == Parts(s, val, last)
               b == Parts(t, val, more)
               c == Parts(s \o t, val, more)
               S == FrameSet(val)
    <2>1. s \o t \in Lists /\ Len(s \o t) = Len(s) + Len(t) /\ Len(s) \in Nat /\ Len(t) \in Nat
      BY DEF Lists
    <2>2. /\ \A i \in 1 .. Len(s) : (s \o t)[i] = s[i]
          /\ \A i \in 1 .. Len(t) : (s \o t)[Len(s) + i] = t[i]
      BY DEF Lists
    <2>3. a \in Seq(S) /\ b \in Seq(S) /\ c \in Seq(S) /\ Len(a) = Len(s) /\ Len(b) = Len(t) /\ Len(c) = Len(s) + Len(t)
      BY <2>1, <1>PartsType, Zenon
    <2>4. /\ \A i \in 1 .. Len(s) : a[i] = Frame(s[i], val[s[i]], i < Len(s) \/ last)
          /\ \A i \in 1 .. Len(t) : b[i] = Frame(t[i], val[t[i]], i < Len(t) \/ more)
      BY <1>PartsType, ZenonT(60)
    <2>8. \A i \in 1 .. Len(s) + Len(t) : c[i] = Frame((s \o t)[i], val[(s \o t)[i]], i < Len(s) + Len(t) \/ more)
      <3> HIDE DEF c
      <3> DEFINE u == s \o t
      <3>1. u \in Lists /\ Len(u) = Len(s) + Len(t)
        BY <2>1, Zenon
      <3> HIDE DEF u
      <3>2. \A i \in 1 .. Len(u) : Parts(u, val, more)[i] = Frame(u[i], val[u[i]], i < Len(u) \/ more)
        BY <3>1, <1>PartsType, Zenon
      <3> QED BY <3>1, <3>2, Zenon DEF u, c
    <2> HIDE DEF a, b, c, S
    <2>5. a \o b \in Seq(S) /\ Len(a \o b) = Len(c)
      BY <2>1, <2>3, SMTT(30)
    <2>6. ASSUME NEW i \in 1 .. Len(c) PROVE (a \o b)[i] = c[i]
      <3>1. CASE i \in 1 .. Len(s)
        <4>1. (a \o b)[i] = a[i]
          BY <2>1, <2>3, <3>1
        <4>2. (i < Len(s) + Len(t) \/ more) <=> (i < Len(s) \/ last)
          BY <2>1, <3>1
        <4> QED BY <2>1, <2>2, <2>3, <2>4, <2>8, <3>1, <4>1, <4>2, ZenonT(30)
      <3>2. CASE i \notin 1 .. Len(s)
        <4>1. PICK j \in 1 .. Len(t) : i = Len(s) + j
          <5>1. i - Len(s) \in 1 .. Len(t) /\ i = Len(s) + (i - Len(s))
            BY <2>1, <2>3, <2>6, <3>2
          <5> QED BY <5>1, Zenon
        <4>2. (a \o b)[i] = b[j]
          BY <2>1, <2>3, <4>1
        <4>3. (i < Len(s) + Len(t) \/ more) <=> (j < Len(t) \/ more)
          BY <2>1, <4>1
        <4> QED BY <2>1, <2>2, <2>3, <2>4, <2>6, <2>8, <4>1, <4>2, <4>3, ZenonT(30)
      <3> QED BY <3>1, <3>2, Zenon
    <2>7. a \o b = c
      BY <2>3, <2>5, <2>6, <1>SeqSame, Zenon
    <2> QED BY <2>1, <2>7, Zenon DEF a, b, c
  <1>PartsOne.
    ASSUME NEW x \in FieldNames, NEW val, NEW more \in BOOLEAN
    PROVE  <<x>> \in Lists /\ <<x>> # <<>> /\ <<Frame(x, val[x], more)>> = Parts(<<x>>, val, more)
    <2>1. <<x>> \in Lists /\ Len(<<x>>) = 1 /\ <<x>>[1] = x
      BY DEF Lists
    <2>2. Parts(<<x>>, val, more) \in Seq(FrameSet(val)) /\ Len(Parts(<<x>>, val, more)) = 1 /\ Parts(<<x>>, val, more)[1] = Frame(x, val[x], more)
      BY <2>1, <1>PartsType
    <2> QED BY <2>1, <2>2
  <1>PartsNone.
    ASSUME NEW val, NEW more \in BOOLEAN
    PROVE  <<>> \in Lists /\ Parts(<<>>, val, more) = <<>>
    <2>1. <<>> \in Lists /\ Len(<<>>) = 0
      BY DEF Lists
    <2>2. Parts(<<>>, val, more) \in Seq(FrameSet(val)) /\ Len(Parts(<<>>, val, more)) = 0
      BY <2>1, <1>PartsType, Zenon
    <2> QED BY <2>1, <2>2
  \* The socket takes the parts of a list as one whole message.
  <1>PartsSent.
    ASSUME NEW s \in Lists, NEW val, s # <<>>
    PROVE  Message(Parts(s, val, FALSE)) = [whole |-> TRUE, parts |-> Parts(s, val, FALSE), over |-> FALSE]
    <2> USE <1>PartsSent
    <2> DEFINE fs == Parts(s, val, FALSE)
               ends == {i \in DOMAIN fs : ~fs[i].more}
               end == CHOOSE i \in ends : \A j \in ends : i <= j
    <2>1. fs \in Seq(FrameSet(val)) /\ Len(fs) = Len(s)
          /\ \A i \in 1 .. Len(s) : fs[i] = Frame(s[i], val[s[i]], i < Len(s) \/ FALSE)
      BY <1>PartsType, Zenon
    <2>2. Len(s) \in Nat /\ Len(s) > 0
      BY DEF Lists
    <2> HIDE DEF fs
    <2>3. DOMAIN fs = 1 .. Len(s)
      BY <2>1
    <2>0. ASSUME NEW i \in 1 .. Len(s) PROVE fs[i].more <=> i < Len(s)
      <3>1. fs[i] = Frame(s[i], val[s[i]], i < Len(s) \/ FALSE)
        BY <2>1, Zenon
      <3>2. fs[i].more = (i < Len(s) \/ FALSE)
        BY <3>1, <1>FrameFields
      <3> QED BY <3>2, Zenon
    <2>4. ends = {Len(s)}
      BY <2>0, <2>2, <2>3
    <2>5. end = Len(s)
      BY <2>2, <2>4
    <2> HIDE DEF end
    <2>6. SubSeq(fs, 1, Len(s)) = fs
      BY <2>1, <2>2
    <2>7. ~(end < Len(fs))
      BY <2>1, <2>2, <2>5
    <2>8. ends # {}
      BY <2>4, Zenon
    <2> HIDE DEF ends
    <2>9. Message(fs) = [whole |-> ends # {}, parts |-> IF ends = {} THEN <<>> ELSE SubSeq(fs, 1, end), over |-> ends # {} /\ end < Len(fs)]
      BY Zenon DEF Message, end, ends
    <2> QED BY <2>5, <2>6, <2>7, <2>8, <2>9, Zenon DEF fs
  <1>OccursCat.
    ASSUME NEW s \in Lists, NEW t \in Lists, NEW x
    PROVE  Occurs(x, s \o t) <=> (Occurs(x, s) \/ Occurs(x, t))
    <2>1. Len(s \o t) = Len(s) + Len(t) /\ Len(s) \in Nat /\ Len(t) \in Nat
      BY DEF Lists
    <2>2. /\ \A i \in 1 .. Len(s) : (s \o t)[i] = s[i]
          /\ \A i \in 1 .. Len(t) : (s \o t)[Len(s) + i] = t[i]
      BY DEF Lists
    <2>3. Occurs(x, s) => Occurs(x, s \o t)
      BY <2>1, <2>2 DEF Occurs
    <2>4. Occurs(x, t) => Occurs(x, s \o t)
      <3> SUFFICES ASSUME Occurs(x, t) PROVE Occurs(x, s \o t)
        BY Zenon
      <3>1. PICK i \in 1 .. Len(t) : t[i] = x
        BY Zenon DEF Occurs
      <3>2. Len(s) + i \in 1 .. Len(s \o t) /\ (s \o t)[Len(s) + i] = x
        BY <2>1, <2>2, <3>1
      <3> QED BY <3>2, Zenon DEF Occurs
    <2>5. Occurs(x, s \o t) => Occurs(x, s) \/ Occurs(x, t)
      <3> SUFFICES ASSUME Occurs(x, s \o t), ~Occurs(x, s) PROVE Occurs(x, t)
        BY Zenon
      <3>1. PICK i \in 1 .. Len(s \o t) : (s \o t)[i] = x
        BY Zenon DEF Occurs
      <3>2. i \notin 1 .. Len(s)
        BY <2>2, <3>1, Zenon DEF Occurs
      <3>3. i - Len(s) \in 1 .. Len(t) /\ i = Len(s) + (i - Len(s))
        BY <2>1, <3>2
      <3>4. t[i - Len(s)] = x
        BY <2>2, <3>1, <3>3, Zenon
      <3> QED BY <3>3, <3>4, Zenon DEF Occurs
    <2> QED BY <2>3, <2>4, <2>5, Zenon
  <1>OccursOne.
    ASSUME NEW x, NEW y
    PROVE  (Occurs(x, <<y>>) <=> x = y) /\ ~Occurs(x, <<>>)
    BY DEF Occurs
  \* A reader that expects the list s at the beginning of a message finds each field
  \* of s with its value, and the default for other fields.
  <1>FieldReads.
    ASSUME NEW s \in Lists, NEW t \in Lists, NEW val, NEW x, NEW def
    PROVE  LET fs == Parts(s \o t, val, FALSE)
           IN  /\ Occurs(x, s) => Field(fs, s, x, def) = val[x]
               /\ ~Occurs(x, s) => Field(fs, s, x, def) = def
    <2> DEFINE u == s \o t
               fs == Parts(u, val, FALSE)
               at == {i \in DOMAIN s : s[i] = x}
               k == CHOOSE i \in at : TRUE
    <2>1. u \in Lists /\ Len(u) = Len(s) + Len(t) /\ Len(s) \in Nat /\ Len(t) \in Nat /\ \A i \in 1 .. Len(s) : u[i] = s[i]
      BY DEF Lists
    <2>2. DOMAIN s = 1 .. Len(s)
      BY DEF Lists
    <2> HIDE DEF u
    <2>3. Len(fs) = Len(u) /\ \A i \in 1 .. Len(u) : fs[i] = Frame(u[i], val[u[i]], i < Len(u) \/ FALSE)
      BY <2>1, <1>PartsType, Zenon
    <2>4. Field(fs, s, x, def) = CASE at = {} -> def
                                   [] at # {} /\ (k > Len(fs) \/ fs[k].is # x) -> Garbage
                                   [] OTHER -> fs[k].v
      BY Zenon DEF Field
    <2> HIDE DEF fs
    <2>5. CASE Occurs(x, s)
      <3>1. at # {}
        BY <2>2, <2>5, Zenon DEF Occurs
      <3>2. k \in at
        BY <3>1, Zenon
      <3>3. k \in 1 .. Len(s) /\ s[k] = x
        BY <2>2, <3>2, Zenon
      <3> HIDE DEF k, at
      <3>4. k \in 1 .. Len(u) /\ u[k] = x
        BY <2>1, <3>3
      <3>0. fs[k] = Frame(x, val[x], k < Len(u) \/ FALSE)
        BY <2>3, <3>4, Zenon
      <3>5. fs[k].is = x /\ fs[k].v = val[x]
        BY <3>0, <1>FrameFields
      <3>6. ~(k > Len(fs))
        BY <2>1, <2>3, <3>4
      <3> QED BY <2>4, <2>5, <3>1, <3>5, <3>6, Zenon DEF u, fs
    <2>6. CASE ~Occurs(x, s)
      <3>1. at = {}
        BY <2>2, <2>6, Zenon DEF Occurs
      <3> HIDE DEF at
      <3> QED BY <2>4, <2>6, <3>1, Zenon DEF u, fs
    <2> QED BY <2>5, <2>6, Zenon
  \* Lists can be joined, in any grouping.
  <1>ListsJoin.
    /\ \A s, t \in Lists : s \o t \in Lists
    /\ \A s, t, u \in Lists : (s \o t) \o u = s \o (t \o u)
    /\ \A s \in Lists : s \o <<>> = s /\ <<>> \o s = s
    /\ \A s, t \in Lists : t # <<>> => s \o t # <<>>
    /\ \A s, t \in Lists : s # <<>> => s \o t # <<>>
    BY <1>SeqJoin, <1>SeqJoins, <1>SeqUnit, SMTT(30) DEF Lists
  <1>JoinOpen.
    ASSUME NEW s \in Lists, NEW t \in Lists, NEW val
    PROVE  s \o t \in Lists /\ Parts(s, val, TRUE) \o Parts(t, val, TRUE) = Parts(s \o t, val, TRUE)
    <2>1. TRUE \in BOOLEAN /\ (TRUE <=> (Len(t) > 0 \/ TRUE))
      BY Zenon
    <2> QED BY <2>1, <1>Joined, ZenonT(60)
  <1>JoinClosed.
    ASSUME NEW s \in Lists, NEW t \in Lists, Len(t) > 0, NEW val
    PROVE  s \o t \in Lists /\ Parts(s, val, TRUE) \o Parts(t, val, FALSE) = Parts(s \o t, val, FALSE)
    <2> USE <1>JoinClosed
    <2> DEFINE last == TRUE
               more == FALSE
    <2>1. last \in BOOLEAN /\ more \in BOOLEAN /\ (last <=> (Len(t) > 0 \/ more))
      BY Zenon
    <2> HIDE DEF last, more
    <2>2. s \o t \in Lists /\ Parts(s, val, last) \o Parts(t, val, more) = Parts(s \o t, val, more)
      BY <2>1, <1>Joined
    <2> QED BY <2>2, Zenon DEF last, more
  <1>ListsCat.
    ASSUME NEW s \in Lists, NEW t \in Lists
    PROVE  /\ Len(s \o t) = Len(s) + Len(t) /\ Len(s) \in Nat /\ Len(t) \in Nat
           /\ \A i \in 1 .. Len(s) : (s \o t)[i] = s[i]
    BY DEF Lists
  \* The same for a reader that expects exactly what was sent.
  <1>FieldWhole.
    ASSUME NEW s \in Lists, NEW val, NEW x, NEW def
    PROVE  LET fs == Parts(s, val, FALSE)
           IN  /\ Occurs(x, s) => Field(fs, s, x, def) = val[x]
               /\ ~Occurs(x, s) => Field(fs, s, x, def) = def
    <2> DEFINE t == <<>>
    <2>1. t \in Lists /\ s \o t = s
      <3>1. <<>> \in Lists
        BY DEF Lists
      <3>2. s \o <<>> = s
        BY <1>ListsJoin, Zenon
      <3> QED BY <3>1, <3>2, Zenon
    <2> HIDE DEF t
    <2>2. /\ Occurs(x, s) => Field(Parts(s \o t, val, FALSE), s, x, def) = val[x]
          /\ ~Occurs(x, s) => Field(Parts(s \o t, val, FALSE), s, x, def) = def
      <3>1. t \in Lists
        BY <2>1, Zenon
      <3> QED BY <3>1, <1>FieldReads, Zenon
    <2> QED BY <2>1, <2>2, Zenon
  \* The names used below are names of fields.
  <1>FieldNamed.
    /\ "opcode" \in FieldNames /\ "namespace" \in FieldNames /\ "class" \in FieldNames /\ "name" \in FieldNames
    /\ "size" \in FieldNames /\ "offset" \in FieldNames /\ "cached" \in FieldNames /\ "path" \in FieldNames
    /\ "data" \in FieldNames /\ "reply" \in FieldNames /\ "usage" \in FieldNames /\ "capacity" \in FieldNames
    /\ "count" \in FieldNames /\ "limit" \in FieldNames /\ "total" \in FieldNames /\ "fsize" \in FieldNames
    /\ "ctime" \in FieldNames /\ "atime" \in FieldNames /\ "mtime" \in FieldNames /\ "cpus" \in FieldNames
    /\ "cpu usage" \in FieldNames /\ "memory" \in FieldNames /\ "free" \in FieldNames /\ "in" \in FieldNames
    /\ "out" \in FieldNames /\ "host" \in FieldNames /\ "alive" \in FieldNames /\ "addr" \in FieldNames
    /\ "host type" \in FieldNames /\ "containers" \in FieldNames /\ "ids" \in FieldNames /\ "types" \in FieldNames
    /\ "usages" \in FieldNames /\ "capacities" \in FieldNames /\ "progress" \in FieldNames /\ "repair" \in FieldNames
    BY ZenonT(60) DEF FieldNames
  <1>Single.
    ASSUME NEW x \in FieldNames
    PROVE  <<x>> \in Lists /\ Len(<<x>>) = 1 /\ Len(<<x>>) > 0 /\ <<x>> # <<>>
    BY DEF Lists
  <1>Empty.
    <<>> \in Lists /\ Len(<<>>) = 0 /\ ~(Len(<<>>) > 0)
    BY DEF Lists
  \* Where the fields of a joined list come from.
  <1>OccursList.
    /\ \A s, t \in Lists : \A x : Occurs(x, s \o t) <=> (Occurs(x, s) \/ Occurs(x, t))
    /\ \A x, y : Occurs(x, <<y>>) <=> x = y
    /\ \A x : ~Occurs(x, <<>>)
    BY <1>OccursCat, <1>OccursOne, Zenon
  \* Requests: what issue_request sends getRequest reads.
  <1>Requests. RequestArrives
    \* The values of the fields of a request.
    <2>RequestValueOf.
      ASSUME NEW r
      PROVE  /\ RequestValue(r)["opcode"] = r.op /\ RequestValue(r)["namespace"] = "ns"
             /\ RequestValue(r)["class"] = "class"
             /\ RequestValue(r)["name"] = r.name /\ RequestValue(r)["size"] = r.size
             /\ RequestValue(r)["offset"] = r.offset /\ RequestValue(r)["cached"] = r.cached
             /\ RequestValue(r)["path"] = r.to /\ RequestValue(r)["data"] = r.size
      BY <1>FieldNamed, Zenon DEF RequestValue
    \* The client (has_...) and the server (has...) classify the kinds of requests alike.
    <2>OpsDiffer.
      /\ \A op \in StatusOps : has_opcode_only(op) /\ hasOpcodeOnly(op) /\ ~has_file_data(op) /\ ~hasFileData(op)
      /\ \A op \in QueryOps : ~has_opcode_only(op) /\ ~hasOpcodeOnly(op) /\ ~has_file_data(op) /\ ~hasFileData(op)
                              /\ ~has_size_or_length(op) /\ ~hasFileSize(op) /\ ~has_offset(op) /\ ~hasFileOffset(op)
                              /\ op # "WRITE_FILE"
      /\ \A op \in FileOps : ~has_opcode_only(op) /\ ~hasOpcodeOnly(op)
                              /\ op \notin {"GET_APPEND_SIZE", "GET_READ_SIZE", "GET_FILE_LIST"}
      /\ \A op : /\ has_size_or_length(op) <=> hasFileSize(op)
                 /\ has_offset(op) <=> hasFileOffset(op)
                 /\ has_file_data(op) <=> hasFileData(op)
      BY Zenon DEF StatusOps, QueryOps, FileOps, has_opcode_only, hasOpcodeOnly, has_file_data, hasFileData,
                has_size_or_length, hasFileSize, has_offset, hasFileOffset
    \* issue_request's parts after the namespace are those of the fields getRequest reads.
    <2>NamedParts.
      ASSUME NEW r \in Library, r.op \notin StatusOps, r.op \notin {"GET_APPEND_SIZE", "GET_READ_SIZE", "GET_FILE_LIST"}
      PROVE  /\ NamedFields(r.op) \in Lists /\ Extra(r) \in Lists
             /\ <<Frame("name", r.name, TRUE)>>
                \o When(has_size_or_length(r.op), <<Frame("size", r.size, TRUE)>>)
                \o (IF r.op = "WRITE_FILE" THEN <<Frame("class", "class", TRUE)>>
                    ELSE When(has_offset(r.op), <<Frame("offset", r.offset, TRUE)>>))
                \o <<Frame("cached", r.cached, SendsData(r) \/ r.cached)>>
                \o (IF r.cached THEN <<Frame("path", r.to, FALSE)>>
                    ELSE When(SendsData(r), <<Frame("data", r.size, FALSE)>>))
                = Parts(NamedFields(r.op) \o Extra(r), RequestValue(r), FALSE)
      <3> USE <2>NamedParts
      <3> DEFINE v == RequestValue(r)
                 a == <<"name">>
                 b == When(hasFileSize(r.op), <<"size">>)
                 c == IF r.op = "WRITE_FILE" THEN <<"class">> ELSE When(hasFileOffset(r.op), <<"offset">>)
                 d == <<"cached">>
                 e == Extra(r)
                 A == <<Frame("name", r.name, TRUE)>>
                 B == When(has_size_or_length(r.op), <<Frame("size", r.size, TRUE)>>)
                 C == IF r.op = "WRITE_FILE" THEN <<Frame("class", "class", TRUE)>>
                      ELSE When(has_offset(r.op), <<Frame("offset", r.offset, TRUE)>>)
                 D == <<Frame("cached", r.cached, SendsData(r) \/ r.cached)>>
                 E == IF r.cached THEN <<Frame("path", r.to, FALSE)>>
                      ELSE When(SendsData(r), <<Frame("data", r.size, FALSE)>>)
                 last == SendsData(r) \/ r.cached
      <3>0. last \in BOOLEAN /\ r.cached \in BOOLEAN
        BY LibraryFacts, Zenon
      <3>1. a \in Lists /\ A = Parts(a, v, TRUE)
        BY <1>FieldNamed, <2>RequestValueOf, <1>PartsOne, Zenon
      <3>2. b \in Lists /\ B = Parts(b, v, TRUE)
        <4>1. CASE hasFileSize(r.op)
          <5>1. b = <<"size">> /\ B = <<Frame("size", v["size"], TRUE)>>
            BY <4>1, <2>OpsDiffer, <2>RequestValueOf, Zenon DEF When
          <5> QED BY <5>1, <1>FieldNamed, <1>PartsOne, Zenon
        <4>2. CASE ~hasFileSize(r.op)
          <5>1. b = <<>> /\ B = <<>>
            BY <4>2, <2>OpsDiffer, Zenon DEF When
          <5> QED BY <5>1, <1>PartsNone, Zenon
        <4> QED BY <4>1, <4>2, Zenon
      <3>3. c \in Lists /\ C = Parts(c, v, TRUE)
        <4>1. CASE r.op = "WRITE_FILE"
          <5>1. c = <<"class">> /\ C = <<Frame("class", v["class"], TRUE)>>
            BY <4>1, <2>RequestValueOf, Zenon
          <5> QED BY <5>1, <1>FieldNamed, <1>PartsOne, Zenon
        <4>2. CASE r.op # "WRITE_FILE" /\ hasFileOffset(r.op)
          <5>1. c = <<"offset">> /\ C = <<Frame("offset", v["offset"], TRUE)>>
            BY <4>2, <2>OpsDiffer, <2>RequestValueOf, Zenon DEF When
          <5> QED BY <5>1, <1>FieldNamed, <1>PartsOne, Zenon
        <4>3. CASE r.op # "WRITE_FILE" /\ ~hasFileOffset(r.op)
          <5>1. c = <<>> /\ C = <<>>
            BY <4>3, <2>OpsDiffer, Zenon DEF When
          <5> QED BY <5>1, <1>PartsNone, Zenon
        <4> QED BY <4>1, <4>2, <4>3, Zenon
      <3>4. d \in Lists /\ Len(d) > 0
        BY <1>FieldNamed, <1>Single, Zenon
      <3>5. D = Parts(d, v, last)
        <4>1. <<Frame("cached", v["cached"], last)>> = Parts(d, v, last)
          BY <3>0, <1>FieldNamed, <1>PartsOne, Zenon
        <4> QED BY <4>1, <2>RequestValueOf, Zenon
      <3>6. e \in Lists /\ E = Parts(e, v, FALSE) /\ (Len(e) > 0 <=> last)
        <4>1. CASE r.cached
          <5>1. <<Frame("path", v["path"], FALSE)>> = Parts(<<"path">>, v, FALSE) /\ <<"path">> \in Lists /\ Len(<<"path">>) > 0
            BY <1>FieldNamed, <1>PartsOne, <1>Single, Zenon
          <5>2. e = <<"path">>
            BY <4>1, Zenon DEF Extra
          <5> QED BY <4>1, <5>1, <5>2, <2>RequestValueOf, Zenon
        <4>2. CASE ~r.cached /\ SendsData(r)
          <5>1. <<Frame("data", v["data"], FALSE)>> = Parts(<<"data">>, v, FALSE) /\ <<"data">> \in Lists /\ Len(<<"data">>) > 0
            BY <1>FieldNamed, <1>PartsOne, <1>Single, Zenon
          <5>2. e = <<"data">> /\ E = <<Frame("data", r.size, FALSE)>>
            BY <4>2, Zenon DEF Extra, When
          <5> QED BY <4>2, <5>1, <5>2, <2>RequestValueOf, Zenon
        <4>3. CASE ~r.cached /\ ~SendsData(r)
          <5>1. e = <<>> /\ E = <<>> /\ ~last
            BY <4>3, Zenon DEF Extra, When
          <5> QED BY <5>1, <1>PartsNone, <1>Empty, Zenon
        <4> QED BY <4>1, <4>2, <4>3, Zenon
      <3> HIDE DEF a, b, c, d, e, A, B, C, D, E, v, last
      <3>7. a \o b \in Lists /\ Parts(a, v, TRUE) \o Parts(b, v, TRUE) = Parts(a \o b, v, TRUE)
        BY <3>1, <3>2, <1>JoinOpen, Zenon
      <3>8. a \o b \o c \in Lists /\ Parts(a \o b, v, TRUE) \o Parts(c, v, TRUE) = Parts(a \o b \o c, v, TRUE)
        BY <3>3, <3>7, <1>JoinOpen, Zenon
      <3>9. a \o b \o c \o d \in Lists /\ Parts(a \o b \o c, v, TRUE) \o Parts(d, v, last) = Parts(a \o b \o c \o d, v, last)
        <4>1. CASE last = TRUE
          BY <3>4, <3>8, <4>1, <1>Joined, ZenonT(30)
        <4>2. CASE last = FALSE
          BY <3>4, <3>8, <4>2, <1>Joined, ZenonT(30)
        <4> QED BY <3>0, <4>1, <4>2, Zenon
      <3>10. Parts(a \o b \o c \o d, v, last) \o Parts(e, v, FALSE) = Parts((a \o b \o c \o d) \o e, v, FALSE)
        <4>1. CASE last = TRUE
          <5>1. Len(e) > 0
            BY <3>6, <4>1, Zenon
          <5> QED BY <3>6, <3>9, <4>1, <5>1, <1>Joined, ZenonT(30)
        <4>2. CASE last = FALSE
          <5>1. ~(Len(e) > 0)
            BY <3>6, <4>2, Zenon
          <5> QED BY <3>6, <3>9, <4>2, <5>1, <1>Joined, ZenonT(30)
        <4> QED BY <3>0, <4>1, <4>2, Zenon
      <3>12. A \o B \o C \o D \o E = Parts((a \o b \o c \o d) \o e, v, FALSE)
        BY <3>1, <3>2, <3>3, <3>5, <3>6, <3>7, <3>8, <3>9, <3>10, Zenon
      <3>11. NamedFields(r.op) = a \o b \o c \o d
        BY Zenon DEF NamedFields, a, b, c, d
      <3> QED BY <3>6, <3>9, <3>12, <3>11, Zenon DEF A, B, C, D, E, v, e, last
    \* The fields getRequest expects, for each group of kinds.
    <2>RequestFieldsOf.
      /\ \A op \in StatusOps : RequestFields(op) = <<"opcode">>
      /\ RequestFields("GET_APPEND_SIZE") = <<"opcode">> \o (<<"namespace">> \o <<"class">>)
      /\ \A op \in {"GET_READ_SIZE", "GET_FILE_LIST"} : RequestFields(op) = <<"opcode">> \o (<<"namespace">> \o <<"name">>)
      /\ \A op \in NamedOps : RequestFields(op) = <<"opcode">> \o (<<"namespace">> \o NamedFields(op))
      <3>1. \A op \in StatusOps : RequestFields(op) = <<"opcode">>
        <4>1. <<"opcode">> \o <<>> = <<"opcode">>
          BY <1>FieldNamed, <1>PartsOne, <1>ListsJoin, Zenon
        <4> QED BY <4>1, <2>OpsDiffer, Zenon DEF RequestFields, When
      <3>2. RequestFields("GET_APPEND_SIZE") = <<"opcode">> \o (<<"namespace">> \o <<"class">>)
        BY Zenon DEF RequestFields, When, hasOpcodeOnly
      <3>3. \A op \in {"GET_READ_SIZE", "GET_FILE_LIST"} : RequestFields(op) = <<"opcode">> \o (<<"namespace">> \o <<"name">>)
        BY Zenon DEF RequestFields, When, hasOpcodeOnly
      <3>4. ASSUME NEW op \in NamedOps PROVE RequestFields(op) = <<"opcode">> \o (<<"namespace">> \o NamedFields(op))
        <4>1. ~hasOpcodeOnly(op) /\ op # "GET_APPEND_SIZE" /\ op \notin {"GET_READ_SIZE", "GET_FILE_LIST"}
          BY Zenon DEF NamedOps, FileOps, hasOpcodeOnly
        <4> QED BY <4>1, Zenon DEF RequestFields, When, NamedFields
      <3> QED BY <3>1, <3>2, <3>3, <3>4, Zenon
    <2>OpGroups.
      ASSUME NEW r \in Library
      PROVE  r.op \in StatusOps \/ r.op = "GET_APPEND_SIZE" \/ r.op \in {"GET_READ_SIZE", "GET_FILE_LIST"} \/ r.op \in NamedOps
      BY LibraryFacts, Zenon DEF QueryOps, NamedOps
    \* issue_request's parts are those of the fields getRequest expects, and the extra
    \* field that both sides derive from "cached" and the kind.
    <2>RequestParts.
      ASSUME NEW r \in Library
      PROVE  /\ SentFields(r) \in Lists /\ SentFields(r) # <<>>
             /\ RequestFields(r.op) \in Lists /\ Extra(r) \in Lists
             /\ RequestFrames(r) = Parts(SentFields(r), RequestValue(r), FALSE)
      <3> DEFINE v == RequestValue(r)
                 o == <<"opcode">>
                 n == <<"namespace">>
      <3>0. /\ o \in Lists /\ n \in Lists /\ Len(o) > 0 /\ Len(n) > 0 /\ o # <<>>
        BY <1>FieldNamed, <1>Single, Zenon
      <3>a. /\ <<Frame("opcode", r.op, TRUE)>> = Parts(o, v, TRUE) /\ <<Frame("opcode", r.op, FALSE)>> = Parts(o, v, FALSE)
            /\ <<Frame("namespace", "ns", TRUE)>> = Parts(n, v, TRUE)
        <4>1. v["opcode"] = r.op /\ v["namespace"] = "ns"
          BY <2>RequestValueOf, Zenon
        <4> HIDE DEF v
        <4>2. /\ <<Frame("opcode", v["opcode"], TRUE)>> = Parts(o, v, TRUE)
              /\ <<Frame("opcode", v["opcode"], FALSE)>> = Parts(o, v, FALSE)
          BY <1>FieldNamed, <1>PartsOne, Zenon
        <4>3. <<Frame("namespace", v["namespace"], TRUE)>> = Parts(n, v, TRUE)
          BY <1>FieldNamed, <1>PartsOne, Zenon
        <4> QED BY <4>1, <4>2, <4>3, Zenon
      <3> HIDE DEF v
      <3>1. ASSUME NEW s \in Lists, Len(s) > 0, NEW f, f = Parts(s, v, FALSE)
            PROVE  /\ <<Frame("opcode", r.op, TRUE)>> \o (<<Frame("namespace", "ns", TRUE)>> \o f) = Parts(o \o (n \o s), v, FALSE)
                   /\ o \o (n \o s) \in Lists /\ o \o (n \o s) # <<>>
        <4>0. o \in Lists /\ n \in Lists /\ Len(o) > 0 /\ Len(n) > 0 /\ s \in Lists /\ Len(s) > 0
          BY <3>0, <3>1, Zenon
        <4> HIDE DEF o, n
        <4>1. n \o s \in Lists /\ Parts(n, v, TRUE) \o Parts(s, v, FALSE) = Parts(n \o s, v, FALSE)
          BY <4>0, <1>JoinClosed, Zenon
        <4>2. Len(n \o s) > 0
          BY <4>0 DEF Lists
        <4>3. o \o (n \o s) \in Lists /\ Parts(o, v, TRUE) \o Parts(n \o s, v, FALSE) = Parts(o \o (n \o s), v, FALSE)
          <5> DEFINE u == n \o s
          <5>1. u \in Lists /\ Len(u) > 0 /\ o \in Lists
            BY <4>0, <4>1, <4>2, Zenon
          <5> HIDE DEF u
          <5>2. o \o u \in Lists /\ Parts(o, v, TRUE) \o Parts(u, v, FALSE) = Parts(o \o u, v, FALSE)
            BY <5>1, <1>JoinClosed, Zenon
          <5> QED BY <5>2, Zenon DEF u
        <4>4. o \o (n \o s) # <<>>
          BY <3>0, <4>1, <1>ListsJoin, Zenon
        <4> QED BY <3>a, <3>1, <4>1, <4>3, <4>4, Zenon
      <3>2. ASSUME ~r.cached, ~has_file_data(r.op), NEW s \in Lists, s # <<>>, RequestFields(r.op) = s, RequestFrames(r) = Parts(s, v, FALSE)
            PROVE  SentFields(r) = s /\ Extra(r) = <<>> /\ Extra(r) \in Lists
        <4>1. Extra(r) = <<>> /\ <<>> \in Lists
          BY <3>2, <1>Empty, Zenon DEF Extra, When, SendsData
        <4>2. s \o <<>> = s
          BY <3>2, <1>ListsJoin, Zenon
        <4> QED BY <3>2, <4>1, <4>2, Zenon DEF SentFields
      <3>3. CASE r.op \in StatusOps
        <4>1. RequestFields(r.op) = o
          BY <3>3, <2>RequestFieldsOf, Zenon
        <4>2. has_opcode_only(r.op) /\ ~has_file_data(r.op) /\ ~r.cached
          BY <3>3, <2>OpsDiffer, LibraryFacts, Zenon
        <4>3. RequestFrames(r) = <<Frame("opcode", r.op, FALSE)>> \o <<>>
          BY <4>2, Zenon DEF RequestFrames, When
        <4>4. Parts(o, v, FALSE) \o <<>> = Parts(o, v, FALSE)
          <5>1. Parts(o, v, FALSE) \in Seq(FrameSet(v))
            BY <3>0, <1>PartsType, Zenon
          <5> QED BY <5>1, <1>SeqUnit, Zenon
        <4>5. RequestFrames(r) = Parts(o, v, FALSE)
          BY <3>a, <4>3, <4>4, Zenon
        <4> QED BY <3>0, <3>2, <4>1, <4>2, <4>5, Zenon DEF v
      <3>4. CASE r.op = "GET_APPEND_SIZE"
        <4>1. RequestFields(r.op) = o \o (n \o <<"class">>)
          BY <3>4, <2>RequestFieldsOf, Zenon
        <4>2. r.op \in QueryOps
          BY <3>4, Zenon DEF QueryOps
        <4>3. ~has_opcode_only(r.op) /\ ~has_file_data(r.op) /\ ~r.cached
          BY <4>2, <2>OpsDiffer, LibraryFacts, Zenon
        <4>4. RequestFrames(r) = <<Frame("opcode", r.op, TRUE)>> \o (<<Frame("namespace", "ns", TRUE)>> \o <<Frame("class", "class", FALSE)>>)
          BY <3>4, <4>3, Zenon DEF RequestFrames, When
        <4>5. <<"class">> \in Lists /\ Len(<<"class">>) > 0 /\ <<Frame("class", "class", FALSE)>> = Parts(<<"class">>, v, FALSE)
          <5>1. v["class"] = "class"
            BY <2>RequestValueOf, Zenon DEF v
          <5>2. <<Frame("class", v["class"], FALSE)>> = Parts(<<"class">>, v, FALSE)
            BY <1>FieldNamed, <1>PartsOne, Zenon
          <5> QED BY <5>1, <5>2, <1>FieldNamed, <1>Single, Zenon
        <4>6. RequestFrames(r) = Parts(o \o (n \o <<"class">>), v, FALSE) /\ o \o (n \o <<"class">>) \in Lists /\ o \o (n \o <<"class">>) # <<>>
          BY <3>1, <4>4, <4>5, Zenon
        <4> QED BY <3>2, <4>1, <4>3, <4>6, Zenon DEF v
      <3>5. CASE r.op \in {"GET_READ_SIZE", "GET_FILE_LIST"}
        <4>1. RequestFields(r.op) = o \o (n \o <<"name">>)
          BY <3>5, <2>RequestFieldsOf, Zenon
        <4>2. r.op \in QueryOps
          BY <3>5, Zenon DEF QueryOps
        <4>3. ~has_opcode_only(r.op) /\ ~has_file_data(r.op) /\ ~r.cached
          BY <4>2, <2>OpsDiffer, LibraryFacts, Zenon
        <4>4. RequestFrames(r) = <<Frame("opcode", r.op, TRUE)>> \o (<<Frame("namespace", "ns", TRUE)>> \o <<Frame("name", r.name, FALSE)>>)
          BY <3>5, <4>3, Zenon DEF RequestFrames, When
        <4>5. <<"name">> \in Lists /\ Len(<<"name">>) > 0 /\ <<Frame("name", r.name, FALSE)>> = Parts(<<"name">>, v, FALSE)
          <5>1. v["name"] = r.name
            BY <2>RequestValueOf, Zenon DEF v
          <5>2. <<Frame("name", v["name"], FALSE)>> = Parts(<<"name">>, v, FALSE)
            BY <1>FieldNamed, <1>PartsOne, Zenon
          <5> QED BY <5>1, <5>2, <1>FieldNamed, <1>Single, Zenon
        <4>6. RequestFrames(r) = Parts(o \o (n \o <<"name">>), v, FALSE) /\ o \o (n \o <<"name">>) \in Lists /\ o \o (n \o <<"name">>) # <<>>
          BY <3>1, <4>4, <4>5, Zenon
        <4> QED BY <3>2, <4>1, <4>3, <4>6, Zenon DEF v
      <3>6. CASE r.op \in NamedOps
        <4> DEFINE m == NamedFields(r.op)
                   e == Extra(r)
                   f == <<Frame("name", r.name, TRUE)>>
                        \o When(has_size_or_length(r.op), <<Frame("size", r.size, TRUE)>>)
                        \o (IF r.op = "WRITE_FILE" THEN <<Frame("class", "class", TRUE)>>
                            ELSE When(has_offset(r.op), <<Frame("offset", r.offset, TRUE)>>))
                        \o <<Frame("cached", r.cached, SendsData(r) \/ r.cached)>>
                        \o (IF r.cached THEN <<Frame("path", r.to, FALSE)>>
                            ELSE When(SendsData(r), <<Frame("data", r.size, FALSE)>>))
        <4>1. r.op \notin StatusOps /\ r.op \notin {"GET_APPEND_SIZE", "GET_READ_SIZE", "GET_FILE_LIST"} /\ ~has_opcode_only(r.op)
          BY <3>6, Zenon DEF NamedOps, FileOps, StatusOps, has_opcode_only
        <4>2. m \in Lists /\ e \in Lists /\ f = Parts(m \o e, v, FALSE)
          BY <4>1, <2>NamedParts, Zenon DEF v
        <4>3. RequestFrames(r) = <<Frame("opcode", r.op, TRUE)>> \o (<<Frame("namespace", "ns", TRUE)>> \o f)
          <5>1. r.op # "GET_APPEND_SIZE" /\ ~(r.op \in {"GET_READ_SIZE", "GET_FILE_LIST"}) /\ (~has_opcode_only(r.op)) = TRUE
            BY <4>1, Zenon
          <5> QED BY <5>1, Zenon DEF RequestFrames, When
        <4>4. m # <<>>
          <5>1. m = (<<"name">> \o When(hasFileSize(r.op), <<"size">>)
                     \o (IF r.op = "WRITE_FILE" THEN <<"class">> ELSE When(hasFileOffset(r.op), <<"offset">>))) \o <<"cached">>
            BY Zenon DEF NamedFields
          <5>2. <<"name">> \o When(hasFileSize(r.op), <<"size">>)
                     \o (IF r.op = "WRITE_FILE" THEN <<"class">> ELSE When(hasFileOffset(r.op), <<"offset">>)) \in Lists
            BY <1>FieldNamed, <1>Single, <1>Empty, <1>ListsJoin, Zenon DEF When
          <5>3. \A s \in Lists : s \o <<"cached">> # <<>>
            BY <1>FieldNamed, <1>Single, <1>ListsJoin, Zenon
          <5> QED BY <5>1, <5>2, <5>3, Zenon
        <4> HIDE DEF f, m, e, o, n
        <4>5. m \o e \in Lists /\ m \o e # <<>>
          BY <4>2, <4>4, <1>ListsJoin, Zenon
        <4>6. Len(m \o e) > 0
          BY <4>5 DEF Lists
        <4>7. RequestFrames(r) = Parts(o \o (n \o (m \o e)), v, FALSE) /\ o \o (n \o (m \o e)) \in Lists /\ o \o (n \o (m \o e)) # <<>>
          BY <3>1, <4>2, <4>3, <4>5, <4>6, Zenon
        <4>8. RequestFields(r.op) = o \o (n \o m)
          BY <3>6, <2>RequestFieldsOf, Zenon DEF o, n, m
        <4>9. n \o m \in Lists /\ o \o (n \o m) \in Lists /\ (o \o (n \o m)) \o e = o \o (n \o (m \o e))
          <5>1. o \in Lists /\ n \in Lists /\ m \in Lists /\ e \in Lists
            BY <3>0, <4>2, Zenon DEF o, n
          <5>2. n \o m \in Lists /\ (n \o m) \o e = n \o (m \o e)
            BY <5>1, <1>ListsJoin, ZenonT(60)
          <5>3. o \o (n \o m) \in Lists /\ (o \o (n \o m)) \o e = o \o ((n \o m) \o e)
            BY <5>1, <5>2, <1>ListsJoin, ZenonT(60)
          <5> QED BY <5>2, <5>3, Zenon
        <4>10. SentFields(r) = o \o (n \o (m \o e))
          BY <4>8, <4>9, Zenon DEF SentFields, e
        <4> QED BY <4>2, <4>7, <4>8, <4>9, <4>10, Zenon DEF v, e
      <3> QED BY <3>3, <3>4, <3>5, <3>6, <2>OpGroups, Zenon
    \* Which fields the head of a request has.
    <2>NamedOccurs.
      ASSUME NEW op, NEW x
      PROVE  /\ NamedFields(op) \in Lists
             /\ Occurs(x, NamedFields(op)) <=> \/ x = "name" \/ x = "cached"
                                               \/ hasFileSize(op) /\ x = "size"
                                               \/ op = "WRITE_FILE" /\ x = "class"
                                               \/ op # "WRITE_FILE" /\ hasFileOffset(op) /\ x = "offset"
      <3> DEFINE a == <<"name">>
                 b == When(hasFileSize(op), <<"size">>)
                 c == IF op = "WRITE_FILE" THEN <<"class">> ELSE When(hasFileOffset(op), <<"offset">>)
                 d == <<"cached">>
      <3>1. a \in Lists /\ d \in Lists /\ (Occurs(x, a) <=> x = "name") /\ (Occurs(x, d) <=> x = "cached")
        BY <1>FieldNamed, <1>Single, <1>OccursList, Zenon
      <3>2. b \in Lists /\ (Occurs(x, b) <=> hasFileSize(op) /\ x = "size")
        <4>1. CASE hasFileSize(op)
          <5>1. b = <<"size">>
            BY <4>1, Zenon DEF When
          <5>2. <<"size">> \in Lists /\ (Occurs(x, <<"size">>) <=> x = "size")
            BY <1>FieldNamed, <1>Single, <1>OccursList, Zenon
          <5> HIDE DEF b
          <5> QED BY <4>1, <5>1, <5>2, Zenon
        <4>2. CASE ~hasFileSize(op)
          <5>1. b = <<>>
            BY <4>2, Zenon DEF When
          <5>2. <<>> \in Lists /\ ~Occurs(x, <<>>)
            BY <1>Empty, <1>OccursList, Zenon
          <5> HIDE DEF b
          <5> QED BY <4>2, <5>1, <5>2, Zenon
        <4> QED BY <4>1, <4>2, Zenon
      <3>3. c \in Lists /\ (Occurs(x, c) <=> \/ op = "WRITE_FILE" /\ x = "class"
                                             \/ op # "WRITE_FILE" /\ hasFileOffset(op) /\ x = "offset")
        <4>1. CASE op = "WRITE_FILE"
          <5>1. c = <<"class">>
            BY <4>1, Zenon
          <5>2. <<"class">> \in Lists /\ (Occurs(x, <<"class">>) <=> x = "class")
            BY <1>FieldNamed, <1>Single, <1>OccursList, Zenon
          <5> HIDE DEF c
          <5> QED BY <4>1, <5>1, <5>2, Zenon
        <4>2. CASE op # "WRITE_FILE" /\ hasFileOffset(op)
          <5>1. c = <<"offset">>
            BY <4>2, Zenon DEF When
          <5>2. <<"offset">> \in Lists /\ (Occurs(x, <<"offset">>) <=> x = "offset")
            BY <1>FieldNamed, <1>Single, <1>OccursList, Zenon
          <5> HIDE DEF c
          <5> QED BY <4>2, <5>1, <5>2, Zenon
        <4>3. CASE op # "WRITE_FILE" /\ ~hasFileOffset(op)
          <5>1. c = <<>>
            BY <4>3, Zenon DEF When
          <5>2. <<>> \in Lists /\ ~Occurs(x, <<>>)
            BY <1>Empty, <1>OccursList, Zenon
          <5> HIDE DEF c
          <5> QED BY <4>3, <5>1, <5>2, Zenon
        <4> QED BY <4>1, <4>2, <4>3, Zenon
      <3>4. NamedFields(op) = a \o b \o c \o d
        BY Zenon DEF NamedFields
      <3> HIDE DEF a, b, c, d
      <3>5. a \o b \in Lists /\ (Occurs(x, a \o b) <=> Occurs(x, a) \/ Occurs(x, b))
        BY <3>1, <3>2, <1>ListsJoin, <1>OccursList, Zenon
      <3>6. a \o b \o c \in Lists /\ (Occurs(x, a \o b \o c) <=> Occurs(x, a \o b) \/ Occurs(x, c))
        BY <3>3, <3>5, <1>ListsJoin, <1>OccursList, Zenon
      <3>7. a \o b \o c \o d \in Lists /\ (Occurs(x, a \o b \o c \o d) <=> Occurs(x, a \o b \o c) \/ Occurs(x, d))
        BY <3>1, <3>6, <1>ListsJoin, <1>OccursList, Zenon
      <3> QED BY <3>1, <3>2, <3>3, <3>4, <3>5, <3>6, <3>7, Zenon
    <2>HeadOccurs.
      ASSUME NEW r \in Library
      PROVE  HeadOK(r.op, RequestFields(r.op))
      <3> DEFINE h == RequestFields(r.op)
                 o == <<"opcode">>
                 n == <<"namespace">>
      <3>0. /\ o \in Lists /\ n \in Lists /\ \A x : (Occurs(x, o) <=> x = "opcode") /\ (Occurs(x, n) <=> x = "namespace")
            /\ <<"class">> \in Lists /\ <<"name">> \in Lists
        BY <1>FieldNamed, <1>Single, <1>OccursList, Zenon
      <3>1. ASSUME NEW s \in Lists, NEW x
            PROVE  Occurs(x, o \o (n \o s)) <=> x = "opcode" \/ x = "namespace" \/ Occurs(x, s)
        <4> HIDE DEF o, n
        <4>1. n \o s \in Lists /\ (Occurs(x, n \o s) <=> x = "namespace" \/ Occurs(x, s))
          BY <3>0, <1>ListsJoin, <1>OccursList, Zenon
        <4>2. Occurs(x, o \o (n \o s)) <=> Occurs(x, o) \/ Occurs(x, n \o s)
          BY <3>0, <4>1, <1>OccursList, Zenon
        <4> QED BY <3>0, <4>1, <4>2, Zenon
      <3>2. CASE r.op \in StatusOps
        <4>1. h = o
          BY <3>2, <2>RequestFieldsOf, Zenon
        <4>2. r.op \notin NamedOps /\ r.op \notin SizedOps /\ r.op \notin OffsetOps
          BY <3>2, Zenon DEF StatusOps, NamedOps, FileOps, SizedOps, OffsetOps
        <4> HIDE DEF h
        <4>3. \A x : Occurs(x, h) <=> x = "opcode"
          BY <3>0, <4>1, Zenon
        <4>9. HeadOK(r.op, h)
          BY <4>2, <4>3 DEF HeadOK
        <4> QED BY <4>9, Zenon DEF h
      <3>3. CASE r.op = "GET_APPEND_SIZE"
        <4>1. h = o \o (n \o <<"class">>)
          BY <3>3, <2>RequestFieldsOf, Zenon
        <4>2. r.op \notin NamedOps /\ r.op \notin SizedOps /\ r.op \notin OffsetOps
          BY <3>3, Zenon DEF NamedOps, FileOps, SizedOps, OffsetOps
        <4>3. \A x : Occurs(x, h) <=> x = "opcode" \/ x = "namespace" \/ x = "class"
          <5> HIDE DEF h
          <5> HIDE DEF o, n
          <5>1. \A x : Occurs(x, h) <=> x = "opcode" \/ x = "namespace" \/ Occurs(x, <<"class">>)
            BY <3>0, <3>1, <4>1, Zenon
          <5>2. \A x : Occurs(x, <<"class">>) <=> x = "class"
            BY <1>OccursList, Zenon
          <5> QED BY <5>1, <5>2, Zenon
        <4> HIDE DEF h
        <4>9. HeadOK(r.op, h)
          BY <4>2, <4>3 DEF HeadOK
        <4> QED BY <4>9, Zenon DEF h
      <3>4. CASE r.op \in {"GET_READ_SIZE", "GET_FILE_LIST"}
        <4>1. h = o \o (n \o <<"name">>)
          BY <3>4, <2>RequestFieldsOf, Zenon
        <4>2. r.op \notin NamedOps /\ r.op \notin SizedOps /\ r.op \notin OffsetOps
          BY <3>4, Zenon DEF NamedOps, FileOps, SizedOps, OffsetOps
        <4>3. \A x : Occurs(x, h) <=> x = "opcode" \/ x = "namespace" \/ x = "name"
          <5> HIDE DEF h
          <5> HIDE DEF o, n
          <5>1. \A x : Occurs(x, h) <=> x = "opcode" \/ x = "namespace" \/ Occurs(x, <<"name">>)
            BY <3>0, <3>1, <4>1, Zenon
          <5>2. \A x : Occurs(x, <<"name">>) <=> x = "name"
            BY <1>OccursList, Zenon
          <5> QED BY <5>1, <5>2, Zenon
        <4> HIDE DEF h
        <4>9. HeadOK(r.op, h)
          BY <4>2, <4>3 DEF HeadOK
        <4> QED BY <4>9, Zenon DEF h
      <3>5. CASE r.op \in NamedOps
        <4>1. h = o \o (n \o NamedFields(r.op))
          BY <3>5, <2>RequestFieldsOf, Zenon
        <4>2. hasFileSize(r.op) <=> r.op \in SizedOps
          BY Zenon DEF hasFileSize, SizedOps
        <4>3. r.op # "WRITE_FILE" /\ hasFileOffset(r.op) <=> r.op \in OffsetOps
          BY Zenon DEF hasFileOffset, OffsetOps
        <4>4. NamedFields(r.op) \in Lists
          BY <2>NamedOccurs, Zenon
        <4>5. \A x : Occurs(x, h) <=> x = "opcode" \/ x = "namespace" \/ Occurs(x, NamedFields(r.op))
          BY <3>1, <4>1, <4>4, Zenon
        <4>6. \A x : Occurs(x, h) <=> \/ x = "opcode" \/ x = "namespace" \/ x = "name" \/ x = "cached"
                                      \/ r.op \in SizedOps /\ x = "size"
                                      \/ r.op = "WRITE_FILE" /\ x = "class"
                                      \/ r.op \in OffsetOps /\ x = "offset"
          BY <4>2, <4>3, <4>5, <2>NamedOccurs, Zenon
        <4> HIDE DEF h
        <4>9. HeadOK(r.op, h)
          BY <3>5, <4>6 DEF HeadOK
        <4> QED BY <4>9, Zenon DEF h
      <3> QED BY <3>2, <3>3, <3>4, <3>5, <2>OpGroups, Zenon DEF h
    \* A request starts with its kind.
    <2>FirstField.
      ASSUME NEW r \in Library
      PROVE  Len(SentFields(r)) >= 1 /\ SentFields(r)[1] = "opcode"
      <3> DEFINE o == <<"opcode">>
                 h == RequestFields(r.op)
                 e == Extra(r)
      <3>1. h \in Lists /\ e \in Lists /\ o \in Lists /\ Len(o) = 1 /\ o[1] = "opcode"
        BY <2>RequestParts, <1>FieldNamed, <1>Single, Zenon
      <3>2. h = o \/ \E s \in Lists : h = o \o s
        <4>1. \A s, t \in Lists : s \o t \in Lists
          BY <1>ListsJoin, Zenon
        <4>2. <<"namespace">> \in Lists /\ <<"name">> \in Lists /\ <<"class">> \in Lists /\ NamedFields(r.op) \in Lists
          BY <1>FieldNamed, <1>Single, <2>NamedOccurs, Zenon
        <4> QED BY <4>1, <4>2, <2>OpGroups, <2>RequestFieldsOf, Zenon
      <3> HIDE DEF o, h, e
      <3>3. Len(h) >= 1 /\ h[1] = "opcode"
        <4>1. CASE h = o
          BY <3>1, <4>1, SMTT(30)
        <4>2. CASE \E s \in Lists : h = o \o s
          <5>1. PICK s \in Lists : h = o \o s
            BY <4>2, Zenon
          <5>2. Len(o \o s) = Len(o) + Len(s) /\ Len(s) \in Nat /\ \A i \in 1 .. Len(o) : (o \o s)[i] = o[i]
            BY <3>1, <1>ListsCat, Zenon
          <5>3. 1 \in 1 .. Len(o) /\ 1 + Len(s) >= 1
            BY <3>1, <5>2
          <5>4. Len(h) = 1 + Len(s) /\ h[1] = "opcode"
            BY <3>1, <5>1, <5>2, <5>3, Zenon
          <5> QED BY <5>3, <5>4, Zenon
        <4> QED BY <3>2, <4>1, <4>2, Zenon
      <3>4. Len(h \o e) >= 1 /\ (h \o e)[1] = "opcode"
        BY <3>1, <3>3 DEF Lists
      <3> QED BY <3>4, Zenon DEF SentFields, h, e
    \* getRequest reads the request that was sent.
    <2>RequestRead.
      ASSUME NEW r \in Library
      PROVE  LET g == getRequest(RequestFrames(r))
             IN  g.rc = "0" /\ g.rest = <<>> /\ Same(g.req, r)
      <3> DEFINE v == RequestValue(r)
                 head == RequestFields(r.op)
                 e == Extra(r)
                 full == SentFields(r)
                 fs == RequestFrames(r)
      <3>1. head \in Lists /\ e \in Lists /\ full \in Lists /\ full = head \o e /\ fs = Parts(full, v, FALSE)
        BY <2>RequestParts, Zenon DEF SentFields
      <3>2. Len(full) >= 1 /\ full[1] = "opcode"
        BY <2>FirstField, Zenon
      <3>3. HeadOK(r.op, head)
        BY <2>HeadOccurs, Zenon
      <3>4. /\ v["opcode"] = r.op /\ v["name"] = r.name /\ v["size"] = r.size /\ v["offset"] = r.offset
            /\ v["cached"] = r.cached /\ v["path"] = r.to
        BY <2>RequestValueOf, Zenon
      <3>5. /\ r.op \in FileOps \cup StatusOps \cup QueryOps
            /\ r.size \in Nat /\ r.offset \in Nat /\ r.cached \in BOOLEAN
            /\ r.op \notin SizedOps => r.size = 0
            /\ r.op \notin OffsetOps => r.offset = 0
            /\ r.op \in {"RENAME_FILE", "COPY_FILE"} => r.cached
            /\ r.op \in StatusOps \cup QueryOps \cup {"DEL_FILE"} => ~r.cached
        BY LibraryFacts, Zenon
      <3>6. e = IF r.cached THEN <<"path">> ELSE IF hasFileData(r.op) /\ r.size # 0 THEN <<"data">> ELSE <<>>
        <4>1. SendsData(r) <=> hasFileData(r.op) /\ r.size # 0
          <5>1. r.size > 0 <=> r.size # 0
            BY <3>5
          <5> QED BY <5>1, <2>OpsDiffer, Zenon DEF SendsData
        <4> QED BY <3>5, <4>1, Zenon DEF Extra, When
      <3> HIDE DEF v, head, e, full, fs
      <3>7. \A x, def : /\ Occurs(x, head) => Field(fs, head, x, def) = v[x]
                        /\ ~Occurs(x, head) => Field(fs, head, x, def) = def
        <4>1. fs = Parts(head \o e, v, FALSE)
          BY <3>1, Zenon
        <4>2. ASSUME NEW x, NEW def
              PROVE  /\ Occurs(x, head) => Field(Parts(head \o e, v, FALSE), head, x, def) = v[x]
                     /\ ~Occurs(x, head) => Field(Parts(head \o e, v, FALSE), head, x, def) = def
          BY <3>1, <1>FieldReads, ZenonT(60)
        <4> QED BY <4>1, <4>2, Zenon
      <3>8. \A x, def : /\ Occurs(x, full) => Field(fs, full, x, def) = v[x]
                        /\ ~Occurs(x, full) => Field(fs, full, x, def) = def
        <4>1. ASSUME NEW x, NEW def
              PROVE  /\ Occurs(x, full) => Field(Parts(full, v, FALSE), full, x, def) = v[x]
                     /\ ~Occurs(x, full) => Field(Parts(full, v, FALSE), full, x, def) = def
          <5>1. full \in Lists
            BY <3>1, Zenon
          <5> QED BY <5>1, <1>FieldWhole, Zenon
        <4> QED BY <3>1, <4>1, Zenon
      <3>9. fs \in Seq(FrameSet(v)) /\ Len(fs) = Len(full) /\ fs[1].is = "opcode" /\ fs[1].v = r.op /\ Len(full) \in Nat
        <4>1. fs \in Seq(FrameSet(v)) /\ Len(fs) = Len(full) /\ \A i \in 1 .. Len(full) : fs[i] = Frame(full[i], v[full[i]], i < Len(full) \/ FALSE)
          BY <3>1, <1>PartsType, Zenon
        <4>2. 1 \in 1 .. Len(full) /\ Len(full) \in Nat
          BY <3>1, <3>2 DEF Lists
        <4>3. fs[1] = Frame("opcode", r.op, 1 < Len(full) \/ FALSE)
          BY <3>2, <3>4, <4>1, <4>2, Zenon
        <4> QED BY <4>1, <4>2, <4>3, <1>FrameFields
      <3>10. Field(fs, head, "cached", FALSE) = r.cached
        <4>1. r.op \notin NamedOps => r.cached = FALSE
          BY <3>5, Zenon DEF NamedOps
        <4>2. Occurs("cached", head) <=> r.op \in NamedOps
          BY <3>3, Zenon DEF HeadOK
        <4>3. /\ Occurs("cached", head) => Field(fs, head, "cached", FALSE) = v["cached"]
              /\ ~Occurs("cached", head) => Field(fs, head, "cached", FALSE) = FALSE
          BY <3>7, Zenon
        <4> QED BY <3>4, <4>1, <4>2, <4>3, Zenon
      <3>11. Field(fs, head, "size", 0) = r.size
        <4>1. Occurs("size", head) <=> r.op \in SizedOps
          BY <3>3, Zenon DEF HeadOK
        <4>2. /\ Occurs("size", head) => Field(fs, head, "size", 0) = v["size"]
              /\ ~Occurs("size", head) => Field(fs, head, "size", 0) = 0
          BY <3>7, Zenon
        <4> QED BY <3>4, <3>5, <4>1, <4>2, Zenon
      <3> DEFINE fields == head \o When(r.cached = TRUE, <<"path">>)
                                \o When(hasFileData(r.op) /\ r.cached = FALSE /\ r.size # 0, <<"data">>)
      <3>12. fields = full
        <4>1. head \o <<>> = head /\ head \o <<"path">> \in Lists /\ (head \o <<"path">>) \o <<>> = head \o <<"path">>
          BY <3>1, <1>FieldNamed, <1>Single, <1>ListsJoin, Zenon
        <4>2. CASE r.cached
          <5>1. r.cached = TRUE
            BY <3>5, <4>2, Zenon
          <5> QED BY <3>1, <3>6, <4>1, <4>2, <5>1, Zenon DEF When
        <4>3. CASE ~r.cached
          <5>1. r.cached = FALSE
            BY <3>5, <4>3, Zenon
          <5> QED BY <3>1, <3>6, <4>1, <4>3, <5>1, Zenon DEF When
        <4> QED BY <4>2, <4>3, Zenon
      <3> HIDE DEF fields
      <3>13. \A x : Occurs(x, full) <=> Occurs(x, head) \/ Occurs(x, e)
        BY <3>1, <1>OccursList, Zenon
      <3>14. ~Occurs("name", e) /\ ~Occurs("offset", e) /\ (r.cached => Occurs("path", e))
        <4>1. e \in {<<"path">>, <<"data">>, <<>>} /\ (r.cached => e = <<"path">>)
          BY <3>6, Zenon
        <4>2. \A x \in {"name", "offset"} : ~Occurs(x, <<"path">>) /\ ~Occurs(x, <<"data">>) /\ ~Occurs(x, <<>>)
          BY <1>OccursList
        <4>3. Occurs("path", <<"path">>)
          BY <1>OccursList, Zenon
        <4> QED BY <4>1, <4>2, <4>3, Zenon
      <3>15. r.op \in FileOps => Field(fs, full, "name", "") = r.name
        <4>1. /\ Occurs("name", full) => Field(fs, full, "name", "") = v["name"]
              /\ ~Occurs("name", full) => Field(fs, full, "name", "") = ""
          BY <3>8, Zenon
        <4> QED BY <3>3, <3>4, <3>13, <4>1, Zenon DEF HeadOK, NamedOps
      <3>16. Field(fs, full, "offset", 0) = r.offset
        <4>1. /\ Occurs("offset", full) => Field(fs, full, "offset", 0) = v["offset"]
              /\ ~Occurs("offset", full) => Field(fs, full, "offset", 0) = 0
          BY <3>8, Zenon
        <4>2. Occurs("offset", full) <=> r.op \in OffsetOps
          BY <3>3, <3>13, <3>14, Zenon DEF HeadOK
        <4> QED BY <3>4, <3>5, <4>1, <4>2, Zenon
      <3>17. r.op \in {"RENAME_FILE", "COPY_FILE"} => Field(fs, full, "path", "") = r.to
        <4>1. /\ Occurs("path", full) => Field(fs, full, "path", "") = v["path"]
              /\ ~Occurs("path", full) => Field(fs, full, "path", "") = ""
          BY <3>8, Zenon
        <4> QED BY <3>4, <3>5, <3>13, <3>14, <4>1, Zenon
      <3>18. SubSeq(fs, Len(full) + 1, Len(fs)) = <<>>
        BY <3>9, <1>SeqNoRest
      <3>19. Len(fs) >= Len(full)
        BY <3>9
      <3> DEFINE q == [op |-> r.op, name |-> Field(fs, full, "name", ""), size |-> r.size,
                       offset |-> Field(fs, full, "offset", 0), cached |-> r.cached, to |-> Field(fs, full, "path", "")]
      <3>20. Same(q, r)
        BY <3>15, <3>16, <3>17, Zenon DEF Same
      <3> HIDE DEF q
      <3>21. getRequest(fs) = [rc |-> "0", req |-> q, rest |-> <<>>]
        <4>1. (IF fs[1].is = "opcode" THEN fs[1].v ELSE Garbage) = r.op
          BY <3>9, Zenon
        <4>2. getRequest(fs) = [rc |-> CASE Len(fs) >= Len(fields) -> "0"
                                         [] Len(fs) < 2 /\ Len(fs) < Len(fields) -> "throw"
                                         [] OTHER -> "1",
                                req |-> [op |-> r.op, name |-> Field(fs, fields, "name", ""), size |-> r.size,
                                         offset |-> Field(fs, fields, "offset", 0), cached |-> r.cached,
                                         to |-> Field(fs, fields, "path", "")],
                                rest |-> SubSeq(fs, Len(fields) + 1, Len(fs))]
          BY <3>10, <3>11, <4>1, ZenonT(60) DEF getRequest, fields, head
        <4>3. ~(Len(fs) < Len(full))
          BY <3>9
        <4>4. (CASE Len(fs) >= Len(full) -> "0"
                 [] Len(fs) < 2 /\ Len(fs) < Len(full) -> "throw"
                 [] OTHER -> "1") = "0"
          BY <3>19, <4>3, Zenon
        <4> QED BY <3>12, <3>18, <4>2, <4>4, Zenon DEF q
      <3>22. getRequest(fs).rc = "0" /\ getRequest(fs).req = q /\ getRequest(fs).rest = <<>>
        BY <3>21
      <3>23. getRequest(fs).rc = "0" /\ getRequest(fs).rest = <<>> /\ Same(getRequest(fs).req, r)
        BY <3>20, <3>22, Zenon
      <3> QED BY <3>23, Zenon DEF fs
    <2>RequestSent.
      ASSUME NEW r \in Library
      PROVE  Message(RequestFrames(r)) = [whole |-> TRUE, parts |-> RequestFrames(r), over |-> FALSE]
      <3>1. /\ SentFields(r) \in Lists /\ SentFields(r) # <<>>
            /\ RequestFrames(r) = Parts(SentFields(r), RequestValue(r), FALSE)
        BY <2>RequestParts, Zenon
      <3> QED BY <3>1, <1>PartsSent, Zenon
    <2> QED BY <2>RequestSent, <2>RequestRead, Zenon DEF RequestArrives
  \* Replies: what sendReply sends the client reads.
  <1>Replies. ReplyArrives
    \* Lists of at most one entry, put in a row.
    <2>InRowNone.
      ASSUME NEW ss, Len(ss) = 0
      PROVE  InRow(ss) = <<>>
      <3> USE <2>InRowNone
      <3> DEFINE Good(f) == f = [i \in 0 .. Len(ss) |-> IF i = 0 THEN <<>> ELSE f[i - 1] \o ss[i]]
                 g == [i \in 0 .. 0 |-> <<>>]
                 upTo == CHOOSE f : Good(f)
      <3>1. 0 .. Len(ss) = {0}
        OBVIOUS
      <3>2. Good(g)
        BY <3>1, Zenon
      <3>3. Good(upTo)
        BY <3>2, Zenon
      <3>4. InRow(ss) = upTo[Len(ss)]
        BY Zenon DEF InRow
      <3> HIDE DEF upTo
      <3>5. upTo[0] = <<>>
        BY <3>1, <3>3, Zenon
      <3> QED BY <3>4, <3>5, Zenon
    <2>InRowOne.
      ASSUME NEW ss, Len(ss) = 1, NEW S, ss[1] \in Seq(S)
      PROVE  InRow(ss) = ss[1]
      <3> USE <2>InRowOne
      <3> DEFINE Good(f) == f = [i \in 0 .. Len(ss) |-> IF i = 0 THEN <<>> ELSE f[i - 1] \o ss[i]]
                 g == [i \in 0 .. 1 |-> IF i = 0 THEN <<>> ELSE <<>> \o ss[i]]
                 upTo == CHOOSE f : Good(f)
      <3>1. 0 .. Len(ss) = {0, 1}
        OBVIOUS
      <3>2. Good(g)
        <4>1. g[0] = <<>> /\ 1 - 1 = 0 /\ DOMAIN g = {0, 1}
          BY <3>1
        <4>2. \A i \in {0, 1} : g[i] = IF i = 0 THEN <<>> ELSE g[i - 1] \o ss[i]
          BY <4>1, Zenon
        <4> HIDE DEF g
        <4>3. g = [i \in {0, 1} |-> g[i]]
          <5>1. g = [i \in {0, 1} |-> IF i = 0 THEN <<>> ELSE <<>> \o ss[i]]
            BY <3>1, Zenon DEF g
          <5> QED BY <5>1, Zenon
        <4> QED BY <3>1, <4>2, <4>3, Zenon
      <3>3. Good(upTo)
        BY <3>2, Zenon
      <3>4. InRow(ss) = upTo[Len(ss)]
        BY Zenon DEF InRow
      <3> HIDE DEF upTo
      <3>5. upTo[0] = <<>> /\ upTo[1] = upTo[1 - 1] \o ss[1]
        BY <3>1, <3>3
      <3>6. upTo[1] = <<>> \o ss[1]
        BY <3>5
      <3> QED BY <3>4, <3>6, <1>SeqUnit, Zenon
    <2>Pairs.
      ASSUME NEW S, NEW a \in S, NEW b \in S
      PROVE  <<a, b>> = <<a>> \o <<b>> /\ <<a>> \in Seq(S) /\ <<b>> \in Seq(S) /\ <<a, b>> \in Seq(S)
      <3>1. <<a>> \in Seq(S) /\ <<b>> \in Seq(S) /\ <<a, b>> \in Seq(S)
        OBVIOUS
      <3>2. Len(<<a>> \o <<b>>) = 2 /\ (<<a>> \o <<b>>)[1] = a /\ (<<a>> \o <<b>>)[2] = b /\ <<a>> \o <<b>> \in Seq(S)
        BY <3>1, <1>SeqJoin
      <3>3. \A i \in 1 .. 2 : (<<a>> \o <<b>>)[i] = <<a, b>>[i]
        BY <3>2
      <3> QED BY <3>1, <3>2, <3>3, <1>SeqSame, Zenon
    \* The values of the fields of a reply.
    <2>ReplyValueOf.
      ASSUME NEW p
      PROVE  /\ ReplyValue(p)["reply"] = [op |-> p.op, ok |-> p.ok] /\ ReplyValue(p)["size"] = p.size
             /\ ReplyValue(p)["cached"] = p.cached /\ ReplyValue(p)["data"] = p.data
             /\ ReplyValue(p)["total"] = p.n /\ ReplyValue(p)["containers"] = p.m
             /\ \A x \in FieldNames \ Special : ReplyValue(p)[x] = x
      <3>1. \A x \in FieldNames \ Special : ReplyValue(p)[x] = x
        BY Zenon DEF ReplyValue, Special
      <3>2. /\ ReplyValue(p)["reply"] = [op |-> p.op, ok |-> p.ok] /\ ReplyValue(p)["size"] = p.size
             /\ ReplyValue(p)["cached"] = p.cached /\ ReplyValue(p)["data"] = p.data
             /\ ReplyValue(p)["total"] = p.n /\ ReplyValue(p)["containers"] = p.m
        BY <1>FieldNamed, Zenon DEF ReplyValue
      <3> QED BY <3>1, <3>2, Zenon
    \* Fields whose value does not matter are parts of the reply like others.
    <2>PlainFields.
      ASSUME NEW s, Plain(s), NEW p, NEW more \in BOOLEAN
      PROVE  Fields(s, more) = Parts(s, ReplyValue(p), more)
      <3> USE <2>PlainFields
      <3> DEFINE v == ReplyValue(p)
      <3>1. s \in Lists /\ DOMAIN s = 1 .. Len(s) /\ \A i \in 1 .. Len(s) : s[i] \in FieldNames \ Special
        BY DEF Plain, Lists
      <3>2. \A i \in 1 .. Len(s) : v[s[i]] = s[i]
        BY <3>1, <2>ReplyValueOf, Zenon
      <3> HIDE DEF v
      <3>3. \A i \in 1 .. Len(s) : Frame(s[i], s[i], i < Len(s) \/ more) = Frame(s[i], v[s[i]], i < Len(s) \/ more)
        BY <3>2, Zenon
      <3>4. Fields(s, more) = [i \in 1 .. Len(s) |-> Frame(s[i], s[i], i < Len(s) \/ more)]
        BY <3>1, Zenon DEF Fields
      <3>5. Parts(s, v, more) = [i \in 1 .. Len(s) |-> Frame(s[i], v[s[i]], i < Len(s) \/ more)]
        BY Zenon DEF Parts
      <3>6. Fields(s, more) = Parts(s, v, more)
        BY <3>3, <3>4, <3>5, Zenon
      <3> QED BY <3>6, Zenon DEF v
    \* Tuples are sequences.
    <2>TupleOne.
      ASSUME NEW S, NEW a \in S
      PROVE  <<a>> \in Seq(S) /\ Len(<<a>>) > 0
      OBVIOUS
    <2>TupleTwo.
      ASSUME NEW S, NEW a \in S, NEW b \in S
      PROVE  <<a, b>> \in Seq(S) /\ Len(<<a, b>>) > 0
      OBVIOUS
    <2>TupleThree.
      ASSUME NEW S, NEW a \in S, NEW b \in S, NEW c \in S
      PROVE  <<a, b, c>> \in Seq(S) /\ Len(<<a, b, c>>) > 0
      OBVIOUS
    <2>TupleFour.
      ASSUME NEW S, NEW a \in S, NEW b \in S, NEW c \in S, NEW d \in S
      PROVE  <<a, b, c, d>> \in Seq(S) /\ Len(<<a, b, c, d>>) > 0
      OBVIOUS
    <2>TupleFive.
      ASSUME NEW S, NEW a \in S, NEW b \in S, NEW c \in S, NEW d \in S, NEW e \in S
      PROVE  <<a, b, c, d, e>> \in Seq(S) /\ Len(<<a, b, c, d, e>>) > 0
      OBVIOUS
    <2>TupleSeven.
      ASSUME NEW S, NEW a \in S, NEW b \in S, NEW c \in S, NEW d \in S, NEW e \in S, NEW f \in S, NEW g \in S
      PROVE  <<a, b, c, d, e, f, g>> \in Seq(S) /\ Len(<<a, b, c, d, e, f, g>>) > 0
      OBVIOUS
    \* The lists of such fields that sendReply sends.
    <2>PlainNames.
      /\ Plain(<<"offset">>) /\ Plain(<<"path">>) /\ Plain(FileEntry) /\ Plain(TaskEntry) /\ Plain(RECV_SYS_INFO)
      /\ Plain(<<"alive", "addr", "host type">>) /\ Plain(<<"ids", "types", "usages", "capacities">>)
      /\ Plain(<<"usage", "capacity", "count", "limit">>) /\ Plain(<<"count", "repair">>)
      <3> DEFINE S == FieldNames \ Special
      <3>1. /\ "offset" \in S /\ "path" \in S /\ "name" \in S /\ "fsize" \in S /\ "ctime" \in S /\ "atime" \in S
            /\ "mtime" \in S /\ "progress" \in S /\ "cpus" \in S /\ "cpu usage" \in S /\ "memory" \in S /\ "free" \in S
            /\ "in" \in S /\ "out" \in S /\ "host" \in S /\ "alive" \in S /\ "addr" \in S /\ "host type" \in S
            /\ "ids" \in S /\ "types" \in S /\ "usages" \in S /\ "capacities" \in S
            /\ "usage" \in S /\ "capacity" \in S /\ "count" \in S /\ "limit" \in S /\ "repair" \in S
        BY <1>FieldNamed, Zenon DEF Special
      <3>0. \A s \in Seq(S) : Len(s) > 0 => Plain(s)
        BY DEF Plain, Lists
      <3> HIDE DEF S
      <3>2. <<"offset">> \in Seq(S) /\ Len(<<"offset">>) > 0
        BY <3>1, <2>TupleOne, Zenon
      <3>3. <<"path">> \in Seq(S) /\ Len(<<"path">>) > 0
        BY <3>1, <2>TupleOne, Zenon
      <3>4. <<"name", "fsize", "ctime", "atime", "mtime">> \in Seq(S) /\ Len(<<"name", "fsize", "ctime", "atime", "mtime">>) > 0
        BY <3>1, <2>TupleFive, Zenon
      <3>5. <<"name", "progress">> \in Seq(S) /\ Len(<<"name", "progress">>) > 0
        BY <3>1, <2>TupleTwo, Zenon
      <3>6. <<"cpus", "cpu usage", "memory", "free", "in", "out", "host">> \in Seq(S) /\ Len(<<"cpus", "cpu usage", "memory", "free", "in", "out", "host">>) > 0
        BY <3>1, <2>TupleSeven, Zenon
      <3>7. <<"alive", "addr", "host type">> \in Seq(S) /\ Len(<<"alive", "addr", "host type">>) > 0
        BY <3>1, <2>TupleThree, Zenon
      <3>8. <<"ids", "types", "usages", "capacities">> \in Seq(S) /\ Len(<<"ids", "types", "usages", "capacities">>) > 0
        BY <3>1, <2>TupleFour, Zenon
      <3>9. <<"usage", "capacity", "count", "limit">> \in Seq(S) /\ Len(<<"usage", "capacity", "count", "limit">>) > 0
        BY <3>1, <2>TupleFour, Zenon
      <3>10. <<"count", "repair">> \in Seq(S) /\ Len(<<"count", "repair">>) > 0
        BY <3>1, <2>TupleTwo, Zenon
      <3> QED BY <3>0, <3>2, <3>3, <3>4, <3>5, <3>6, <3>7, <3>8, <3>9, <3>10, Zenon DEF FileEntry, TaskEntry, RECV_SYS_INFO
    <2>PlainParts.
      ASSUME NEW s, Plain(s), NEW p
      PROVE  /\ s \in Lists /\ Len(s) > 0
             /\ Fields(s, TRUE) = Parts(s, ReplyValue(p), TRUE) /\ Fields(s, FALSE) = Parts(s, ReplyValue(p), FALSE)
      <3> USE <2>PlainParts
      <3>1. s \in Lists /\ Len(s) > 0
        BY Zenon DEF Plain
      <3>2. \A more \in BOOLEAN : Fields(s, more) = Parts(s, ReplyValue(p), more)
        BY <2>PlainFields, Zenon
      <3> QED BY <3>1, <3>2, Zenon
    \* A number of entries and the entries form the parts of a list reply.
    <2>ListParts.
      ASSUME NEW p, Few(p.n), NEW ss, Len(ss) = p.n,
             NEW entry \in Lists, Len(entry) > 0, p.n = 1 => ss[1] = Parts(entry, ReplyValue(p), FALSE)
      PROVE  /\ ListReply(p.n, entry) \in Lists /\ Len(ListReply(p.n, entry)) > 0
             /\ Total(p.n) \o InRow(ss) = Parts(ListReply(p.n, entry), ReplyValue(p), FALSE)
      <3> USE <2>ListParts
      <3> DEFINE v == ReplyValue(p)
                 t == <<"total">>
      <3>1. t \in Lists /\ Len(t) > 0 /\ Len(t) = 1
        BY <1>FieldNamed, <1>Single, Zenon
      <3>2. v["total"] = p.n
        BY <2>ReplyValueOf, Zenon
      <3> HIDE DEF v
      <3>3. /\ <<Frame("total", v["total"], TRUE)>> = Parts(t, v, TRUE)
            /\ <<Frame("total", v["total"], FALSE)>> = Parts(t, v, FALSE)
        BY <1>FieldNamed, <1>PartsOne, Zenon
      <3>4. CASE p.n = 1
        <4>1. Total(p.n) = Parts(t, v, TRUE)
          <5>1. (p.n > 0) = TRUE
            BY <3>4
          <5> QED BY <3>2, <3>3, <5>1, Zenon DEF Total
        <4>2. Parts(entry, v, FALSE) \in Seq(FrameSet(v))
          BY <1>PartsType, Zenon
        <4>3. ss[1] = Parts(entry, v, FALSE) /\ Len(ss) = 1
          BY <3>4, Zenon DEF v
        <4>4. InRow(ss) = Parts(entry, v, FALSE)
          BY <4>2, <4>3, <2>InRowOne, Zenon
        <4> HIDE DEF t
        <4>5. t \o entry \in Lists /\ Parts(t, v, TRUE) \o Parts(entry, v, FALSE) = Parts(t \o entry, v, FALSE)
          BY <3>1, <1>JoinClosed, Zenon
        <4>6. Len(t \o entry) > 0
          BY <3>1 DEF Lists
        <4>7. ListReply(p.n, entry) = t \o entry
          BY <3>4, Zenon DEF ListReply, t
        <4> QED BY <4>1, <4>4, <4>5, <4>6, <4>7, Zenon DEF v
      <3>5. CASE p.n = 0
        <4>1. Total(p.n) = Parts(t, v, FALSE)
          <5>1. (p.n > 0) = FALSE
            BY <3>5
          <5> QED BY <3>2, <3>3, <5>1, Zenon DEF Total
        <4>2. Parts(t, v, FALSE) \in Seq(FrameSet(v))
          BY <3>1, <1>PartsType, Zenon
        <4>3. Len(ss) = 0
          BY <3>5, Zenon
        <4>4. InRow(ss) = <<>>
          BY <4>3, <2>InRowNone, Zenon
        <4>5. Parts(t, v, FALSE) \o <<>> = Parts(t, v, FALSE)
          BY <4>2, <1>SeqUnit, Zenon
        <4>6. t \o <<>> = t
          BY <3>1, <1>ListsJoin, Zenon
        <4>7. ListReply(p.n, entry) = t \o <<>>
          BY <3>5 DEF ListReply
        <4> HIDE DEF t
        <4> QED BY <3>1, <4>1, <4>4, <4>5, <4>6, <4>7, Zenon DEF v
      <3> QED BY <3>4, <3>5, Zenon DEF Few
    \* The status of an agent, with the list of its containers.
    <2>AgentParts.
      ASSUME NEW p
      PROVE  /\ AgentHead \in Lists /\ AgentEntry \in Lists /\ Len(AgentEntry) > 0
             /\ p.n = 1 /\ p.m = 1 => AgentFrames(p, 1) = Parts(AgentEntry, ReplyValue(p), FALSE)
      <3> DEFINE v == ReplyValue(p)
                 a == <<"alive", "addr", "host type">>
                 s == RECV_SYS_INFO
                 c == <<"containers">>
                 d == <<"ids", "types", "usages", "capacities">>
      <3>1. Plain(a) /\ Plain(s) /\ Plain(d)
        BY <2>PlainNames, Zenon
      <3>2. AgentHead = (a \o s) \o c /\ AgentEntry = ((a \o s) \o c) \o d
        BY Zenon DEF AgentHead, AgentEntry
      <3>3. c \in Lists /\ v["containers"] = p.m /\ <<Frame("containers", v["containers"], TRUE)>> = Parts(c, v, TRUE)
        BY <1>FieldNamed, <1>PartsOne, <2>ReplyValueOf, Zenon
      <3>4. p.n = 1 /\ p.m = 1 => AgentFrames(p, 1) = ((Fields(a, TRUE) \o Fields(s, TRUE)) \o <<Frame("containers", p.m, TRUE)>>) \o Fields(d, FALSE)
        <4> SUFFICES ASSUME p.n = 1, p.m = 1
                     PROVE  AgentFrames(p, 1) = ((Fields(a, TRUE) \o Fields(s, TRUE)) \o <<Frame("containers", p.m, TRUE)>>) \o Fields(d, FALSE)
          BY Zenon
        <4>1. (~(p.m = 0 /\ 1 = p.n)) = TRUE /\ (1 # p.n) = FALSE /\ p.m > 0
          OBVIOUS
        <4>2. AgentFrames(p, 1) = ((Fields(a, TRUE) \o Fields(s, TRUE)) \o <<Frame("containers", p.m, ~(p.m = 0 /\ 1 = p.n))>>) \o Fields(d, 1 # p.n)
          BY <4>1, Zenon DEF AgentFrames, SEND_SYS_INFO, When, RECV_SYS_INFO
        <4> QED BY <4>1, <4>2, Zenon
      <3> HIDE DEF v, a, s, c, d
      <3>5. /\ a \in Lists /\ Fields(a, TRUE) = Parts(a, v, TRUE)
            /\ s \in Lists /\ Fields(s, TRUE) = Parts(s, v, TRUE)
            /\ d \in Lists /\ Len(d) > 0 /\ Fields(d, FALSE) = Parts(d, v, FALSE)
        BY <3>1, <2>PlainParts, Zenon DEF v
      <3>6. a \o s \in Lists /\ Parts(a, v, TRUE) \o Parts(s, v, TRUE) = Parts(a \o s, v, TRUE)
        BY <3>5, <1>JoinOpen, ZenonT(60)
      <3>7. (a \o s) \o c \in Lists /\ Parts(a \o s, v, TRUE) \o Parts(c, v, TRUE) = Parts((a \o s) \o c, v, TRUE)
        BY <3>3, <3>6, <1>JoinOpen, Zenon
      <3>8. ((a \o s) \o c) \o d \in Lists /\ Parts((a \o s) \o c, v, TRUE) \o Parts(d, v, FALSE) = Parts(((a \o s) \o c) \o d, v, FALSE)
        BY <3>5, <3>7, <1>JoinClosed, Zenon
      <3>9. Len(((a \o s) \o c) \o d) > 0
        <4>1. Len(((a \o s) \o c) \o d) = Len((a \o s) \o c) + Len(d) /\ Len((a \o s) \o c) \in Nat /\ Len(d) \in Nat
          BY <3>5, <3>7, <1>ListsCat, Zenon
        <4> QED BY <3>5, <4>1
      <3> QED BY <3>2, <3>3, <3>4, <3>5, <3>6, <3>7, <3>8, <3>9, Zenon DEF v
    \* The parts of a reply to a read: the size, and the data or the path of the file.
    <2>ReadParts.
      ASSUME NEW p, p.op \in ReadOps
      PROVE  LET o == When(p.op = "READ_FILE_RANGE", <<"offset">>)
                 h == o \o <<"size", "cached">>
                 d == IF p.cached THEN <<"path">> ELSE <<"data">>
             IN  /\ o \in Lists /\ <<"size", "cached">> \in Lists /\ <<"size", "cached">> = <<"size">> \o <<"cached">>
                 /\ h \in Lists /\ d \in Lists
                 /\ ReadReply(p) = h \o d
                 /\ ReadReply(p) \in Lists /\ Len(ReadReply(p)) > 0
                 /\ p.ok => ReplyTail(p) = Parts(ReadReply(p), ReplyValue(p), FALSE)
      <3> USE <2>ReadParts
      <3> DEFINE v == ReplyValue(p)
                 o == When(p.op = "READ_FILE_RANGE", <<"offset">>)
                 sc == <<"size", "cached">>
                 h == o \o sc
                 d == IF p.cached THEN <<"path">> ELSE <<"data">>
                 fo == When(p.op = "READ_FILE_RANGE", Fields(<<"offset">>, TRUE))
                 fd == IF p.cached THEN Fields(<<"path">>, FALSE) ELSE <<Frame("data", p.data, FALSE)>>
      <3>1. v["size"] = p.size /\ v["cached"] = p.cached /\ v["data"] = p.data
        BY <2>ReplyValueOf, Zenon
      <3>2. ReadReply(p) = h \o d
        BY Zenon DEF ReadReply
      <3>3. p.ok => ReplyTail(p) = (fo \o <<Frame("size", p.size, TRUE), Frame("cached", p.cached, TRUE)>>) \o fd
        BY Zenon DEF ReplyTail, replyFileData, ReadOps
      <3> HIDE DEF v
      <3>4. o \in Lists /\ fo = Parts(o, v, TRUE)
        <4>1. /\ <<"offset">> \in Lists /\ Fields(<<"offset">>, TRUE) = Parts(<<"offset">>, v, TRUE)
          BY <2>PlainNames, <2>PlainParts, Zenon DEF v
        <4>2. <<>> \in Lists /\ Parts(<<>>, v, TRUE) = <<>>
          BY <1>PartsNone, Zenon
        <4> QED BY <4>1, <4>2, Zenon DEF When
      <3>5. d \in Lists /\ Len(d) > 0 /\ fd = Parts(d, v, FALSE)
        <4>1. /\ <<"path">> \in Lists /\ Len(<<"path">>) > 0 /\ Fields(<<"path">>, FALSE) = Parts(<<"path">>, v, FALSE)
          BY <2>PlainNames, <2>PlainParts, Zenon DEF v
        <4>2. <<"data">> \in Lists /\ Len(<<"data">>) > 0 /\ <<Frame("data", p.data, FALSE)>> = Parts(<<"data">>, v, FALSE)
          BY <3>1, <1>FieldNamed, <1>Single, <1>PartsOne, Zenon
        <4> QED BY <4>1, <4>2, Zenon
      <3>6. sc \in Lists /\ sc = <<"size">> \o <<"cached">>
        BY <1>FieldNamed, <2>Pairs, Zenon DEF Lists
      <3>7. <<Frame("size", p.size, TRUE), Frame("cached", p.cached, TRUE)>> = Parts(sc, v, TRUE)
        <4>1. /\ <<"size">> \in Lists /\ <<Frame("size", p.size, TRUE)>> = Parts(<<"size">>, v, TRUE)
              /\ <<"cached">> \in Lists /\ <<Frame("cached", p.cached, TRUE)>> = Parts(<<"cached">>, v, TRUE)
          BY <3>1, <1>FieldNamed, <1>PartsOne, Zenon
        <4>2. Parts(<<"size">>, v, TRUE) \o Parts(<<"cached">>, v, TRUE) = Parts(<<"size">> \o <<"cached">>, v, TRUE)
          BY <4>1, <1>JoinOpen, Zenon
        <4>3. \A x, y : <<x, y>> = <<x>> \o <<y>>
          <5> SUFFICES ASSUME NEW x, NEW y PROVE <<x, y>> = <<x>> \o <<y>>
            BY Zenon
          <5> DEFINE S == {x, y}
          <5>1. x \in S /\ y \in S
            BY Zenon
          <5> HIDE DEF S
          <5> QED BY <5>1, <2>Pairs, Zenon
        <4> DEFINE fs == Frame("size", p.size, TRUE)
                   fc == Frame("cached", p.cached, TRUE)
        <4> HIDE DEF fs, fc
        <4>4. <<fs, fc>> = <<fs>> \o <<fc>>
          BY <4>3, Zenon
        <4>5. <<fs>> = Parts(<<"size">>, v, TRUE) /\ <<fc>> = Parts(<<"cached">>, v, TRUE)
          BY <4>1, Zenon DEF fs, fc
        <4>6. <<fs, fc>> = Parts(<<"size">> \o <<"cached">>, v, TRUE)
          BY <4>2, <4>4, <4>5, Zenon
        <4> HIDE DEF sc
        <4>7. <<fs, fc>> = Parts(sc, v, TRUE)
          BY <3>6, <4>6, Zenon
        <4> QED BY <4>7, Zenon DEF fs, fc
      <3> HIDE DEF o, sc, d, fo, fd
      <3>8. h \in Lists /\ Parts(o, v, TRUE) \o Parts(sc, v, TRUE) = Parts(h, v, TRUE)
        <4>1. o \o sc \in Lists /\ Parts(o, v, TRUE) \o Parts(sc, v, TRUE) = Parts(o \o sc, v, TRUE)
          <5> HIDE DEF h
          <5>1. o \in Lists /\ sc \in Lists
            BY <3>4, <3>6, Zenon
          <5> QED BY <5>1, <1>JoinOpen, Zenon
        <4> QED BY <4>1, Zenon DEF h
      <3> HIDE DEF h
      <3>9. h \o d \in Lists /\ Parts(h, v, TRUE) \o Parts(d, v, FALSE) = Parts(h \o d, v, FALSE)
        BY <3>5, <3>8, <1>JoinClosed, Zenon
      <3>10. Len(h \o d) > 0
        <4>1. Len(h \o d) = Len(h) + Len(d) /\ Len(h) \in Nat /\ Len(d) \in Nat
          BY <3>5, <3>8, <1>ListsCat, Zenon
        <4> QED BY <3>5, <4>1
      <3>11. p.ok => ReplyTail(p) = Parts(ReadReply(p), v, FALSE)
        BY <3>2, <3>3, <3>4, <3>5, <3>7, <3>8, <3>9, Zenon
      <3>12. ReadReply(p) \in Lists /\ Len(ReadReply(p)) > 0
        BY <3>2, <3>9, <3>10, Zenon
      <3> QED BY <3>2, <3>4, <3>5, <3>6, <3>8, <3>11, <3>12, Zenon DEF h, o, sc, d, v
    \* The kinds of replies, and which of them consist of the part "reply" alone.
    <2>ReplyOps.
      ASSUME NEW p, Answer(p)
      PROVE  /\ replyOpcodeOnly(p) <=> (~p.ok \/ p.op \in ShortOps)
             /\ \/ ~p.ok \/ p.op \in ShortOps
                \/ p.ok /\ p.op \in ReadOps
                \/ p.ok /\ p.op \in SizeOps
                \/ p.ok /\ p.op = "GET_CAPACITY"
                \/ p.ok /\ p.op = "GET_FILE_LIST"
                \/ p.ok /\ p.op = "GET_AGENT_STATUS"
                \/ p.ok /\ p.op = "GET_PROXY_STATUS"
                \/ p.ok /\ p.op = "GET_BG_TASK_PRG"
                \/ p.ok /\ p.op = "GET_REPAIR_STATS"
      BY <2>ReplyOps, Zenon DEF Answer, Ops, FileOps, StatusOps, QueryOps, ShortOps, ReadOps, SizeOps, replyOpcodeOnly
    <2>PlainListParts.
      ASSUME NEW p, Few(p.n), NEW entry, Plain(entry)
      PROVE  LET ss == [i \in 1 .. p.n |-> Fields(entry, i # p.n)]
             IN  /\ ListReply(p.n, entry) \in Lists /\ Len(ListReply(p.n, entry)) > 0
                 /\ Total(p.n) \o InRow(ss) = Parts(ListReply(p.n, entry), ReplyValue(p), FALSE)
      <3> USE <2>PlainListParts
      <3> DEFINE ss == [i \in 1 .. p.n |-> Fields(entry, i # p.n)]
      <3>1. Len(ss) = p.n
        BY DEF Few
      <3>2. p.n = 1 => ss[1] = Fields(entry, FALSE)
        <4> SUFFICES ASSUME p.n = 1 PROVE ss[1] = Fields(entry, FALSE)
          BY Zenon
        <4>1. ss[1] = Fields(entry, 1 # p.n)
          OBVIOUS
        <4>2. (1 # p.n) = FALSE
          BY Zenon
        <4> QED BY <4>1, <4>2, Zenon
      <3> HIDE DEF ss
      <3>3. entry \in Lists /\ Len(entry) > 0 /\ Fields(entry, FALSE) = Parts(entry, ReplyValue(p), FALSE)
        BY <2>PlainParts, Zenon
      <3>4. p.n = 1 => ss[1] = Parts(entry, ReplyValue(p), FALSE)
        BY <3>2, <3>3, Zenon
      <3>5. /\ ListReply(p.n, entry) \in Lists /\ Len(ListReply(p.n, entry)) > 0
            /\ Total(p.n) \o InRow(ss) = Parts(ListReply(p.n, entry), ReplyValue(p), FALSE)
        BY <3>1, <3>3, <3>4, <2>ListParts, Zenon
      <3> QED BY <3>5, Zenon DEF ss
    \* sendReply sends the fields of Body, and "reply" announces more exactly if
    \* there are any.
    <2>BodyParts.
      ASSUME NEW p, Answer(p)
      PROVE  /\ Body(p) \in Lists
             /\ Len(Body(p)) > 0 <=> ~replyOpcodeOnly(p)
             /\ ReplyTail(p) = Parts(Body(p), ReplyValue(p), FALSE)
      <3> USE <2>BodyParts
      <3> DEFINE v == ReplyValue(p)
      <3>0. Few(p.n) /\ p.m = p.n /\ p.cached \in BOOLEAN /\ p.op \in Ops
        BY Zenon DEF Answer
      <3>1. CASE ~p.ok \/ p.op \in ShortOps
        <4>1. ReplyTail(p) = <<>>
          BY <3>1, Zenon DEF ReplyTail, ShortOps, replyFileData
        <4>2. Body(p) = <<>>
          BY <3>1, Zenon DEF Body, ShortOps
        <4>3. replyOpcodeOnly(p)
          BY <3>1, <2>ReplyOps, Zenon
        <4> QED BY <4>1, <4>2, <4>3, <1>PartsNone, <1>Empty, Zenon
      <3>2. CASE p.ok /\ p.op \in ReadOps
        <4>1. Body(p) = ReadReply(p)
          BY <3>2, Zenon DEF Body, ReadOps
        <4>2. ~replyOpcodeOnly(p)
          BY <3>2, Zenon DEF ReadOps, replyOpcodeOnly
        <4>3. ReadReply(p) \in Lists /\ Len(ReadReply(p)) > 0 /\ ReplyTail(p) = Parts(ReadReply(p), v, FALSE)
          BY <3>2, <2>ReadParts, Zenon
        <4> QED BY <4>1, <4>2, <4>3, Zenon
      <3>3. CASE p.ok /\ p.op \in SizeOps
        <4>1. Body(p) = <<"size">>
          BY <3>3, Zenon DEF Body, SizeOps
        <4>2. ~replyOpcodeOnly(p)
          BY <3>3, Zenon DEF SizeOps, replyOpcodeOnly
        <4>3. ReplyTail(p) = <<Frame("size", p.size, FALSE)>>
          BY <3>3, Zenon DEF ReplyTail, SizeOps, replyFileData
        <4>4. v["size"] = p.size
          BY <2>ReplyValueOf, Zenon
        <4> HIDE DEF v
        <4>5. <<"size">> \in Lists /\ Len(<<"size">>) > 0 /\ <<Frame("size", v["size"], FALSE)>> = Parts(<<"size">>, v, FALSE)
          BY <1>FieldNamed, <1>PartsOne, <1>Single, Zenon
        <4> QED BY <4>1, <4>2, <4>3, <4>4, <4>5, Zenon DEF v
      <3>4. CASE p.ok /\ p.op = "GET_CAPACITY"
        <4> DEFINE e == <<"usage", "capacity", "count", "limit">>
        <4>1. Body(p) = e /\ ReplyTail(p) = Fields(e, FALSE) /\ ~replyOpcodeOnly(p)
          BY <3>4, Zenon DEF Body, ReplyTail, replyFileData, replyOpcodeOnly
        <4>2. Plain(e)
          BY <2>PlainNames, Zenon
        <4> HIDE DEF e
        <4>3. e \in Lists /\ Len(e) > 0 /\ Fields(e, FALSE) = Parts(e, v, FALSE)
          BY <4>2, <2>PlainParts, Zenon
        <4> QED BY <4>1, <4>3, Zenon
      <3>5. CASE p.ok /\ p.op = "GET_REPAIR_STATS"
        <4> DEFINE e == <<"count", "repair">>
        <4>1. Body(p) = e /\ ReplyTail(p) = Fields(e, FALSE) /\ ~replyOpcodeOnly(p)
          BY <3>5, Zenon DEF Body, ReplyTail, replyFileData, replyOpcodeOnly
        <4>2. Plain(e)
          BY <2>PlainNames, Zenon
        <4> HIDE DEF e
        <4>3. e \in Lists /\ Len(e) > 0 /\ Fields(e, FALSE) = Parts(e, v, FALSE)
          BY <4>2, <2>PlainParts, Zenon
        <4> QED BY <4>1, <4>3, Zenon
      <3>6. CASE p.ok /\ p.op = "GET_PROXY_STATUS"
        <4> DEFINE e == RECV_SYS_INFO
        <4>1. Body(p) = e /\ ReplyTail(p) = SEND_SYS_INFO(FALSE) /\ ~replyOpcodeOnly(p)
          BY <3>6, Zenon DEF Body, ReplyTail, replyFileData, replyOpcodeOnly
        <4>2. SEND_SYS_INFO(FALSE) = Fields(e, FALSE)
          BY Zenon DEF SEND_SYS_INFO, RECV_SYS_INFO
        <4>3. e \in Lists /\ Len(e) > 0 /\ Fields(e, FALSE) = Parts(e, v, FALSE)
          BY <2>PlainNames, <2>PlainParts, Zenon
        <4> QED BY <4>1, <4>2, <4>3, Zenon
      <3>7. CASE p.ok /\ p.op = "GET_FILE_LIST"
        <4>1. /\ Body(p) = ListReply(p.n, FileEntry) /\ ~replyOpcodeOnly(p)
              /\ ReplyTail(p) = Total(p.n) \o InRow([i \in 1 .. p.n |-> Fields(FileEntry, i # p.n)])
          BY <3>7, Zenon DEF Body, ReplyTail, replyFileData, replyOpcodeOnly, FileEntry
        <4>2. Plain(FileEntry)
          BY <2>PlainNames, Zenon
        <4> QED BY <3>0, <4>1, <4>2, <2>PlainListParts, Zenon
      <3>8. CASE p.ok /\ p.op = "GET_BG_TASK_PRG"
        <4>1. /\ Body(p) = ListReply(p.n, TaskEntry) /\ ~replyOpcodeOnly(p)
              /\ ReplyTail(p) = Total(p.n) \o InRow([i \in 1 .. p.n |-> Fields(TaskEntry, i # p.n)])
          BY <3>8, Zenon DEF Body, ReplyTail, replyFileData, replyOpcodeOnly, TaskEntry
        <4>2. Plain(TaskEntry)
          BY <2>PlainNames, Zenon
        <4> QED BY <3>0, <4>1, <4>2, <2>PlainListParts, Zenon
      <3>9. CASE p.ok /\ p.op = "GET_AGENT_STATUS"
        <4> DEFINE ss == [i \in 1 .. p.n |-> AgentFrames(p, i)]
        <4>1. /\ Body(p) = ListReply(p.n, AgentEntry) /\ ~replyOpcodeOnly(p)
              /\ ReplyTail(p) = Total(p.n) \o InRow(ss)
          BY <3>9, Zenon DEF Body, ReplyTail, replyFileData, replyOpcodeOnly
        <4>2. Len(ss) = p.n /\ (p.n = 1 => ss[1] = AgentFrames(p, 1))
          BY <3>0 DEF Few
        <4> HIDE DEF ss
        <4>3. AgentEntry \in Lists /\ Len(AgentEntry) > 0 /\ (p.n = 1 => ss[1] = Parts(AgentEntry, ReplyValue(p), FALSE))
          BY <3>0, <4>2, <2>AgentParts, Zenon
        <4>4. /\ ListReply(p.n, AgentEntry) \in Lists /\ Len(ListReply(p.n, AgentEntry)) > 0
              /\ Total(p.n) \o InRow(ss) = Parts(ListReply(p.n, AgentEntry), ReplyValue(p), FALSE)
          BY <3>0, <4>2, <4>3, <2>ListParts, Zenon
        <4> QED BY <4>1, <4>4, Zenon
      <3> QED BY <3>1, <3>2, <3>3, <3>4, <3>5, <3>6, <3>7, <3>8, <3>9, <2>ReplyOps, Zenon
    <2>ReplyParts.
      ASSUME NEW p, Answer(p)
      PROVE  /\ <<"reply">> \in Lists /\ Body(p) \in Lists
             /\ <<"reply">> \o Body(p) \in Lists /\ <<"reply">> \o Body(p) # <<>>
             /\ ReplyFrames(p) = Parts(<<"reply">> \o Body(p), ReplyValue(p), FALSE)
      <3> USE <2>ReplyParts
      <3> DEFINE v == ReplyValue(p)
                 t == <<"reply">>
                 last == ~replyOpcodeOnly(p)
      <3>1. Body(p) \in Lists /\ (Len(Body(p)) > 0 <=> ~replyOpcodeOnly(p)) /\ ReplyTail(p) = Parts(Body(p), v, FALSE)
        BY <2>BodyParts, Zenon
      <3>2. ReplyFrames(p) = <<Frame("reply", [op |-> p.op, ok |-> p.ok], last)>> \o ReplyTail(p)
        BY Zenon DEF ReplyFrames, ReplyTail
      <3>3. v["reply"] = [op |-> p.op, ok |-> p.ok]
        BY <2>ReplyValueOf, Zenon
      <3>4. last \in BOOLEAN /\ (last <=> (Len(Body(p)) > 0 \/ FALSE))
        BY <3>1, Zenon DEF replyOpcodeOnly
      <3>5. t \in Lists /\ t # <<>>
        BY <1>FieldNamed, <1>Single, Zenon
      <3> HIDE DEF v, last
      <3>6. <<Frame("reply", v["reply"], last)>> = Parts(t, v, last)
        BY <3>4, <1>FieldNamed, <1>PartsOne, Zenon
      <3> HIDE DEF t
      <3>7. t \o Body(p) \in Lists /\ Parts(t, v, last) \o Parts(Body(p), v, FALSE) = Parts(t \o Body(p), v, FALSE)
        <4>1. CASE last = TRUE
          BY <3>1, <3>4, <3>5, <4>1, <1>JoinClosed, Zenon
        <4>2. CASE last = FALSE
          <5>1. Body(p) = <<>>
            BY <3>1, <3>4, <4>2 DEF Lists
          <5>2. t \o <<>> = t /\ Parts(<<>>, v, FALSE) = <<>>
            BY <3>5, <1>ListsJoin, <1>PartsNone, Zenon
          <5>3. Parts(t, v, FALSE) \o <<>> = Parts(t, v, FALSE)
            <6>1. Parts(t, v, FALSE) \in Seq(FrameSet(v))
              BY <3>5, <1>PartsType, Zenon
            <6> QED BY <6>1, <1>SeqUnit, Zenon
          <5> QED BY <3>5, <4>2, <5>1, <5>2, <5>3, Zenon
        <4> QED BY <3>4, <4>1, <4>2, Zenon
      <3>8. t \o Body(p) # <<>>
        BY <3>1, <3>5, <1>ListsJoin, Zenon
      <3> QED BY <3>1, <3>2, <3>3, <3>5, <3>6, <3>7, <3>8, Zenon DEF v, t
    \* Fields read from the beginning of a reply.
    <2>FieldIn.
      ASSUME NEW s \in Lists, NEW t \in Lists, NEW val, NEW x, NEW def
      PROVE  /\ Occurs(x, s) => Field(Parts(s \o t, val, FALSE), s, x, def) = val[x]
             /\ ~Occurs(x, s) => Field(Parts(s \o t, val, FALSE), s, x, def) = def
      BY <1>FieldReads, Zenon
    <2>TimesFew.
      ASSUME NEW n, Few(n), NEW e
      PROVE  /\ n # 1 => Times(n, e) = <<>>
             /\ n = 1 /\ e \in Lists => Times(n, e) = e
      <3> USE <2>TimesFew
      <3> DEFINE ss == [i \in 1 .. n |-> e]
      <3>1. Len(ss) = n /\ (n = 1 => ss[1] = e) /\ (n # 1 => n = 0)
        BY DEF Few
      <3>2. Times(n, e) = InRow(ss)
        BY Zenon DEF Times
      <3> HIDE DEF ss
      <3>3. CASE n # 1
        <4>1. Len(ss) = 0
          BY <3>1, <3>3, Zenon
        <4> QED BY <3>2, <3>3, <4>1, <2>InRowNone, Zenon
      <3>4. CASE n = 1 /\ e \in Lists
        <4>1. Len(ss) = 1 /\ ss[1] = e /\ ss[1] \in Seq(FieldNames)
          BY <3>1, <3>4, Zenon DEF Lists
        <4>2. InRow(ss) = ss[1]
          BY <4>1, <2>InRowOne, Zenon
        <4> QED BY <3>2, <3>4, <4>1, <4>2, Zenon
      <3> QED BY <3>3, <3>4, Zenon
    <2>FewCounts.
      \A n : Few(n) => n # Garbage
      BY GatewayAssumption DEF Few
    <2>TwoNames.
      <<"reply", "total">> = <<"reply">> \o <<"total">> /\ <<"reply">> \in Lists /\ <<"total">> \in Lists
      BY <1>FieldNamed, <2>Pairs, Zenon DEF Lists
    \* The client reads the number of entries that was sent.
    <2>TotalRead.
      ASSUME NEW p, Answer(p), NEW e \in Lists, Body(p) = ListReply(p.n, e)
      PROVE  Count(ReplyFrames(p), <<"reply", "total">>, "total") = p.n
      <3> USE <2>TotalRead
      <3> DEFINE v == ReplyValue(p)
                 s == <<"reply">> \o <<"total">>
                 t == IF p.n = 1 THEN e ELSE <<>>
      <3>1. s \in Lists /\ t \in Lists
        BY <2>TwoNames, <1>ListsJoin, <1>Empty, Zenon
      <3>2. <<"reply">> \o Body(p) = s \o t
        <4>1. Body(p) = <<"total">> \o t
          BY Zenon DEF ListReply
        <4> DEFINE a == <<"reply">>
                   b == <<"total">>
        <4>2. a \in Lists /\ b \in Lists
          BY <2>TwoNames, Zenon
        <4> HIDE DEF a, b, t
        <4>3. a \o (b \o t) = (a \o b) \o t
          BY <3>1, <4>2, <1>ListsJoin, ZenonT(60)
        <4> QED BY <4>1, <4>3, Zenon DEF a, b
      <3>3. ReplyFrames(p) = Parts(s \o t, v, FALSE)
        BY <3>2, <2>ReplyParts, Zenon
      <3>4. Occurs("total", s)
        BY <2>TwoNames, <1>OccursList, Zenon
      <3>5. v["total"] = p.n /\ p.n # Garbage
        BY <2>ReplyValueOf, <2>FewCounts, Zenon DEF Answer
      <3> HIDE DEF s, t, v
      <3>6. Field(Parts(s \o t, v, FALSE), s, "total", 0) = v["total"]
        <4> DEFINE x == "total"
                   def == 0
        <4>1. Occurs(x, s)
          BY <3>4, Zenon
        <4> HIDE DEF x, def
        <4>2. /\ Occurs(x, s) => Field(Parts(s \o t, v, FALSE), s, x, def) = v[x]
              /\ ~Occurs(x, s) => Field(Parts(s \o t, v, FALSE), s, x, def) = def
          BY <3>1, <2>FieldIn, ZenonT(60)
        <4> QED BY <4>1, <4>2, Zenon DEF x, def
      <3>7. Field(ReplyFrames(p), <<"reply", "total">>, "total", 0) = p.n
        BY <3>3, <3>5, <3>6, <2>TwoNames, Zenon DEF s
      <3> QED BY <3>5, <3>7, Zenon DEF Count
    \* The fields the client expects of an agent, with the containers it is told of,
    \* are those that are sent.
    <2>ContainersRead.
      ASSUME NEW p, Answer(p), Body(p) = ListReply(p.n, AgentEntry), p.n = 1
      PROVE  AgentFields(ReplyFrames(p)) = AgentEntry
      <3> USE <2>ContainersRead
      <3> DEFINE v == ReplyValue(p)
                 r == <<"reply">>
                 o == <<"total">>
                 c == <<"containers">>
                 d == <<"ids", "types", "usages", "capacities">>
                 a == <<"alive", "addr", "host type">> \o RECV_SYS_INFO
                 s == (r \o o) \o AgentHead
                 fs == ReplyFrames(p)
      <3>1. r \in Lists /\ o \in Lists /\ r \o o \in Lists /\ AgentHead \in Lists /\ c \in Lists
        BY <2>TwoNames, <1>ListsJoin, <2>AgentParts, <1>FieldNamed, <1>Single, Zenon
      <3>2. a \in Lists /\ d \in Lists
        BY <2>PlainNames, <1>ListsJoin, Zenon DEF Plain
      <3>3. AgentEntry = AgentHead \o d /\ AgentHead = a \o c
        BY Zenon DEF AgentEntry, AgentHead
      <3>4. s \in Lists
        BY <3>1, <1>ListsJoin, Zenon
      <3>5. r \o Body(p) = s \o d
        <4>1. Body(p) = o \o (AgentHead \o d)
          BY <3>3, Zenon DEF ListReply
        <4> HIDE DEF r, o, d, a, c
        <4>2. AgentHead \o d \in Lists
          BY <3>1, <3>2, <1>ListsJoin, Zenon
        <4>3. r \o (o \o (AgentHead \o d)) = (r \o o) \o (AgentHead \o d)
          BY <3>1, <4>2, <1>ListsJoin, ZenonT(60)
        <4>4. (r \o o) \o (AgentHead \o d) = ((r \o o) \o AgentHead) \o d
          <5>1. r \o o \in Lists /\ AgentHead \in Lists /\ d \in Lists
            BY <3>1, <3>2, Zenon
          <5> HIDE DEF s
          <5> QED BY <5>1, <1>ListsJoin, Zenon
        <4> QED BY <4>1, <4>3, <4>4, Zenon
      <3>6. fs = Parts(s \o d, v, FALSE)
        BY <3>5, <2>ReplyParts, Zenon
      <3>7. Occurs("containers", s)
        <4>1. Occurs("containers", c)
          BY <1>OccursList, Zenon
        <4> HIDE DEF r, o, d, a, c
        <4>2. Occurs("containers", AgentHead)
          BY <3>1, <3>2, <3>3, <4>1, <1>OccursList, Zenon
        <4> QED BY <3>1, <4>2, <1>OccursList, Zenon
      <3>8. v["containers"] = p.m /\ p.m = 1 /\ p.m # Garbage /\ p.m > 0
        <4>1. v["containers"] = p.m /\ p.m = p.n /\ p.n # Garbage
          BY <2>ReplyValueOf, <2>FewCounts, Zenon DEF Answer
        <4> QED BY <4>1
      <3> HIDE DEF s, v, fs, d
      <3>9. Field(Parts(s \o d, v, FALSE), s, "containers", 0) = v["containers"]
        <4> DEFINE x == "containers"
                   def == 0
        <4>1. Occurs(x, s)
          BY <3>7, Zenon
        <4> HIDE DEF x, def
        <4>2. /\ Occurs(x, s) => Field(Parts(s \o d, v, FALSE), s, x, def) = v[x]
              /\ ~Occurs(x, s) => Field(Parts(s \o d, v, FALSE), s, x, def) = def
          <5>1. s \in Lists /\ d \in Lists
            BY <3>2, <3>4, Zenon
          <5>2. \A val, y, z : /\ Occurs(y, s) => Field(Parts(s \o d, val, FALSE), s, y, z) = val[y]
                               /\ ~Occurs(y, s) => Field(Parts(s \o d, val, FALSE), s, y, z) = z
            BY <5>1, <2>FieldIn, Zenon
          <5> QED BY <5>2, Zenon
        <4> QED BY <4>1, <4>2, Zenon DEF x, def
      <3>10. Field(fs, s, "containers", 0) = p.m
        BY <3>6, <3>8, <3>9, Zenon
      <3>11. Count(fs, s, "containers") = p.m
        BY <3>8, <3>10, Zenon DEF Count
      <3>12. s = <<"reply", "total">> \o (<<"alive", "addr", "host type">> \o RECV_SYS_INFO \o <<"containers">>)
        BY <2>TwoNames, Zenon DEF s, AgentHead
      <3>13. Count(fs, <<"reply", "total">> \o (<<"alive", "addr", "host type">> \o RECV_SYS_INFO \o <<"containers">>), "containers") > 0
        BY <3>8, <3>11, <3>12, Zenon
      <3>14. AgentFields(fs) = AgentHead \o d
        BY <3>13, Zenon DEF AgentFields, AgentHead, When, d
      <3> QED BY <3>3, <3>14, Zenon DEF fs
    <2>ListExpected.
      ASSUME NEW p, Answer(p), NEW e \in Lists, Body(p) = ListReply(p.n, e),
             NEW f, p.n = 1 => f = e
      PROVE  ListFields(ReplyFrames(p), f) = Body(p)
      <3> USE <2>ListExpected
      <3>1. Few(p.n) /\ Count(ReplyFrames(p), <<"reply", "total">>, "total") = p.n
        BY <2>TotalRead, Zenon DEF Answer
      <3>2. ListFields(ReplyFrames(p), f) = <<"total">> \o Times(p.n, f)
        BY <3>1, Zenon DEF ListFields
      <3>3. Times(p.n, f) = IF p.n = 1 THEN e ELSE <<>>
        BY <3>1, <2>TimesFew, Zenon
      <3> QED BY <3>2, <3>3, Zenon DEF ListReply
    \* The client sees kind and status of the reply.
    <2>FirstPart.
      ASSUME NEW p, Answer(p)
      PROVE  ReplyFrames(p)[1].v.op = p.op /\ ReplyFrames(p)[1].v.ok = p.ok
      <3> USE <2>FirstPart
      <3> DEFINE v == ReplyValue(p)
                 r == <<"reply">>
                 full == r \o Body(p)
                 fs == ReplyFrames(p)
      <3>1. r \in Lists /\ Body(p) \in Lists /\ full \in Lists /\ fs = Parts(full, v, FALSE)
        BY <2>ReplyParts, Zenon
      <3>2. Len(r) = 1 /\ r[1] = "reply"
        BY Zenon
      <3>3. v["reply"] = [op |-> p.op, ok |-> p.ok]
        BY <2>ReplyValueOf, Zenon
      <3> HIDE DEF v, r, fs
      <3>4. Len(full) = Len(r) + Len(Body(p)) /\ Len(Body(p)) \in Nat /\ \A i \in 1 .. Len(r) : full[i] = r[i]
        BY <3>1, <1>ListsCat, Zenon
      <3> HIDE DEF full
      <3>5. 1 \in 1 .. Len(full) /\ 1 \in 1 .. Len(r)
        BY <3>2, <3>4
      <3>6. full[1] = "reply"
        BY <3>2, <3>4, <3>5, Zenon
      <3>7. \A i \in 1 .. Len(full) : fs[i] = Frame(full[i], v[full[i]], i < Len(full) \/ FALSE)
        BY <3>1, <1>PartsType, Zenon
      <3>8. fs[1] = Frame("reply", v["reply"], 1 < Len(full) \/ FALSE)
        BY <3>5, <3>6, <3>7, Zenon
      <3>9. fs[1].v = v["reply"]
        BY <3>8, <1>FrameFields
      <3>10. v["reply"].op = p.op /\ v["reply"].ok = p.ok
        <4> DEFINE w == [op |-> p.op, ok |-> p.ok]
        <4>1. \A a, b : [op |-> a, ok |-> b].op = a /\ [op |-> a, ok |-> b].ok = b
          BY Zenon
        <4>2. w.op = p.op /\ w.ok = p.ok
          BY <4>1, Zenon
        <4> HIDE DEF w
        <4>3. v["reply"] = w
          BY <3>3, Zenon DEF w
        <4> QED BY <4>2, <4>3, Zenon
      <3> QED BY <3>9, <3>10, Zenon DEF fs
    <2>ReadExpected.
      ASSUME NEW p, Answer(p), p.ok, p.op \in ReadOps
      PROVE  ReadFields(ReplyFrames(p)) = ReadReply(p)
      <3> USE <2>ReadExpected
      <3> DEFINE v == ReplyValue(p)
                 r == <<"reply">>
                 o == When(p.op = "READ_FILE_RANGE", <<"offset">>)
                 sc == <<"size", "cached">>
                 h == o \o sc
                 d == IF p.cached THEN <<"path">> ELSE <<"data">>
                 fs == ReplyFrames(p)
                 s == r \o h
      <3>1. /\ o \in Lists /\ sc \in Lists /\ sc = <<"size">> \o <<"cached">> /\ h \in Lists /\ d \in Lists
            /\ ReadReply(p) = h \o d
        BY <2>ReadParts, Zenon
      <3>2. Body(p) = h \o d
        <4>1. Body(p) = ReadReply(p)
          BY Zenon DEF Body, ReadOps
        <4> QED BY <3>1, <4>1, Zenon
      <3>3. r \in Lists /\ fs = Parts(r \o Body(p), v, FALSE)
        BY <2>ReplyParts, Zenon
      <3>4. fs[1].v.op = p.op
        BY <2>FirstPart, Zenon
      <3>5. Occurs("cached", sc)
        <4>1. Occurs("cached", <<"cached">>) /\ <<"size">> \in Lists /\ <<"cached">> \in Lists
          BY <1>OccursList, <1>FieldNamed, <1>Single, Zenon
        <4> HIDE DEF sc
        <4>2. Occurs("cached", <<"size">> \o <<"cached">>)
          BY <4>1, <1>OccursList, Zenon
        <4> QED BY <3>1, <4>2, Zenon
      <3>6. ReadFields(fs) = (IF Field(fs, s, "cached", FALSE) = TRUE THEN h \o <<"path">> ELSE h \o <<"data">>)
        BY <3>4, Zenon DEF ReadFields
      <3>7. v["cached"] = p.cached /\ p.cached \in BOOLEAN
        BY <2>ReplyValueOf, Zenon DEF Answer
      <3> HIDE DEF v, r, o, sc, d, fs
      <3>8. Occurs("cached", h)
        <4>1. o \in Lists /\ sc \in Lists /\ Occurs("cached", sc)
          BY <3>1, <3>5, Zenon
        <4>2. Occurs("cached", o \o sc)
          <5> HIDE DEF h
          <5> QED BY <4>1, <1>OccursList, Zenon
        <4> QED BY <4>2, Zenon
      <3> HIDE DEF h
      <3>9. s \in Lists /\ Occurs("cached", s) /\ r \o (h \o d) = s \o d
        <4>1. r \o h \in Lists /\ Occurs("cached", r \o h)
          BY <3>1, <3>3, <3>8, <1>ListsJoin, <1>OccursList, Zenon
        <4>2. r \o (h \o d) = (r \o h) \o d
          <5>1. r \in Lists /\ h \in Lists /\ d \in Lists
            BY <3>1, <3>3, Zenon
          <5> HIDE DEF s
          <5> QED BY <5>1, <1>ListsJoin, Zenon
        <4> QED BY <4>1, <4>2, Zenon
      <3> HIDE DEF s
      <3>10. fs = Parts(s \o d, v, FALSE)
        BY <3>2, <3>3, <3>9, Zenon
      <3>11. Field(fs, s, "cached", FALSE) = p.cached
        <4> DEFINE x == "cached"
                   def == FALSE
        <4>0. Occurs(x, s)
          BY <3>9, Zenon
        <4> HIDE DEF x, def
        <4>1. /\ Occurs(x, s) => Field(Parts(s \o d, v, FALSE), s, x, def) = v[x]
              /\ ~Occurs(x, s) => Field(Parts(s \o d, v, FALSE), s, x, def) = def
          <5>1. s \in Lists /\ d \in Lists
            BY <3>1, <3>9, Zenon
          <5>2. \A val, y, z : /\ Occurs(y, s) => Field(Parts(s \o d, val, FALSE), s, y, z) = val[y]
                               /\ ~Occurs(y, s) => Field(Parts(s \o d, val, FALSE), s, y, z) = z
            BY <5>1, <2>FieldIn, Zenon
          <5> QED BY <5>2, Zenon
        <4>2. Field(fs, s, x, def) = v[x]
          BY <3>10, <4>0, <4>1, Zenon
        <4> QED BY <3>7, <4>2, Zenon DEF x, def
      <3>12. ReadFields(fs) = h \o d
        <4>1. CASE p.cached = TRUE
          BY <3>6, <3>11, <4>1, Zenon DEF d
        <4>2. CASE p.cached = FALSE
          BY <3>6, <3>11, <4>2, Zenon DEF d
        <4> QED BY <3>7, <4>1, <4>2, Zenon
      <3> QED BY <3>1, <3>12, Zenon DEF fs
    \* The client expects the fields that are sent, for every kind of reply.
    <2>FieldsExpected.
      ASSUME NEW p, Answer(p)
      PROVE  ExpectedFields(ReplyFrames(p)) = Body(p)
      <3> USE <2>FieldsExpected
      <3> DEFINE fs == ReplyFrames(p)
                 op == IF fs[1].v.ok THEN fs[1].v.op ELSE "failure"
      <3>1. fs[1].v.ok = p.ok /\ fs[1].v.op = p.op
        BY <2>FirstPart, Zenon
      <3>2. op = IF p.ok THEN p.op ELSE "failure"
        BY <3>1, Zenon
      <3>3. ExpectedFields(fs) =
              CASE op \in {"READ_FILE", "READ_FILE_RANGE"} -> ReadFields(fs)
                [] op = "GET_CAPACITY" -> <<"usage", "capacity", "count", "limit">>
                [] op = "GET_FILE_LIST" -> ListFields(fs, FileEntry)
                [] op \in {"GET_APPEND_SIZE", "GET_READ_SIZE", "APPEND_FILE", "OVERWRITE_FILE"} -> <<"size">>
                [] op = "GET_AGENT_STATUS" -> ListFields(fs, AgentFields(fs))
                [] op = "GET_PROXY_STATUS" -> RECV_SYS_INFO
                [] op = "GET_BG_TASK_PRG" -> ListFields(fs, TaskEntry)
                [] op = "GET_REPAIR_STATS" -> <<"count", "repair">>
                [] OTHER -> <<>>
        BY Zenon DEF ExpectedFields, FileEntry, TaskEntry
      <3>4. p.ok \in BOOLEAN
        BY Zenon DEF Answer
      <3> HIDE DEF op, fs
      <3>5. CASE ~p.ok
        <4>1. ExpectedFields(fs) = <<>>
          BY <3>2, <3>3, <3>5, Zenon
        <4> QED BY <3>5, <4>1, Zenon DEF Body, fs
      <3>6. CASE p.ok /\ p.op \in ShortOps
        <4>1. ExpectedFields(fs) = <<>>
          BY <3>2, <3>3, <3>6, Zenon DEF ShortOps
        <4>2. Body(p) = <<>>
          BY <3>6, Zenon DEF Body, ShortOps
        <4> QED BY <4>1, <4>2, Zenon DEF fs
      <3>7. CASE p.ok /\ p.op \in ReadOps
        <4>1. ExpectedFields(fs) = ReadFields(fs)
          BY <3>2, <3>3, <3>7, Zenon DEF ReadOps
        <4>2. Body(p) = ReadReply(p)
          BY <3>7, Zenon DEF Body, ReadOps
        <4> QED BY <3>7, <4>1, <4>2, <2>ReadExpected, Zenon DEF fs
      <3>8. CASE p.ok /\ p.op \in SizeOps
        <4>1. ExpectedFields(fs) = <<"size">>
          BY <3>2, <3>3, <3>8, Zenon DEF SizeOps
        <4>2. Body(p) = <<"size">>
          BY <3>8, Zenon DEF Body, SizeOps
        <4> QED BY <4>1, <4>2, Zenon DEF fs
      <3>9. CASE p.ok /\ p.op \in {"GET_CAPACITY", "GET_PROXY_STATUS", "GET_REPAIR_STATS"}
        <4>1. ExpectedFields(fs) = Body(p)
          BY <3>2, <3>3, <3>9, Zenon DEF Body
        <4> QED BY <4>1, Zenon DEF fs
      <3>10. CASE p.ok /\ p.op = "GET_FILE_LIST"
        <4>1. ExpectedFields(fs) = ListFields(fs, FileEntry)
          BY <3>2, <3>3, <3>10, Zenon
        <4>2. Body(p) = ListReply(p.n, FileEntry)
          BY <3>10, Zenon DEF Body
        <4>3. FileEntry \in Lists
          BY <2>PlainNames, Zenon DEF Plain
        <4>4. ListFields(ReplyFrames(p), FileEntry) = Body(p)
          BY <4>2, <4>3, <2>ListExpected, Zenon
        <4> QED BY <4>1, <4>4, Zenon DEF fs
      <3>11. CASE p.ok /\ p.op = "GET_BG_TASK_PRG"
        <4>1. ExpectedFields(fs) = ListFields(fs, TaskEntry)
          BY <3>2, <3>3, <3>11, Zenon
        <4>2. Body(p) = ListReply(p.n, TaskEntry)
          BY <3>11, Zenon DEF Body
        <4>3. TaskEntry \in Lists
          BY <2>PlainNames, Zenon DEF Plain
        <4>4. ListFields(ReplyFrames(p), TaskEntry) = Body(p)
          BY <4>2, <4>3, <2>ListExpected, Zenon
        <4> QED BY <4>1, <4>4, Zenon DEF fs
      <3>12. CASE p.ok /\ p.op = "GET_AGENT_STATUS"
        <4>1. ExpectedFields(fs) = ListFields(fs, AgentFields(fs))
          BY <3>2, <3>3, <3>12, Zenon
        <4>2. Body(p) = ListReply(p.n, AgentEntry)
          BY <3>12, Zenon DEF Body
        <4>3. AgentEntry \in Lists /\ (p.n = 1 => AgentFields(ReplyFrames(p)) = AgentEntry)
          BY <4>2, <2>AgentParts, <2>ContainersRead, Zenon
        <4>4. ListFields(ReplyFrames(p), AgentFields(ReplyFrames(p))) = Body(p)
          BY <4>2, <4>3, <2>ListExpected, Zenon
        <4> QED BY <4>1, <4>4, Zenon DEF fs
      <3> QED BY <3>5, <3>6, <3>7, <3>8, <3>9, <3>10, <3>11, <3>12, <2>ReplyOps, Zenon
    \* Lists of plain fields have neither a size nor data.
    <2>PlainOccurs.
      ASSUME NEW s, Plain(s)
      PROVE  s \in Lists /\ ~Occurs("size", s) /\ ~Occurs("data", s)
      <3> USE <2>PlainOccurs
      <3>1. s \in Lists /\ \A i \in 1 .. Len(s) : s[i] \notin Special
        BY Zenon DEF Plain
      <3>2. "size" \in Special /\ "data" \in Special
        BY Zenon DEF Special
      <3> QED BY <3>1, <3>2, Zenon DEF Occurs
    <2>WithoutBoth.
      /\ \A s, t : Without(s) /\ Without(t) => Without(s \o t)
      /\ \A s : Plain(s) => Without(s)
      /\ Without(<<>>) /\ Without(<<"reply">>) /\ Without(<<"total">>) /\ Without(<<"containers">>)
      <3>1. ASSUME NEW s, NEW t, Without(s), Without(t)
            PROVE  Without(s \o t)
        <4>1. s \in Lists /\ t \in Lists /\ s \o t \in Lists
          BY <3>1, <1>ListsJoin, Zenon DEF Without
        <4>2. \A x : Occurs(x, s \o t) <=> (Occurs(x, s) \/ Occurs(x, t))
          BY <4>1, <1>OccursList, Zenon
        <4> QED BY <3>1, <4>1, <4>2, Zenon DEF Without
      <3>2. \A s : Plain(s) => Without(s)
        BY <2>PlainOccurs, Zenon DEF Without
      <3>3. \A y \in {"reply", "total", "containers"} : y # "size" /\ y # "data" /\ y \in FieldNames
        BY <1>FieldNamed, Zenon
      <3>4. \A y \in {"reply", "total", "containers"} : Without(<<y>>)
        <4> SUFFICES ASSUME NEW y \in {"reply", "total", "containers"} PROVE Without(<<y>>)
          BY Zenon
        <4>1. y # "size" /\ y # "data" /\ <<y>> \in Lists
          BY <3>3, <1>Single, Zenon
        <4>2. ~Occurs("size", <<y>>) /\ ~Occurs("data", <<y>>)
          BY <4>1, <1>OccursOne, Zenon
        <4> QED BY <4>1, <4>2, Zenon DEF Without
      <3>5. Without(<<>>)
        BY <1>OccursList, <1>Empty, Zenon DEF Without
      <3> QED BY <3>1, <3>2, <3>4, <3>5, Zenon
    <2>OccursNames.
      /\ ~Occurs("size", <<>>) /\ ~Occurs("data", <<>>)
      /\ Occurs("size", <<"size">>) /\ ~Occurs("data", <<"size">>)
      /\ ~Occurs("data", <<"cached">>) /\ ~Occurs("data", <<"offset">>)
      /\ ~Occurs("data", <<"path">>) /\ Occurs("data", <<"data">>)
      BY <1>OccursList
    <2>BodyOccurs.
      ASSUME NEW p, Answer(p)
      PROVE  /\ Occurs("size", Body(p)) <=> HasSize(p)
             /\ Occurs("data", Body(p)) <=> HasData(p)
      <3> USE <2>BodyOccurs
      <3>1. CASE ~p.ok \/ p.op \in ShortOps
        <4>1. Body(p) = <<>>
          BY <3>1, Zenon DEF Body, ShortOps
        <4>2. ~HasSize(p) /\ ~HasData(p)
          BY <3>1, Zenon DEF HasSize, HasData, ShortOps, ReadOps, SizeOps
        <4> QED BY <4>1, <4>2, <2>OccursNames, Zenon
      <3>2. CASE p.ok /\ p.op \in ReadOps
        <4> DEFINE o == When(p.op = "READ_FILE_RANGE", <<"offset">>)
                   sc == <<"size", "cached">>
                   h == o \o sc
                   d == IF p.cached THEN <<"path">> ELSE <<"data">>
        <4>1. /\ o \in Lists /\ sc \in Lists /\ sc = <<"size">> \o <<"cached">> /\ h \in Lists /\ d \in Lists
              /\ Body(p) = h \o d
          <5>1. /\ o \in Lists /\ sc \in Lists /\ sc = <<"size">> \o <<"cached">> /\ h \in Lists /\ d \in Lists
                /\ ReadReply(p) = h \o d
            BY <3>2, <2>ReadParts, Zenon
          <5>2. Body(p) = ReadReply(p)
            BY <3>2, Zenon DEF Body, ReadOps
          <5> QED BY <5>1, <5>2, Zenon
        <4>2. Occurs("size", sc) /\ ~Occurs("data", sc)
          <5>1. /\ Occurs("size", <<"size">>) /\ <<"size">> \in Lists /\ <<"cached">> \in Lists
                /\ ~Occurs("data", <<"size">>) /\ ~Occurs("data", <<"cached">>)
            BY <2>OccursNames, <1>FieldNamed, <1>Single, Zenon
          <5> HIDE DEF sc
          <5>2. Occurs("size", <<"size">> \o <<"cached">>) /\ ~Occurs("data", <<"size">> \o <<"cached">>)
            BY <5>1, <1>OccursList, Zenon
          <5> QED BY <4>1, <5>2, Zenon
        <4>3. ~Occurs("data", o)
          <5>1. ~Occurs("data", <<"offset">>) /\ ~Occurs("data", <<>>)
            BY <2>OccursNames, Zenon
          <5> QED BY <5>1, Zenon DEF When
        <4>4. Occurs("data", d) <=> ~p.cached
          <5>1. ~Occurs("data", <<"path">>) /\ Occurs("data", <<"data">>)
            BY <2>OccursNames, Zenon
          <5> QED BY <5>1, Zenon
        <4> HIDE DEF o, sc, d
        <4>5. Occurs("size", h) /\ ~Occurs("data", h)
          <5>1. o \in Lists /\ sc \in Lists
            BY <4>1, Zenon
          <5>2. Occurs("size", o \o sc) /\ ~Occurs("data", o \o sc)
            <6> HIDE DEF h
            <6> QED BY <4>2, <4>3, <5>1, <1>OccursList, Zenon
          <5> QED BY <5>2, Zenon
        <4> HIDE DEF h
        <4>6. Occurs("size", h \o d) /\ (Occurs("data", h \o d) <=> ~p.cached)
          <5>1. h \in Lists /\ d \in Lists
            BY <4>1, Zenon
          <5>2. \A x : Occurs(x, h \o d) <=> (Occurs(x, h) \/ Occurs(x, d))
            BY <5>1, <1>OccursList, Zenon
          <5> QED BY <4>4, <4>5, <5>2, Zenon
        <4> QED BY <3>2, <4>1, <4>6, Zenon DEF HasSize, HasData
      <3>3. CASE p.ok /\ p.op \in SizeOps
        <4>1. Body(p) = <<"size">>
          BY <3>3, Zenon DEF Body, SizeOps
        <4>2. HasSize(p) /\ ~HasData(p)
          BY <3>3, Zenon DEF HasSize, HasData, ReadOps, SizeOps
        <4>3. Occurs("size", <<"size">>) /\ ~Occurs("data", <<"size">>)
          BY <2>OccursNames, Zenon
        <4> QED BY <4>1, <4>2, <4>3, Zenon
      <3>4. CASE /\ p.ok
                 /\ p.op \in {"GET_CAPACITY", "GET_FILE_LIST", "GET_AGENT_STATUS", "GET_PROXY_STATUS", "GET_BG_TASK_PRG",
                              "GET_REPAIR_STATS"}
        <4>1. ~HasSize(p) /\ ~HasData(p)
          BY <3>4, Zenon DEF HasSize, HasData, ReadOps, SizeOps
        <4>2. Without(FileEntry) /\ Without(TaskEntry) /\ Without(RECV_SYS_INFO)
              /\ Without(<<"usage", "capacity", "count", "limit">>) /\ Without(<<"count", "repair">>)
          BY <2>PlainNames, <2>WithoutBoth, Zenon
        <4>3. Without(AgentEntry)
          <5> DEFINE a == <<"alive", "addr", "host type">>
                     c == <<"containers">>
                     d == <<"ids", "types", "usages", "capacities">>
          <5>1. Without(a) /\ Without(d) /\ Without(c)
            BY <2>PlainNames, <2>WithoutBoth, Zenon
          <5>2. AgentEntry = ((a \o RECV_SYS_INFO) \o c) \o d
            BY Zenon DEF AgentEntry, AgentHead
          <5> HIDE DEF a, c, d
          <5>3. Without(a \o RECV_SYS_INFO)
            BY <4>2, <5>1, <2>WithoutBoth, Zenon
          <5>4. Without((a \o RECV_SYS_INFO) \o c)
            BY <5>1, <5>3, <2>WithoutBoth, Zenon
          <5>5. Without(((a \o RECV_SYS_INFO) \o c) \o d)
            BY <5>1, <5>4, <2>WithoutBoth, Zenon
          <5> QED BY <5>2, <5>5, Zenon
        <4>4. ASSUME NEW e, Without(e)
              PROVE  Without(ListReply(p.n, e))
          <5> DEFINE t == <<"total">>
                     b == IF p.n = 1 THEN e ELSE <<>>
          <5>1. Without(t) /\ Without(b)
            BY <4>4, <2>WithoutBoth, Zenon
          <5> HIDE DEF t, b
          <5>2. Without(t \o b)
            BY <5>1, <2>WithoutBoth, Zenon
          <5> QED BY <5>2, Zenon DEF ListReply, t, b
        <4>5. Body(p) \in {<<"usage", "capacity", "count", "limit">>, ListReply(p.n, FileEntry), ListReply(p.n, AgentEntry),
                           RECV_SYS_INFO, ListReply(p.n, TaskEntry), <<"count", "repair">>}
          BY <3>4, Zenon DEF Body
        <4>6. Without(Body(p))
          BY <4>2, <4>3, <4>4, <4>5, Zenon
        <4> QED BY <4>1, <4>6, Zenon DEF Without
      <3> QED BY <3>1, <3>2, <3>3, <3>4, <2>ReplyOps, Zenon
    \* The client reads the reply that was sent.
    <2>ReplyRead.
      ASSUME NEW p, Answer(p), NEW r, p.op = r.op, Bounded(p, r)
      PROVE  getReply(ReplyFrames(p), r) = [ret |-> "reply", ok |-> p.ok, size |-> IF HasSize(p) THEN p.size ELSE r.size,
                                            data |-> IF HasData(p) THEN p.data ELSE <<>>, rest |-> <<>>]
      <3> USE <2>ReplyRead
      <3> DEFINE v == ReplyValue(p)
                 t == <<"reply">>
                 full == t \o Body(p)
                 fs == ReplyFrames(p)
      <3>1. t \in Lists /\ Body(p) \in Lists /\ full \in Lists /\ fs = Parts(full, v, FALSE)
        BY <2>ReplyParts, Zenon
      <3>2. ExpectedFields(fs) = Body(p)
        BY <2>FieldsExpected, Zenon
      <3>3. fs[1].v.ok = p.ok
        BY <2>FirstPart, Zenon
      <3>4. v["size"] = p.size /\ v["data"] = p.data
        BY <2>ReplyValueOf, Zenon
      <3>5. Without(t)
        BY <2>WithoutBoth, Zenon
      <3> HIDE DEF v, t, fs
      <3>6. /\ Occurs("size", full) <=> HasSize(p)
            /\ Occurs("data", full) <=> HasData(p)
        <4>1. \A x : Occurs(x, full) <=> (Occurs(x, t) \/ Occurs(x, Body(p)))
          <5>1. t \in Lists /\ Body(p) \in Lists
            BY <3>1, Zenon
          <5>2. \A x : Occurs(x, t \o Body(p)) <=> (Occurs(x, t) \/ Occurs(x, Body(p)))
            <6> HIDE DEF full
            <6> QED BY <5>1, <1>OccursList, Zenon
          <5> QED BY <5>2, Zenon
        <4> HIDE DEF full
        <4> QED BY <3>5, <4>1, <2>BodyOccurs, Zenon DEF Without
      <3>7. <<"reply">> \o ExpectedFields(fs) = full
        BY <3>2, Zenon DEF t
      <3> HIDE DEF full
      <3>8. \A x, def : /\ Occurs(x, full) => Field(fs, full, x, def) = v[x]
                        /\ ~Occurs(x, full) => Field(fs, full, x, def) = def
        <4>1. ASSUME NEW x, NEW def
              PROVE  /\ Occurs(x, full) => Field(Parts(full, v, FALSE), full, x, def) = v[x]
                     /\ ~Occurs(x, full) => Field(Parts(full, v, FALSE), full, x, def) = def
          <5>1. full \in Lists
            BY <3>1, Zenon
          <5> QED BY <5>1, <1>FieldWhole, Zenon
        <4> QED BY <3>1, <4>1, Zenon
      <3> DEFINE sz == IF HasSize(p) THEN p.size ELSE r.size
                 dt == IF HasData(p) THEN p.data ELSE <<>>
      <3>9. Field(fs, full, "size", r.size) = sz
        <4>1. /\ Occurs("size", full) => Field(fs, full, "size", r.size) = v["size"]
              /\ ~Occurs("size", full) => Field(fs, full, "size", r.size) = r.size
          BY <3>8, Zenon
        <4> QED BY <3>4, <3>6, <4>1, Zenon
      <3>10. Field(fs, full, "data", <<>>) = dt
        <4> DEFINE def == <<>>
        <4> HIDE DEF def
        <4>1. /\ Occurs("data", full) => Field(fs, full, "data", def) = v["data"]
              /\ ~Occurs("data", full) => Field(fs, full, "data", def) = def
          BY <3>8, Zenon
        <4>2. Field(fs, full, "data", def) = IF HasData(p) THEN p.data ELSE def
          BY <3>4, <3>6, <4>1, Zenon
        <4> QED BY <4>2, Zenon DEF def
      <3> HIDE DEF sz, dt
      <3>11. ~(/\ r.op = "READ_FILE_RANGE" /\ ~r.cached
               /\ \E i \in DOMAIN full : full[i] = "data"
               /\ sz > r.size)
        <4> SUFFICES ASSUME r.op = "READ_FILE_RANGE", \E i \in DOMAIN full : full[i] = "data"
                     PROVE  ~(sz > r.size)
          BY Zenon
        <4>1. DOMAIN full = 1 .. Len(full)
          BY <3>1 DEF Lists
        <4>2. Occurs("data", full)
          BY <4>1, Zenon DEF Occurs
        <4>3. p.ok /\ sz = p.size
          BY <3>6, <4>2, Zenon DEF HasData, HasSize, sz
        <4>4. p.size \in Nat /\ r.size \in Nat /\ p.size <= r.size
          BY <4>3, Zenon DEF Bounded
        <4> QED BY <4>3, <4>4
      <3>12. fs \in Seq(FrameSet(v)) /\ Len(fs) = Len(full)
        BY <3>1, <1>PartsType, Zenon
      <3>13. ~(Len(fs) < Len(full)) /\ Len(full) \in Nat
        <4>1. full \in Lists
          BY <3>1, Zenon
        <4>2. Len(full) \in Nat
          BY <4>1 DEF Lists
        <4>3. Len(fs) = Len(full)
          BY <3>12, Zenon
        <4> QED BY <4>2, <4>3
      <3>14. SubSeq(fs, Len(full) + 1, Len(fs)) = <<>>
        BY <3>12, <3>13, <1>SeqNoRest
      <3>15. getReply(fs, r) = [ret |-> "reply", ok |-> p.ok, size |-> sz, data |-> dt, rest |-> <<>>]
        <4> DEFINE short == /\ r.op = "READ_FILE_RANGE" /\ ~r.cached
                            /\ \E i \in DOMAIN full : full[i] = "data"
                            /\ sz > r.size
        <4>1. getReply(fs, r) = [ret |-> IF short \/ Len(fs) < Len(full) THEN "-1" ELSE "reply",
                                 ok |-> fs[1].v.ok, size |-> sz, data |-> Field(fs, full, "data", <<>>),
                                 rest |-> SubSeq(fs, Len(full) + (IF short THEN 0 ELSE 1), Len(fs))]
          BY <3>7, <3>9, Zenon DEF getReply
        <4>2. ~short
          BY <3>11, Zenon
        <4> HIDE DEF short
        <4>3. (IF short \/ Len(fs) < Len(full) THEN "-1" ELSE "reply") = "reply" /\ (IF short THEN 0 ELSE 1) = 1
          BY <3>13, <4>2, Zenon
        <4> QED BY <3>3, <3>10, <3>14, <4>1, <4>3, Zenon
      <3> QED BY <3>15, Zenon DEF fs, sz, dt
    <2>ReplySent.
      ASSUME NEW p, Answer(p)
      PROVE  Message(ReplyFrames(p)) = [whole |-> TRUE, parts |-> ReplyFrames(p), over |-> FALSE]
      <3> USE <2>ReplySent
      <3> DEFINE s == <<"reply">> \o Body(p)
      <3>1. s \in Lists /\ s # <<>> /\ ReplyFrames(p) = Parts(s, ReplyValue(p), FALSE)
        BY <2>ReplyParts, Zenon
      <3> HIDE DEF s
      <3> QED BY <3>1, <1>PartsSent, Zenon
    <2> QED BY <2>ReplySent, <2>ReplyRead, Zenon DEF ReplyArrives
  <1> QED BY <1>Requests, <1>Replies, Zenon

(***************************************************************************)
(* The inductive invariant                                                 *)
(***************************************************************************)

\* Calls that clients make, and messages on their way to a worker.
CallRecords == [id : Clients \X (1 .. MaxRequests), req : Library]
Sent == [id : Clients \X (1 .. MaxRequests), conn : Nat, parts : {RequestFrames(r) : r \in Library}]

\* The elements of a queue, each in it once.
Items(s) == {s[i] : i \in 1 .. Len(s)}
NoDup(s) == \A i, j \in 1 .. Len(s) : s[i] = s[j] => i = j

\* The messages at the dispatcher, in the queue of a worker, and in its hands; all
\* those whose answer is still to be sent.
Front == Items(front)
Queue(w) == Items(inq[w])
Busy(w) == worker[w].pc \in {"size", "call", "reply"}
Work(w) == IF Busy(w) THEN {worker[w].m} ELSE {}
Held(m) == m \in Front \/ \E w \in Workers : m \in Queue(w) \/ m \in Work(w)

\* The types of the variables, as far as the argument needs them.
Shape ==
    /\ scenario \in DOMAIN Scenarios
    /\ call = [c \in Clients |-> call[c]]
    /\ result = [c \in Clients |-> result[c]]
    /\ sock = [c \in Clients |-> sock[c]]
    /\ conn \in [Clients -> Nat]
    /\ front \in Seq(Sent)
    /\ inq \in [Workers -> Seq(Sent)]
    /\ worker = [w \in Workers |-> worker[w]]
    /\ replies = [c \in Clients |-> replies[c]]

\* A message is in one place only: the dispatcher hands it to one worker, and a
\* worker answers it before it takes the next.
Places ==
    /\ NoDup(front) /\ \A w \in Workers : NoDup(inq[w])
    /\ \A w \in Workers : Front \cap Queue(w) = {} /\ Front \cap Work(w) = {}
    /\ \A w, x \in Workers : Queue(w) \cap Work(x) = {}
    /\ \A w, x \in Workers : w # x => Queue(w) \cap Queue(x) = {} /\ Work(w) \cap Work(x) = {}

\* No two calls have the same id.
IssuedInv ==
    /\ issued \subseteq CallRecords
    /\ \A e, f \in issued : e.id = f.id => e = f

\* Every message on its way belongs to a call, was sent over a connection the
\* client has or had, and is the only one of that call.
HeldInv ==
    /\ \A m : Held(m) => /\ m \in Sent /\ m.conn <= conn[m.id[1]]
                         /\ \E e \in issued : e.id = m.id /\ m.parts = RequestFrames(e.req)
    /\ \A m, n : Held(m) /\ Held(n) /\ m.id = n.id => m = n

\* Reply p tells what the log done says of call e: a success is reported only for
\* an execution that succeeded, with its size and data; a failed status request
\* is in the log too.
Told(p, e, done) ==
    (p.ok \/ p.op \in StatusOps \cup QueryOps) =>
       \E l \in done : /\ l.id = e.id /\ l.ok = p.ok
                       /\ p.ok /\ ~p.cached => /\ l.size = (IF HasSize(p) THEN p.size ELSE e.req.size)
                                               /\ l.data = (IF HasData(p) THEN p.data ELSE <<>>)

\* Reply p fits call e and is true.
Answers(p, e, done) ==
    Answer(p) /\ p.op = e.req.op /\ p.cached = e.req.cached /\ Bounded(p, e.req) /\ Told(p, e, done)

\* A worker before it calls the proxy, and the record it keeps meanwhile.
Calling(w) == worker[w].pc \in {"size", "call"}
Serving(pc, m, req, rest, size) == [pc |-> pc, m |-> m, req |-> req, rest |-> rest, size |-> size]
Full(st) == st = Serving(st.pc, st.m, st.req, st.rest, st.size)
Sized(st, n) == [st EXCEPT !.pc = "call", !.size = n]

\* A worker has read the request of the call whose message it holds.
CallingInv(w) ==
    /\ Full(worker[w])
    /\ \E e \in issued : /\ e.id = worker[w].m.id /\ Same(worker[w].req, e.req)
                         /\ worker[w].pc = "size" => e.req.op = "READ_FILE" /\ e.req.cached
                         /\ ~e.req.cached => worker[w].size = e.req.size

\* What holds of a worker: it exits only when the server stops, it has read its
\* message to the end, and its reply is a true answer to its call.
WorkerOK(w) ==
    /\ worker[w].pc \in {"recv", "size", "call", "reply", "exited"}
    /\ worker[w].pc = "exited" => ~running
    /\ Busy(w) => worker[w].rest = <<>>
    /\ Calling(w) => CallingInv(w)
    /\ worker[w].pc = "reply" => \E e \in issued : e.id = worker[w].m.id /\ Answers(worker[w].p, e, log)

WorkerInv == \A w \in Workers : WorkerOK(w)

\* A message that was not given to the proxy yet has no entry in the log: no
\* request is executed twice.
Undone(m) == \A l \in log : l.id # m.id
Waits(m) == m \in Front \/ \E w \in Workers : m \in Queue(w) \/ (Calling(w) /\ m = worker[w].m)
LogInv ==
    /\ \A m : Waits(m) => Undone(m)
    /\ \A l \in log : \E e \in issued : e.id = l.id

\* A message whose answer would still reach client c over its connection.
Live(c, m) == Held(m) /\ m.id[1] = c /\ m.conn = conn[c]
AnsweredBy(fs, e, done) == \E p : fs = <<ReplyFrames(p)>> /\ Answers(p, e, done)

\* What holds of a client: at most one request of its connection is on its way,
\* that of the call it waits for, and the reply that lies ready is a true answer
\* to that call.  A client that gave up has to connect again before the next call.
ClientOK(c) ==
    /\ sock[c] \in {"ready", "sent", "late"}
    /\ sock[c] # "sent" => call[c] = NoCall
    /\ sock[c] = "ready" => replies[c] = <<>> /\ \A m : ~Live(c, m)
    /\ sock[c] = "sent" => /\ call[c] \in issued /\ call[c].id[1] = c
                           /\ \A m : Live(c, m) => m.id = call[c].id
                           /\ replies[c] # <<>> => AnsweredBy(replies[c], call[c], log) /\ \A m : ~Live(c, m)

ClientInv == \A c \in Clients : ClientOK(c)

\* The inductive invariant.
Inv == Shape /\ Places /\ IssuedInv /\ HeldInv /\ WorkerInv /\ LogInv /\ ClientInv

(***************************************************************************)
(* What steps leave alone                                                  *)
(***************************************************************************)

\* Queues: what Append and Tail do to their elements.
LEMMA ItemsAppend ==
  ASSUME NEW S, NEW s \in Seq(S), NEW m \in S
  PROVE  /\ Append(s, m) \in Seq(S)
         /\ Items(Append(s, m)) = Items(s) \cup {m}
         /\ NoDup(s) /\ m \notin Items(s) => NoDup(Append(s, m))
  <1> DEFINE t == Append(s, m)
  <1>1. t \in Seq(S) /\ Len(t) = Len(s) + 1 /\ Len(s) \in Nat /\ t[Len(s) + 1] = m /\ \A i \in 1 .. Len(s) : t[i] = s[i]
    OBVIOUS
  <1> HIDE DEF t
  <1>2. 1 .. Len(t) = (1 .. Len(s)) \cup {Len(s) + 1}
    BY <1>1
  <1>3. Items(t) = Items(s) \cup {m}
    BY <1>1, <1>2 DEF Items
  <1>4. ASSUME NoDup(s), m \notin Items(s)
        PROVE  NoDup(t)
    <2> SUFFICES ASSUME NEW i \in 1 .. Len(t), NEW j \in 1 .. Len(t), t[i] = t[j]
                 PROVE  i = j
      BY Zenon DEF NoDup
    <2>1. CASE i \in 1 .. Len(s) /\ j \in 1 .. Len(s)
      BY <1>1, <1>4, <2>1, Zenon DEF NoDup
    <2>2. \A k \in 1 .. Len(s) : t[k] # m
      BY <1>1, <1>4, Zenon DEF Items
    <2> QED BY <1>1, <1>2, <2>1, <2>2, Zenon
  <1> QED BY <1>1, <1>3, <1>4, Zenon DEF t

\* Taking the first message from a queue takes it from the elements.
LEMMA ItemsTail ==
  ASSUME NEW S, NEW s \in Seq(S), s # <<>>
  PROVE  /\ Tail(s) \in Seq(S) /\ Head(s) \in S /\ Head(s) \in Items(s)
         /\ NoDup(s) => Items(Tail(s)) = Items(s) \ {Head(s)} /\ NoDup(Tail(s))
         /\ Items(Tail(s)) \subseteq Items(s)
  <1> DEFINE t == Tail(s)
  <1>1. /\ t \in Seq(S) /\ Len(t) = Len(s) - 1 /\ Len(s) \in Nat /\ Len(s) >= 1
        /\ Head(s) = s[1] /\ Head(s) \in S
        /\ \A i \in 1 .. Len(t) : t[i] = s[i + 1]
    OBVIOUS
  <1> HIDE DEF t
  <1>2. Head(s) \in Items(s)
    BY <1>1 DEF Items
  <1>3. \A i \in 1 .. Len(t) : i + 1 \in 1 .. Len(s) /\ i + 1 # 1
    BY <1>1
  <1>4. \A i \in 1 .. Len(s) : i = 1 \/ \E j \in 1 .. Len(t) : i = j + 1
    <2> SUFFICES ASSUME NEW i \in 1 .. Len(s), i # 1
                 PROVE  \E j \in 1 .. Len(t) : i = j + 1
      BY Zenon
    <2>1. i - 1 \in 1 .. Len(t) /\ i = (i - 1) + 1
      BY <1>1
    <2> QED BY <2>1, Zenon
  <1>5. Items(t) \subseteq Items(s)
    BY <1>1, <1>3 DEF Items
  <1>6. ASSUME NoDup(s)
        PROVE  Items(t) = Items(s) \ {Head(s)} /\ NoDup(t)
    <2>1. 1 \in 1 .. Len(s)
      BY <1>1
    <2>2. \A i \in 1 .. Len(t) : t[i] # Head(s)
      BY <1>1, <1>3, <1>6, <2>1, Zenon DEF NoDup
    <2>3. Items(t) \subseteq Items(s) \ {Head(s)}
      BY <1>5, <2>2, Zenon DEF Items
    <2>4. ASSUME NEW x \in Items(s) \ {Head(s)}
          PROVE  x \in Items(t)
      <3>1. PICK i \in 1 .. Len(s) : x = s[i]
        BY <2>4, Zenon DEF Items
      <3>2. i # 1
        BY <1>1, <2>4, <3>1, Zenon
      <3>3. PICK j \in 1 .. Len(t) : i = j + 1
        BY <1>4, <3>2, Zenon
      <3>4. x = t[j]
        BY <1>1, <3>1, <3>3, Zenon
      <3> QED BY <3>4, Zenon DEF Items
    <2>5. NoDup(t)
      <3> SUFFICES ASSUME NEW i \in 1 .. Len(t), NEW j \in 1 .. Len(t), t[i] = t[j]
                   PROVE  i = j
        BY Zenon DEF NoDup
      <3>1. i + 1 = j + 1
        BY <1>1, <1>3, <1>6, ZenonT(60) DEF NoDup
      <3> QED BY <3>1
    <2> QED BY <2>3, <2>4, <2>5, Zenon
  <1> QED BY <1>1, <1>2, <1>5, <1>6, Zenon DEF t

\* The empty queue.
LEMMA ItemsNone == Items(<<>>) = {} /\ NoDup(<<>>)
  BY DEF Items, NoDup

\* A true answer stays true when the log grows.
LEMMA AnswersKept ==
  ASSUME NEW p, NEW e, NEW done, Answers(p, e, done), NEW more, done \subseteq more
  PROVE  Answers(p, e, more)
  <1>1. Told(p, e, done)
    BY Zenon DEF Answers
  <1>2. Told(p, e, more)
    BY <1>1, Zenon DEF Told
  <1> QED BY <1>2, Zenon DEF Answers

\* So does a reply that lies ready.
LEMMA AnsweredKept ==
  ASSUME NEW fs, NEW e, NEW done, AnsweredBy(fs, e, done), NEW more, done \subseteq more
  PROVE  AnsweredBy(fs, e, more)
  <1>1. PICK p : fs = <<ReplyFrames(p)>> /\ Answers(p, e, done)
    BY Zenon DEF AnsweredBy
  <1>2. Answers(p, e, more)
    BY <1>1, AnswersKept, Zenon
  <1> QED BY <1>1, <1>2, Zenon DEF AnsweredBy

\* A worker that does not move keeps its invariant while calls and log grow.
LEMMA WorkerKept ==
  ASSUME NEW w \in Workers, WorkerOK(w), worker'[w] = worker[w],
         issued \subseteq issued', log \subseteq log', running' => running
  PROVE  WorkerOK(w)'
  <1>1. Busy(w)' = Busy(w) /\ Calling(w)' = Calling(w)
    BY Zenon DEF Busy, Calling
  <1>2. Calling(w)' => CallingInv(w)'
    BY <1>1, Zenon DEF WorkerOK, CallingInv
  <1>3. worker'[w].pc = "reply" => \E e \in issued' : e.id = worker'[w].m.id /\ Answers(worker'[w].p, e, log')
    <2> SUFFICES ASSUME worker[w].pc = "reply"
                 PROVE  \E e \in issued' : e.id = worker[w].m.id /\ Answers(worker[w].p, e, log')
      BY Zenon
    <2>1. PICK e \in issued : e.id = worker[w].m.id /\ Answers(worker[w].p, e, log)
      BY Zenon DEF WorkerOK
    <2>2. Answers(worker[w].p, e, log')
      BY <2>1, AnswersKept, Zenon
    <2> QED BY <2>1, <2>2, Zenon
  <1> QED BY <1>1, <1>2, <1>3, Zenon DEF WorkerOK

\* The invariant of messages is kept when none is added.
LEMMA HeldKept ==
  ASSUME HeldInv, \A m : Held(m)' => Held(m), issued \subseteq issued',
         conn \in [Clients -> Nat], conn' \in [Clients -> Nat], \A c \in Clients : conn[c] <= conn'[c]
  PROVE  HeldInv'
  <1>1. ASSUME NEW m, Held(m)'
        PROVE  /\ m \in Sent /\ m.conn <= conn'[m.id[1]]
               /\ \E e \in issued' : e.id = m.id /\ m.parts = RequestFrames(e.req)
    <2>1. /\ m \in Sent /\ m.conn <= conn[m.id[1]]
          /\ \E e \in issued : e.id = m.id /\ m.parts = RequestFrames(e.req)
      BY <1>1, Zenon DEF HeldInv
    <2>2. m.id[1] \in Clients /\ m.conn \in Nat
      BY <2>1, Zenon DEF Sent
    <2>3. m.conn <= conn'[m.id[1]]
      BY <2>1, <2>2
    <2> QED BY <2>1, <2>3, Zenon
  <1>2. \A m, n : Held(m)' /\ Held(n)' /\ m.id = n.id => m = n
    BY Zenon DEF HeldInv
  <1> QED BY <1>1, <1>2, Zenon DEF HeldInv

\* A client that does not move keeps its invariant when no message of its own is
\* added.
LEMMA ClientKept ==
  ASSUME NEW c \in Clients, ClientOK(c), \A m : Held(m)' /\ m.id[1] = c => Held(m), issued \subseteq issued', log \subseteq log',
         sock'[c] = sock[c], call'[c] = call[c], conn'[c] = conn[c], replies'[c] = replies[c]
  PROVE  ClientOK(c)'
  <1>1. \A m : Live(c, m)' => Live(c, m)
    BY Zenon DEF Live
  <1>2. sock'[c] \in {"ready", "sent", "late"} /\ (sock'[c] # "sent" => call'[c] = NoCall)
        /\ (sock'[c] = "ready" => replies'[c] = <<>> /\ \A m : ~Live(c, m)')
    BY <1>1, Zenon DEF ClientOK
  <1>3. ASSUME sock[c] = "sent"
        PROVE  /\ call[c] \in issued' /\ call[c].id[1] = c
               /\ \A m : Live(c, m)' => m.id = call[c].id
               /\ replies[c] # <<>> => AnsweredBy(replies[c], call[c], log') /\ \A m : ~Live(c, m)'
    BY <1>1, <1>3, AnsweredKept, Zenon DEF ClientOK
  <1> QED BY <1>2, <1>3, Zenon DEF ClientOK

\* A worker that does not move holds the same message.
LEMMA SameWork ==
  ASSUME NEW w, worker'[w] = worker[w]
  PROVE  Work(w)' = Work(w) /\ Busy(w)' = Busy(w) /\ Calling(w)' = Calling(w)
  BY Zenon DEF Work, Busy, Calling

\* Steps that leave the queues alone and keep the messages in the workers' hands.
LEMMA PlacesStay ==
  ASSUME Places, front' = front, inq' = inq, \A w \in Workers : Work(w)' = Work(w)
  PROVE  /\ Places' /\ \A x : Held(x)' <=> Held(x)
         /\ Front' = Front /\ \A w \in Workers : Queue(w)' = Queue(w)
  <1>1. Front' = Front /\ \A w \in Workers : Queue(w)' = Queue(w)
    BY Zenon DEF Front, Queue
  <1>2. Places'
    BY <1>1, Zenon DEF Places
  <1>3. \A x : Held(x)' <=> Held(x)
    BY <1>1, Zenon DEF Held
  <1> QED BY <1>1, <1>2, <1>3, Zenon

\* The invariant holds at first: no message is on its way.
LEMMA InitInv == Init => Inv
  <1> SUFFICES ASSUME Init PROVE Inv
    BY Zenon
  <1>1. Front = {} /\ NoDup(front) /\ front \in Seq(Sent)
    <2>1. front = <<>> /\ <<>> \in Seq(Sent)
      BY DEF Init
    <2> QED BY <2>1, ItemsNone, Zenon DEF Front
  <1>2. \A w \in Workers : Queue(w) = {} /\ NoDup(inq[w])
    <2>1. \A w \in Workers : inq[w] = <<>>
      BY Zenon DEF Init
    <2> QED BY <2>1, ItemsNone, Zenon DEF Queue
  <1>3. \A w \in Workers : worker[w].pc = "recv" /\ ~Busy(w) /\ ~Calling(w) /\ Work(w) = {}
    <2>1. \A w \in Workers : worker[w].pc = "recv"
      BY Zenon DEF Init, Waiting
    <2>2. \A w \in Workers : ~Busy(w) /\ ~Calling(w)
      BY <2>1, Zenon DEF Busy, Calling
    <2> QED BY <2>1, <2>2, Zenon DEF Work
  <1>4. \A m : ~Held(m) /\ ~Waits(m)
    BY <1>1, <1>2, <1>3, Zenon DEF Held, Waits
  <1>5. Shape
    <2>1. inq \in [Workers -> Seq(Sent)]
      BY DEF Init
    <2>2. conn \in [Clients -> Nat]
      BY Zenon DEF Init
    <2>3. /\ call = [c \in Clients |-> call[c]]
          /\ result = [c \in Clients |-> result[c]]
          /\ sock = [c \in Clients |-> sock[c]]
          /\ worker = [w \in Workers |-> worker[w]]
          /\ replies = [c \in Clients |-> replies[c]]
      BY Zenon DEF Init
    <2>4. scenario \in DOMAIN Scenarios
      BY Zenon DEF Init
    <2> QED BY <1>1, <2>1, <2>2, <2>3, <2>4, Zenon DEF Shape
  <1>6. Places
    BY <1>1, <1>2, <1>3, Zenon DEF Places
  <1>7. IssuedInv
    <2>1. issued = {}
      BY Zenon DEF Init
    <2> QED BY <2>1, Zenon DEF IssuedInv
  <1>8. HeldInv
    BY <1>4, Zenon DEF HeldInv
  <1>9. WorkerInv
    <2> SUFFICES ASSUME NEW w \in Workers PROVE WorkerOK(w)
      BY Zenon DEF WorkerInv
    <2>1. worker[w].pc = "recv" /\ ~Busy(w) /\ ~Calling(w)
      BY <1>3, Zenon
    <2> QED BY <2>1, Zenon DEF WorkerOK
  <1>10. LogInv
    <2>1. log = {}
      BY Zenon DEF Init
    <2> QED BY <1>4, <2>1, Zenon DEF LogInv
  <1>11. ClientInv
    <2> SUFFICES ASSUME NEW c \in Clients PROVE ClientOK(c)
      BY Zenon DEF ClientInv
    <2>1. sock[c] = "ready" /\ call[c] = NoCall /\ replies[c] = <<>>
      BY Zenon DEF Init
    <2>2. \A m : ~Live(c, m)
      BY <1>4, Zenon DEF Live
    <2> QED BY <2>1, <2>2, Zenon DEF ClientOK
  <1> QED BY <1>5, <1>6, <1>7, <1>8, <1>9, <1>10, <1>11, Zenon DEF Inv

\* Steps of the server keep the invariants of calls, messages and clients.
LEMMA ClientsKept ==
  ASSUME Inv, UNCHANGED <<issued, call, sock, conn, replies>>, log \subseteq log', \A m : Held(m)' => Held(m)
  PROVE  IssuedInv' /\ HeldInv' /\ ClientInv'
  <1>1. IssuedInv'
    BY Zenon DEF Inv, IssuedInv
  <1>2. HeldInv'
    <2>1. HeldInv /\ conn \in [Clients -> Nat]
      BY Zenon DEF Inv, Shape
    <2>2. issued \subseteq issued' /\ conn' \in [Clients -> Nat]
      BY <2>1, Zenon
    <2>3. \A c \in Clients : conn[c] <= conn'[c]
      BY <2>1
    <2> QED BY <2>1, <2>2, <2>3, HeldKept, Zenon
  <1>3. ASSUME NEW c \in Clients
        PROVE  ClientOK(c)'
    <2>1. ClientOK(c)
      BY Zenon DEF Inv, ClientInv
    <2>2. issued \subseteq issued' /\ \A m : Held(m)' /\ m.id[1] = c => Held(m)
      BY Zenon
    <2> QED BY <2>1, <2>2, ClientKept, Zenon
  <1> QED BY <1>1, <1>2, <1>3, Zenon DEF ClientInv

\* If one worker moves the others keep their invariant.
LEMMA WorkersKept ==
  ASSUME Inv, NEW w \in Workers, NEW st, worker' = [worker EXCEPT ![w] = st],
         issued' = issued, log \subseteq log', running' => running, WorkerOK(w)'
  PROVE  WorkerInv'
  <1> SUFFICES ASSUME NEW x \in Workers PROVE WorkerOK(x)'
    BY Zenon DEF WorkerInv
  <1>1. CASE x = w
    BY <1>1, ZenonT(60) DEF WorkerOK, Busy, Calling, CallingInv
  <1>2. CASE x # w
    <2>1. worker'[x] = worker[x] /\ WorkerOK(x) /\ issued \subseteq issued'
      BY <1>2, Zenon DEF Inv, Shape, WorkerInv
    <2> QED BY <2>1, WorkerKept, Zenon
  <1> QED BY <1>1, <1>2, Zenon

\* If no worker moves all keep their invariant.
LEMMA AllWorkersKept ==
  ASSUME Inv, worker' = worker, issued \subseteq issued', log \subseteq log', running' => running
  PROVE  WorkerInv'
  <1> SUFFICES ASSUME NEW x \in Workers PROVE WorkerOK(x)'
    BY Zenon DEF WorkerInv
  <1>1. worker'[x] = worker[x] /\ WorkerOK(x)
    BY Zenon DEF Inv, WorkerInv
  <1> QED BY <1>1, WorkerKept, Zenon

\* Steps of the server keep the types.
LEMMA ServerShape ==
  ASSUME Inv, UNCHANGED <<scenario, call, result, sock, conn, replies>>,
         front' \in Seq(Sent), inq' \in [Workers -> Seq(Sent)], worker' = [w \in Workers |-> worker'[w]]
  PROVE  Shape'
  BY Zenon DEF Inv, Shape

\* The state of one worker changes and that of the others stays.
LEMMA WorkerSet ==
  ASSUME Shape, NEW w \in Workers, NEW st, worker' = [worker EXCEPT ![w] = st]
  PROVE  /\ worker' = [x \in Workers |-> worker'[x]] /\ worker'[w] = st
         /\ \A x \in Workers : x # w => worker'[x] = worker[x]
  <1>1. worker = [x \in Workers |-> worker[x]]
    BY Zenon DEF Shape
  <1> QED BY <1>1, Zenon

\* The log's invariant is kept by steps that execute nothing.
LEMMA LogKept ==
  ASSUME Inv, log' = log, issued \subseteq issued', \A m : Waits(m)' => Waits(m)
  PROVE  LogInv'
  BY Zenon DEF Inv, LogInv, Undone

\* A worker that turns to a true reply for its call keeps its invariant.
LEMMA ReplyGiven ==
  ASSUME Inv, NEW w \in Workers, Calling(w), NEW st, worker' = [worker EXCEPT ![w] = st],
         st.pc = "reply", st.m = worker[w].m, st.rest = worker[w].rest,
         NEW e \in issued', e.id = worker[w].m.id, Answers(st.p, e, log')
  PROVE  /\ WorkerOK(w)' /\ Work(w)' = Work(w) /\ ~Calling(w)' /\ Busy(w) /\ worker'[w] = st
         /\ worker' = [x \in Workers |-> worker'[x]]
         /\ \A x \in Workers : x # w => worker'[x] = worker[x]
  <1>1. /\ worker' = [x \in Workers |-> worker'[x]] /\ worker'[w] = st
        /\ \A x \in Workers : x # w => worker'[x] = worker[x]
    <2>1. Shape
      BY Zenon DEF Inv
    <2> QED BY <2>1, WorkerSet, Zenon
  <1>2. Busy(w) /\ Busy(w)' /\ ~Calling(w)'
    BY <1>1, Zenon DEF Busy, Calling
  <1>3. Work(w)' = Work(w)
    BY <1>1, <1>2, Zenon DEF Work
  <1>4. worker'[w].rest = <<>>
    BY <1>1, <1>2, Zenon DEF Inv, WorkerInv, WorkerOK
  <1>5. worker'[w].pc \in {"recv", "size", "call", "reply", "exited"} /\ worker'[w].pc # "exited"
    BY <1>1, Zenon
  <1>6. \E f \in issued' : f.id = worker'[w].m.id /\ Answers(worker'[w].p, f, log')
    BY <1>1, Zenon
  <1>7. WorkerOK(w)'
    BY <1>2, <1>4, <1>5, <1>6, Zenon DEF WorkerOK
  <1> QED BY <1>1, <1>2, <1>3, <1>7, Zenon

\* The requests that clients make are those of the library.
LEMMA RequestsKnown ==
  ASSUME Inv, NEW r \in Scenarios[scenario].requests
  PROVE  r \in Library
  <1>1. scenario \in DOMAIN Scenarios
    BY Zenon DEF Inv, Shape
  <1> QED BY <1>1, GatewayAssumption, Zenon

\* A call is not the absence of a call.
LEMMA RealCall ==
  ASSUME NEW e \in CallRecords
  PROVE  e # NoCall
  <1>1. e.id \in Clients \X (1 .. MaxRequests)
    BY Zenon DEF CallRecords
  <1>2. PICK a \in Clients, n \in 1 .. MaxRequests : e.id = <<a, n>>
    BY <1>1
  <1>3. Len(<<a, n>>) = 2 /\ Len(<<>>) = 0
    BY Zenon
  <1>4. e.id # <<>>
    BY <1>2, <1>3
  <1>5. NoCall.id = <<>>
    BY Zenon DEF NoCall
  <1> QED BY <1>4, <1>5, Zenon

(***************************************************************************)
(* Every step keeps the invariant and is a step of RemoteCalls             *)
(***************************************************************************)

\* The call that a client issues, and its message.
NewCall(c, r) == [id |-> NewId(c), req |-> r]
NewSent(c, r) == [id |-> NewId(c), conn |-> conn[c], parts |-> RequestFrames(r)]

\* send_request up to the wait keeps the invariant, and issues a call in the
\* abstract specification.
LEMMA SendKeeps ==
  \A c \in Clients : \A r \in Scenarios[scenario].requests : Inv /\ Send(c, r) => Inv' /\ Calls!Issue(c)
  \* The id of a new call is unused.
  <1>FreshId.
    ASSUME NEW c \in Clients, \E id \in Ids(c) : Fresh(id), NEW r \in Library
    PROVE  /\ NewCall(c, r) \in CallRecords /\ NewCall(c, r).id = NewId(c) /\ NewCall(c, r).req = r
           /\ NewId(c) \in Ids(c) /\ NewId(c) \in Clients \X (1 .. MaxRequests) /\ NewId(c)[1] = c
           /\ \A f \in issued : f.id # NewId(c)
    <2> USE <1>FreshId
    <2>1. NewId(c) \in Ids(c) /\ Fresh(NewId(c))
      BY Zenon DEF NewId
    <2>2. NewId(c) \in Clients \X (1 .. MaxRequests) /\ NewId(c)[1] = c
      BY <2>1 DEF Ids
    <2>3. NewCall(c, r) \in CallRecords /\ NewCall(c, r).id = NewId(c) /\ NewCall(c, r).req = r
      BY <2>2, Zenon DEF NewCall, CallRecords
    <2> QED BY <2>1, <2>2, <2>3, Zenon DEF Fresh
  \* What Send does, given that the socket takes the request as one message.
  <1>SendStep.
    ASSUME Inv, NEW c \in Clients, NEW r \in Library, Send(c, r)
    PROVE  /\ sock[c] = "ready" /\ (\E id \in Ids(c) : Fresh(id))
           /\ issued' = issued \cup {NewCall(c, r)}
           /\ call' = [call EXCEPT ![c] = NewCall(c, r)]
           /\ sock' = [sock EXCEPT ![c] = "sent"]
           /\ front' = Append(front, NewSent(c, r))
           /\ UNCHANGED <<result, conn, replies, store, log, inq, worker, running, scenario>>
    <2> USE <1>SendStep
    <2> DEFINE m == Message(RequestFrames(r))
               e == [id |-> NewId(c), req |-> r]
    <2>1. m = [whole |-> TRUE, parts |-> RequestFrames(r), over |-> FALSE]
      BY WireFaithful, Zenon DEF RequestArrives
    <2>2. m.whole = TRUE /\ m.over = FALSE /\ m.parts = RequestFrames(r)
      BY <2>1
    <2>3. e = NewCall(c, r)
      BY Zenon DEF NewCall
    <2> HIDE DEF m, e
    <2>4. /\ sock[c] = "ready" /\ (\E id \in Ids(c) : Fresh(id))
          /\ issued' = issued \cup {e}
          /\ call' = [call EXCEPT ![c] = IF m.whole /\ ~m.over THEN e ELSE NoCall]
          /\ sock' = [sock EXCEPT ![c] = IF m.whole /\ ~m.over THEN "sent" ELSE "broken"]
          /\ front' = IF m.whole THEN Append(front, [id |-> e.id, conn |-> conn[c], parts |-> m.parts]) ELSE front
          /\ UNCHANGED <<result, conn, replies, faults, serverVars>>
      BY Zenon DEF Send, m, e
    <2>5. (IF m.whole /\ ~m.over THEN e ELSE NoCall) = e /\ (IF m.whole /\ ~m.over THEN "sent" ELSE "broken") = "sent"
      BY <2>2, Zenon
    <2>6. front' = Append(front, [id |-> e.id, conn |-> conn[c], parts |-> m.parts])
      BY <2>2, <2>4, Zenon
    <2>7. front' = Append(front, NewSent(c, r))
      <3>1. e.id = NewId(c)
        BY Zenon DEF e
      <3> QED BY <2>2, <2>6, <3>1, Zenon DEF NewSent
    <2>8. UNCHANGED <<result, conn, replies, store, log, inq, worker, running, scenario>>
      BY <2>4, Zenon DEF serverVars
    <2> QED BY <2>3, <2>4, <2>5, <2>7, <2>8, Zenon
  \* The ids of calls stay unique.
  <1>SendIssued.
    ASSUME IssuedInv, NEW e \in CallRecords, \A f \in issued : f.id # e.id, issued' = issued \cup {e}
    PROVE  IssuedInv'
    BY <1>SendIssued, Zenon DEF IssuedInv
  \* The new message is at the dispatcher and nowhere else.
  <1>PlacesSend.
    ASSUME Shape, Places, NEW m \in Sent, ~Held(m), front' = Append(front, m), inq' = inq, worker' = worker
    PROVE  /\ Places' /\ \A x : Held(x)' <=> Held(x) \/ x = m
           /\ front' \in Seq(Sent) /\ Front' = Front \cup {m} /\ \A w \in Workers : Queue(w)' = Queue(w)
    <2> USE <1>PlacesSend
    <2>1. /\ front' \in Seq(Sent) /\ Front' = Front \cup {m} /\ NoDup(front')
      <3>1. front \in Seq(Sent) /\ NoDup(front) /\ m \notin Items(front)
        BY Zenon DEF Shape, Places, Held, Front
      <3> QED BY <3>1, ItemsAppend, ZenonT(60) DEF Front
    <2>2. \A w \in Workers : Queue(w)' = Queue(w) /\ Work(w)' = Work(w)
      BY Zenon DEF Queue, Work, Busy
    <2>3. \A w \in Workers : m \notin Queue(w) /\ m \notin Work(w)
      BY Zenon DEF Held
    <2>4. \A w \in Workers : Front' \cap Queue(w)' = {} /\ Front' \cap Work(w)' = {}
      BY <2>1, <2>2, <2>3 DEF Places
    <2>5. Places'
      BY <2>1, <2>2, <2>4, Zenon DEF Places
    <2>6. \A x : Held(x)' <=> Held(x) \/ x = m
      BY <2>1, <2>2, Zenon DEF Held
    <2> QED BY <2>1, <2>2, <2>5, <2>6, Zenon
  \* The invariant is kept: no message of this client was on its way over its
  \* connection, since its socket was ready.
  <1>SendInv.
    ASSUME Inv, NEW c \in Clients, NEW r \in Library, Send(c, r)
    PROVE  Inv'
    <2> USE <1>SendInv
    <2> DEFINE e == NewCall(c, r)
               m == NewSent(c, r)
    <2>1. /\ sock[c] = "ready" /\ (\E id \in Ids(c) : Fresh(id))
          /\ issued' = issued \cup {e}
          /\ call' = [call EXCEPT ![c] = e]
          /\ sock' = [sock EXCEPT ![c] = "sent"]
          /\ front' = Append(front, m)
          /\ UNCHANGED <<result, conn, replies, store, log, inq, worker, running, scenario>>
      BY <1>SendStep, Zenon
    <2>2. Shape /\ Places /\ IssuedInv /\ HeldInv /\ LogInv /\ ClientInv
      BY Zenon DEF Inv
    <2>3. /\ e \in CallRecords /\ e.id = NewId(c) /\ e.req = r
          /\ e.id \in Clients \X (1 .. MaxRequests) /\ e.id[1] = c
          /\ \A f \in issued : f.id # e.id
      <3>1. \E id \in Ids(c) : Fresh(id)
        BY <2>1, Zenon
      <3>2. /\ NewCall(c, r) \in CallRecords /\ NewCall(c, r).id = NewId(c) /\ NewCall(c, r).req = r
            /\ NewId(c) \in Ids(c) /\ NewId(c) \in Clients \X (1 .. MaxRequests) /\ NewId(c)[1] = c
            /\ \A f \in issued : f.id # NewId(c)
        BY <3>1, <1>FreshId, Zenon
      <3> QED BY <3>2
    <2>4. e.req = r
      BY <2>3, Zenon
    <2>5. m.id = e.id /\ m.conn = conn[c] /\ m.parts = RequestFrames(r) /\ m = [id |-> e.id, conn |-> conn[c], parts |-> RequestFrames(r)]
      BY <2>3, Zenon DEF NewSent
    <2> HIDE DEF e, m
    <2>6. e.id[1] = c /\ e.id \in Clients \X (1 .. MaxRequests)
      BY <2>3, Zenon
    <2>7. m \in Sent
      <3>1. RequestFrames(r) \in {RequestFrames(q) : q \in Library}
        BY Zenon
      <3>2. conn[c] \in Nat
        BY <2>2, Zenon DEF Shape
      <3> QED BY <2>5, <2>6, <3>1, <3>2, Zenon DEF Sent
    <2>8. \A x : Held(x) => x.id # m.id
      BY <2>2, <2>3, <2>5, Zenon DEF HeldInv
    <2>9. ~Held(m)
      BY <2>8, Zenon
    <2>10. inq' = inq /\ worker' = worker
      BY <2>1, Zenon
    <2>11. /\ Places' /\ \A x : Held(x)' <=> Held(x) \/ x = m
           /\ front' \in Seq(Sent) /\ Front' = Front \cup {m} /\ \A w \in Workers : Queue(w)' = Queue(w)
      BY <2>1, <2>2, <2>7, <2>9, <2>10, <1>PlacesSend, Zenon
    <2>12. Shape'
      <3>1. call' = [x \in Clients |-> call'[x]] /\ sock' = [x \in Clients |-> sock'[x]]
        BY <2>1, <2>2, Zenon DEF Shape
      <3> QED BY <2>1, <2>2, <2>11, <3>1, Zenon DEF Shape
    <2>13. IssuedInv'
      BY <2>1, <2>2, <2>3, <1>SendIssued, Zenon
    <2>14. HeldInv'
      <3>1. ASSUME NEW x, Held(x)'
            PROVE  /\ x \in Sent /\ x.conn <= conn'[x.id[1]]
                   /\ \E f \in issued' : f.id = x.id /\ x.parts = RequestFrames(f.req)
        <4>1. CASE Held(x)
          BY <2>1, <2>2, <4>1, Zenon DEF HeldInv
        <4>2. CASE x = m
          <5>1. conn[c] <= conn[c]
            BY <2>2 DEF Shape
          <5>2. x.conn <= conn'[x.id[1]]
            BY <2>1, <2>5, <2>6, <4>2, <5>1, Zenon
          <5>3. e \in issued' /\ e.id = x.id /\ x.parts = RequestFrames(e.req)
            BY <2>1, <2>4, <2>5, <4>2, Zenon
          <5> QED BY <2>7, <4>2, <5>2, <5>3, Zenon
        <4> QED BY <2>11, <3>1, <4>1, <4>2, Zenon
      <3>2. \A x, y : Held(x)' /\ Held(y)' /\ x.id = y.id => x = y
        BY <2>2, <2>8, <2>11, Zenon DEF HeldInv
      <3> QED BY <3>1, <3>2, Zenon DEF HeldInv
    <2>15. WorkerInv'
      <3>1. issued \subseteq issued' /\ log \subseteq log' /\ (running' => running)
        BY <2>1, Zenon
      <3> QED BY <2>10, <3>1, AllWorkersKept, Zenon
    <2>16. LogInv'
      <3>1. \A x : Waits(x)' => Waits(x) \/ x = m
        BY <2>10, <2>11, Zenon DEF Waits, Calling
      <3>2. \A l \in log : l.id # m.id
        BY <2>2, <2>3, <2>5, Zenon DEF LogInv
      <3> QED BY <2>1, <2>2, <3>1, <3>2, Zenon DEF LogInv, Undone
    <2>17. ASSUME NEW d \in Clients
           PROVE  ClientOK(d)'
      <3>1. CASE d # c
        <4>1. ClientOK(d) /\ issued \subseteq issued' /\ log \subseteq log' /\ conn'[d] = conn[d] /\ replies'[d] = replies[d]
          BY <2>1, <2>2, Zenon DEF ClientInv
        <4>2. sock'[d] = sock[d] /\ call'[d] = call[d]
          BY <2>1, <2>2, <3>1, ZenonT(30) DEF Shape
        <4>3. \A x : Held(x)' /\ x.id[1] = d => Held(x)
          BY <2>5, <2>6, <2>11, <3>1, Zenon
        <4> QED BY <4>1, <4>2, <4>3, ClientKept, Zenon
      <3>2. CASE d = c
        <4>1. sock'[c] = "sent" /\ call'[c] = e
          BY <2>1, <2>2, Zenon DEF Shape
        <4>2. replies'[c] = <<>> /\ \A x : ~Live(c, x)
          <5>1. ClientOK(c)
            BY <2>2, Zenon DEF ClientInv
          <5> QED BY <2>1, <5>1, Zenon DEF ClientOK
        <4>3. \A x : Live(c, x)' => x.id = e.id
          BY <2>1, <2>5, <2>11, <4>2, Zenon DEF Live
        <4>4. e \in issued' /\ e.id[1] = c
          BY <2>1, <2>6, Zenon
        <4> QED BY <3>2, <4>1, <4>2, <4>3, <4>4, Zenon DEF ClientOK
      <3> QED BY <3>1, <3>2, Zenon
    <2> QED BY <2>11, <2>12, <2>13, <2>14, <2>15, <2>16, <2>17, Zenon DEF Inv, ClientInv
  \* The step is an Issue of the abstract specification.
  <1>SendCalls.
    ASSUME Inv, NEW c \in Clients, NEW r \in Scenarios[scenario].requests, Send(c, r)
    PROVE  Calls!Issue(c)
    <2> USE <1>SendCalls
    <2> DEFINE e == NewCall(c, r)
    <2>1. r \in Library
      BY RequestsKnown, Zenon
    <2>2. /\ sock[c] = "ready" /\ (\E id \in Ids(c) : Fresh(id))
          /\ issued' = issued \cup {e}
          /\ call' = [call EXCEPT ![c] = e]
          /\ UNCHANGED <<result, store, log>>
      BY <2>1, <1>SendStep, Zenon
    <2>3. e \in CallRecords /\ e.req = r /\ e.id \in Ids(c) /\ \A f \in issued : f.id # e.id
      <3>1. \E id \in Ids(c) : Fresh(id)
        BY <2>2, Zenon
      <3>2. /\ NewCall(c, r) \in CallRecords /\ NewCall(c, r).id = NewId(c) /\ NewCall(c, r).req = r
            /\ NewId(c) \in Ids(c) /\ NewId(c) \in Clients \X (1 .. MaxRequests) /\ NewId(c)[1] = c
            /\ \A f \in issued : f.id # NewId(c)
        BY <2>1, <3>1, <1>FreshId, Zenon
      <3> QED BY <3>2
    <2>4. e.req = r
      BY <2>3, Zenon
    <2> HIDE DEF e
    <2>5. e # Calls!NoCall
      <3>1. NoCall = Calls!NoCall
        BY Zenon DEF NoCall, Calls!NoCall
      <3> QED BY <2>3, <3>1, RealCall, Zenon
    <2>6. call'[c] = e
      BY <2>2, Zenon DEF Inv, Shape
    <2>7. call[c] = Calls!NoCall
      <3>1. ClientOK(c) /\ sock[c] # "sent"
        BY <2>2, Zenon DEF Inv, ClientInv
      <3> QED BY <3>1, Zenon DEF ClientOK, NoCall, Calls!NoCall
    <2>8. e.req \in UNION {Scenarios[s].requests : s \in DOMAIN Scenarios}
      <3>1. scenario \in DOMAIN Scenarios
        BY Zenon DEF Inv, Shape
      <3> QED BY <2>4, <3>1, Zenon
    <2> QED BY <2>2, <2>3, <2>5, <2>6, <2>7, <2>8, Zenon DEF Calls!Issue
  <1> QED BY <1>SendInv, <1>SendCalls, RequestsKnown, Zenon

\* The dispatcher's hand-over to a worker keeps the invariant.
LEMMA DispatchKeeps ==
  \A w \in Workers : Inv /\ Dispatch(w) => Inv'
  \* The message moves from the dispatcher to the worker's queue.
  <1>PlacesDispatch.
    ASSUME Shape, Places, NEW w \in Workers, front # <<>>, front' = Tail(front),
           inq' = [inq EXCEPT ![w] = Append(@, Head(front))], worker' = worker
    PROVE  /\ Places' /\ \A x : Held(x)' <=> Held(x)
           /\ front' \in Seq(Sent) /\ inq' \in [Workers -> Seq(Sent)]
           /\ Front' \subseteq Front
           /\ \A x \in Workers : Queue(x)' \subseteq Queue(x) \cup Front
    <2> USE <1>PlacesDispatch
    <2> DEFINE m == Head(front)
    <2>1. /\ front' \in Seq(Sent) /\ Front' = Front \ {m} /\ NoDup(front') /\ m \in Sent /\ m \in Front
      <3>1. front \in Seq(Sent) /\ NoDup(front)
        BY Zenon DEF Shape, Places
      <3> QED BY <3>1, ItemsTail, Zenon DEF Front
    <2> HIDE DEF m
    <2>2. inq'[w] = Append(inq[w], m) /\ (\A x \in Workers : x # w => inq'[x] = inq[x]) /\ inq[w] \in Seq(Sent)
      BY Zenon DEF Shape, m
    <2>3. m \notin Queue(w) /\ \A x \in Workers : m \notin Queue(x) /\ m \notin Work(x)
      BY <2>1, Zenon DEF Places
    <2>4. inq'[w] \in Seq(Sent) /\ Queue(w)' = Queue(w) \cup {m} /\ NoDup(inq'[w])
      <3>1. NoDup(inq[w])
        BY Zenon DEF Places
      <3>2. m \notin Items(inq[w])
        BY <2>3, Zenon DEF Queue
      <3>3. Append(inq[w], m) \in Seq(Sent) /\ Items(Append(inq[w], m)) = Items(inq[w]) \cup {m} /\ NoDup(Append(inq[w], m))
        <4>1. \A s \in Seq(Sent) : \A y \in Sent :
                 /\ Append(s, y) \in Seq(Sent) /\ Items(Append(s, y)) = Items(s) \cup {y}
                 /\ NoDup(s) /\ y \notin Items(s) => NoDup(Append(s, y))
          <5> SUFFICES ASSUME NEW s \in Seq(Sent), NEW y \in Sent
                       PROVE  /\ Append(s, y) \in Seq(Sent) /\ Items(Append(s, y)) = Items(s) \cup {y}
                              /\ NoDup(s) /\ y \notin Items(s) => NoDup(Append(s, y))
            BY Zenon
          <5> QED BY ItemsAppend
        <4>2. inq[w] \in Seq(Sent) /\ m \in Sent
          BY <2>1, <2>2, Zenon
        <4> QED BY <3>1, <3>2, <4>1, <4>2, Zenon
      <3> QED BY <2>2, <3>3, Zenon DEF Queue
    <2>5. \A x \in Workers : (x # w => Queue(x)' = Queue(x)) /\ Work(x)' = Work(x)
      BY <2>2, Zenon DEF Queue, Work, Busy
    <2>6. inq' \in [Workers -> Seq(Sent)]
      BY <2>4, Zenon DEF Shape, m
    <2>7. \A x \in Workers : NoDup(inq'[x])
      BY <2>2, <2>4, Zenon DEF Places
    <2>8. \A x \in Workers : Front' \cap Queue(x)' = {} /\ Front' \cap Work(x)' = {}
      <3> SUFFICES ASSUME NEW x \in Workers PROVE Front' \cap Queue(x)' = {} /\ Front' \cap Work(x)' = {}
        BY Zenon
      <3>1. Front \cap Queue(x) = {} /\ Front \cap Work(x) = {}
        BY Zenon DEF Places
      <3> QED BY <2>1, <2>4, <2>5, <3>1, Zenon
    <2>9. \A x, y \in Workers : Queue(x)' \cap Work(y)' = {}
      <3> SUFFICES ASSUME NEW x \in Workers, NEW y \in Workers PROVE Queue(x)' \cap Work(y)' = {}
        BY Zenon
      <3>1. Queue(x) \cap Work(y) = {}
        BY Zenon DEF Places
      <3> QED BY <2>3, <2>4, <2>5, <3>1, Zenon
    <2>10. \A x, y \in Workers : x # y => Queue(x)' \cap Queue(y)' = {} /\ Work(x)' \cap Work(y)' = {}
      <3> SUFFICES ASSUME NEW x \in Workers, NEW y \in Workers, x # y
                   PROVE  Queue(x)' \cap Queue(y)' = {} /\ Work(x)' \cap Work(y)' = {}
        BY Zenon
      <3>1. Queue(x) \cap Queue(y) = {} /\ Work(x) \cap Work(y) = {}
        BY Zenon DEF Places
      <3> QED BY <2>3, <2>4, <2>5, <3>1, ZenonT(30)
    <2>11. Places'
      BY <2>1, <2>7, <2>8, <2>9, <2>10, Zenon DEF Places
    <2>12. \A x : Held(x)' <=> Held(x)
      BY <2>1, <2>4, <2>5, Zenon DEF Held
    <2>13. \A x \in Workers : Queue(x)' \subseteq Queue(x) \cup Front
      BY <2>1, <2>4, <2>5, Zenon
    <2> QED BY <2>1, <2>6, <2>11, <2>12, <2>13, Zenon
  <1>DispatchInv.
    ASSUME Inv, NEW w \in Workers, Dispatch(w)
    PROVE  Inv'
    <2> USE <1>DispatchInv
    <2>1. /\ front # <<>> /\ front' = Tail(front) /\ inq' = [inq EXCEPT ![w] = Append(@, Head(front))]
          /\ worker' = worker /\ log' = log /\ running' = running /\ issued' = issued
          /\ UNCHANGED <<scenario, call, result, sock, conn, replies>>
      BY Zenon DEF Dispatch, clientVars
    <2>2. Shape /\ Places
      BY Zenon DEF Inv
    <2>3. /\ Places' /\ \A x : Held(x)' <=> Held(x)
          /\ front' \in Seq(Sent) /\ inq' \in [Workers -> Seq(Sent)]
          /\ Front' \subseteq Front
          /\ \A x \in Workers : Queue(x)' \subseteq Queue(x) \cup Front
      BY <2>1, <2>2, <1>PlacesDispatch, Zenon
    <2>4. Shape'
      <3>1. worker' = [x \in Workers |-> worker'[x]]
        BY <2>1, <2>2, Zenon DEF Shape
      <3> QED BY <2>1, <2>3, <3>1, ServerShape, Zenon
    <2>5. IssuedInv' /\ HeldInv' /\ ClientInv'
      <3>1. UNCHANGED <<issued, call, sock, conn, replies>> /\ log \subseteq log'
        BY <2>1, Zenon
      <3> QED BY <2>3, <3>1, ClientsKept, Zenon
    <2>6. WorkerInv'
      <3>1. issued \subseteq issued' /\ log \subseteq log' /\ (running' => running)
        BY <2>1, Zenon
      <3> QED BY <2>1, <3>1, AllWorkersKept, Zenon
    <2>7. LogInv'
      <3>1. \A x : Waits(x)' => Waits(x)
        BY <2>1, <2>3, Zenon DEF Waits, Calling
      <3>2. issued \subseteq issued'
        BY <2>1, Zenon
      <3> QED BY <2>1, <3>1, <3>2, LogKept, Zenon
    <2> QED BY <2>3, <2>4, <2>5, <2>6, <2>7, Zenon DEF Inv
  <1> QED BY <1>DispatchInv, Zenon

\* Losing messages from the queues keeps the invariant.
LEMMA LessKeeps ==
  Inv /\ UNCHANGED <<issued, call, sock, conn, replies, result, scenario, log, worker>>
      /\ (front' = <<>> \/ front' = front \/ (front # <<>> /\ front' = Tail(front)))
      /\ (inq' = inq \/ inq' = [w \in Workers |-> <<>>]) /\ (running' => running)
  => Inv'
  \* Messages that are left are where they were.
  <1>PlacesLess.
    ASSUME Shape, Places, worker' = worker,
           front' = <<>> \/ front' = front \/ (front # <<>> /\ front' = Tail(front)),
           inq' = inq \/ inq' = [w \in Workers |-> <<>>]
    PROVE  /\ Places' /\ \A x : Held(x)' => Held(x)
           /\ front' \in Seq(Sent) /\ inq' \in [Workers -> Seq(Sent)]
           /\ Front' \subseteq Front /\ \A w \in Workers : Queue(w)' \subseteq Queue(w)
    <2> USE <1>PlacesLess
    <2>1. front' \in Seq(Sent) /\ Front' \subseteq Front /\ NoDup(front')
      <3>1. front \in Seq(Sent) /\ NoDup(front)
        BY Zenon DEF Shape, Places
      <3>2. <<>> \in Seq(Sent)
        OBVIOUS
      <3>3. CASE front' = <<>>
        BY <3>2, <3>3, ItemsNone, Zenon DEF Front
      <3>4. CASE front # <<>> /\ front' = Tail(front)
        BY <3>1, <3>4, ItemsTail, Zenon DEF Front
      <3> QED BY <3>1, <3>3, <3>4, Zenon DEF Front
    <2>2. inq' \in [Workers -> Seq(Sent)] /\ \A w \in Workers : Queue(w)' \subseteq Queue(w) /\ NoDup(inq'[w])
      <3>1. CASE inq' = inq
        BY <3>1, Zenon DEF Shape, Places, Queue
      <3>2. CASE inq' = [w \in Workers |-> <<>>]
        <4>1. \A w \in Workers : inq'[w] = <<>>
          BY <3>2, Zenon
        <4>2. <<>> \in Seq(Sent)
          OBVIOUS
        <4> QED BY <3>2, <4>1, <4>2, ItemsNone, Zenon DEF Queue
      <3> QED BY <3>1, <3>2, Zenon
    <2>3. \A w \in Workers : Work(w)' = Work(w)
      BY Zenon DEF Work, Busy
    <2>4. \A x, y \in Workers : Queue(x)' \cap Work(y)' = {}
      BY <2>2, <2>3 DEF Places
    <2>5. \A x \in Workers : Front' \cap Queue(x)' = {} /\ Front' \cap Work(x)' = {}
      BY <2>1, <2>2, <2>3 DEF Places
    <2>6. \A x, y \in Workers : x # y => Queue(x)' \cap Queue(y)' = {} /\ Work(x)' \cap Work(y)' = {}
      BY <2>2, <2>3, ZenonT(30) DEF Places
    <2>7. Places'
      BY <2>1, <2>2, <2>4, <2>5, <2>6, Zenon DEF Places
    <2>8. \A x : Held(x)' => Held(x)
      BY <2>1, <2>2, <2>3, Zenon DEF Held
    <2> QED BY <2>1, <2>2, <2>7, <2>8, Zenon
  <1>LessInv.
    ASSUME Inv, UNCHANGED <<issued, call, sock, conn, replies, result, scenario, log, worker>>,
           front' = <<>> \/ front' = front \/ (front # <<>> /\ front' = Tail(front)),
           inq' = inq \/ inq' = [w \in Workers |-> <<>>], running' => running
    PROVE  Inv'
    <2> USE <1>LessInv
    <2>1. Shape /\ Places /\ worker' = worker /\ issued \subseteq issued' /\ log \subseteq log'
      BY Zenon DEF Inv
    <2>2. /\ Places' /\ \A x : Held(x)' => Held(x)
          /\ front' \in Seq(Sent) /\ inq' \in [Workers -> Seq(Sent)]
          /\ Front' \subseteq Front /\ \A w \in Workers : Queue(w)' \subseteq Queue(w)
      BY <2>1, <1>PlacesLess, Zenon
    <2>3. Shape'
      <3>1. worker' = [x \in Workers |-> worker'[x]]
        BY <2>1, Zenon DEF Shape
      <3> QED BY <2>2, <3>1, ServerShape, Zenon
    <2>4. IssuedInv' /\ HeldInv' /\ ClientInv'
      BY <2>1, <2>2, ClientsKept, Zenon
    <2>5. WorkerInv'
      BY <2>1, AllWorkersKept, Zenon
    <2>6. LogInv'
      <3>1. \A x : Waits(x)' => Waits(x)
        BY <2>1, <2>2, Zenon DEF Waits, Calling
      <3> QED BY <2>1, <3>1, LogKept, Zenon
    <2> QED BY <2>2, <2>3, <2>4, <2>5, <2>6, Zenon DEF Inv
  <1> QED BY <1>LessInv, Zenon

\* Stopping the server keeps the invariant.
LEMMA StopInv ==
  ASSUME Inv, Stop
  PROVE  Inv'
  <1>1. /\ UNCHANGED <<issued, call, sock, conn, replies, result, scenario, log, worker>>
        /\ front' = <<>> /\ inq' = [w \in Workers |-> <<>>] /\ (running' => running)
    BY Zenon DEF Stop, clientVars
  <1> QED BY <1>1, LessKeeps, Zenon

\* The size and the data that a client takes from a reply.
GetsSize(p, r) == IF HasSize(p) THEN p.size ELSE r.size
GetsData(p) == IF HasData(p) THEN p.data ELSE <<>>

\* The steps of clients after the request is sent, and the loss of what is on its
\* way, keep the invariant; getting the reply and giving up are the two ways in
\* which a call returns in the abstract specification.
LEMMA ClientSteps ==
  /\ \A c \in Clients : Inv /\ (Receive(c) \/ Timeout(c)) => Inv' /\ Calls!Return(c)
  /\ \A c \in Clients : Inv /\ Reconnect(c) => Inv'
  /\ Inv /\ Lose => Inv'
  \* What Receive does, given that the client reads the reply that was sent: it
  \* returns what a true answer to its call says.
  <1>ReceiveStep.
    ASSUME Inv, NEW c \in Clients, Receive(c)
    PROVE  /\ sock[c] = "sent" /\ call[c] \in issued
           /\ sock' = [sock EXCEPT ![c] = "ready"]
           /\ replies' = [replies EXCEPT ![c] = <<>>]
           /\ call' = [call EXCEPT ![c] = NoCall]
           /\ \A m : ~Live(c, m)
           /\ \E p : /\ Answers(p, call[c], log)
                     /\ result' = [result EXCEPT ![c] =
                          IF ~p.ok /\ call[c].req.op \notin StatusOps \cup QueryOps THEN Failed
                          ELSE [ok |-> p.ok, size |-> GetsSize(p, call[c].req), data |-> GetsData(p)]]
           /\ UNCHANGED <<issued, conn, front, store, log, inq, worker, running, scenario>>
    <2> USE <1>ReceiveStep
    <2> DEFINE g == getReply(Head(replies[c]), call[c].req)
               r == call[c].req
    <2>1. /\ sock[c] = "sent" /\ replies[c] # <<>>
          /\ replies' = [replies EXCEPT ![c] = Tail(replies[c])]
          /\ sock' = [sock EXCEPT ![c] = IF g.rest = <<>> THEN "ready" ELSE "broken"]
          /\ call' = [call EXCEPT ![c] = NoCall]
          /\ result' = [result EXCEPT ![c] =
                IF g.ret = "-1" \/ (~g.ok /\ r.op \notin StatusOps \cup QueryOps) THEN Failed
                ELSE [ok |-> g.ok, size |-> g.size, data |-> g.data]]
          /\ UNCHANGED <<issued, conn, front, store, log, inq, worker, running, scenario>>
      BY Zenon DEF Receive, serverVars
    <2>2. ClientOK(c)
      BY Zenon DEF Inv, ClientInv
    <2>3. call[c] \in issued /\ AnsweredBy(replies[c], call[c], log) /\ \A m : ~Live(c, m)
      BY <2>1, <2>2, Zenon DEF ClientOK
    <2>4. PICK p : replies[c] = <<ReplyFrames(p)>> /\ Answers(p, call[c], log)
      BY <2>3, Zenon DEF AnsweredBy
    <2>5. Head(replies[c]) = ReplyFrames(p) /\ Tail(replies[c]) = <<>>
      BY <2>4
    <2>6. Answer(p) /\ p.op = r.op /\ Bounded(p, r) /\ p.ok \in BOOLEAN
      BY <2>4, Zenon DEF Answers, Answer
    <2> DEFINE sz == GetsSize(p, r)
               dt == GetsData(p)
    <2>7. g = [ret |-> "reply", ok |-> p.ok, size |-> sz, data |-> dt, rest |-> <<>>]
      BY <2>5, <2>6, WireFaithful, Zenon DEF ReplyArrives, GetsSize, GetsData
    <2> HIDE DEF g, sz, dt
    <2>8. g.ret # "-1" /\ g.ok = p.ok /\ g.size = sz /\ g.data = dt /\ g.rest = <<>>
      BY <2>7, Zenon
    <2>9. (IF g.rest = <<>> THEN "ready" ELSE "broken") = "ready"
      BY <2>8, Zenon
    <2>10. (IF g.ret = "-1" \/ (~g.ok /\ r.op \notin StatusOps \cup QueryOps) THEN Failed
                ELSE [ok |-> g.ok, size |-> g.size, data |-> g.data])
           = IF ~p.ok /\ r.op \notin StatusOps \cup QueryOps THEN Failed ELSE [ok |-> p.ok, size |-> sz, data |-> dt]
      BY <2>8, Zenon
    <2> HIDE DEF r
    <2>11. result' = [result EXCEPT ![c] = IF ~p.ok /\ r.op \notin StatusOps \cup QueryOps THEN Failed
                                           ELSE [ok |-> p.ok, size |-> sz, data |-> dt]]
      BY <2>1, <2>10, Zenon
    <2>12. sock' = [sock EXCEPT ![c] = "ready"] /\ replies' = [replies EXCEPT ![c] = <<>>]
      BY <2>1, <2>5, <2>9, Zenon
    <2> QED BY <2>1, <2>3, <2>4, <2>11, <2>12, Zenon DEF r, sz, dt
  \* A step of one client keeps the invariant if that client's part is kept.
  <1>ClientMoves.
    ASSUME Inv, NEW c \in Clients, UNCHANGED <<issued, log, front, inq, worker, running>>,
           Shape', \A d \in Clients : conn[d] <= conn'[d],
           \A d \in Clients : d # c => /\ sock'[d] = sock[d] /\ call'[d] = call[d]
                                       /\ conn'[d] = conn[d] /\ replies'[d] = replies[d],
           (\A m : Held(m)' <=> Held(m)) => ClientOK(c)'
    PROVE  Inv'
    <2> USE <1>ClientMoves
    <2>1. \A w \in Workers : Work(w)' = Work(w) /\ Calling(w)' = Calling(w)
      BY Zenon DEF Work, Busy, Calling
    <2>2. /\ Places' /\ \A x : Held(x)' <=> Held(x)
          /\ Front' = Front /\ \A w \in Workers : Queue(w)' = Queue(w)
      <3>1. Places
        BY Zenon DEF Inv
      <3> QED BY <2>1, <3>1, PlacesStay, Zenon
    <2>3. issued \subseteq issued' /\ log \subseteq log' /\ (running' => running) /\ worker' = worker
      BY Zenon
    <2>4. IssuedInv'
      BY Zenon DEF Inv, IssuedInv
    <2>5. HeldInv'
      <3>1. HeldInv /\ conn \in [Clients -> Nat] /\ conn' \in [Clients -> Nat]
        BY Zenon DEF Inv, Shape
      <3> QED BY <2>2, <2>3, <3>1, HeldKept, Zenon
    <2>6. WorkerInv'
      BY <2>3, AllWorkersKept, Zenon
    <2>7. LogInv'
      <3>1. \A x : Waits(x)' => Waits(x)
        BY <2>1, <2>2, <2>3, Zenon DEF Waits
      <3> QED BY <2>3, <3>1, LogKept, Zenon
    <2>8. ASSUME NEW d \in Clients
          PROVE  ClientOK(d)'
      <3>1. CASE d = c
        BY <2>2, <3>1, Zenon
      <3>2. CASE d # c
        <4>1. ClientOK(d)
          BY Zenon DEF Inv, ClientInv
        <4>2. \A m : Held(m)' /\ m.id[1] = d => Held(m)
          BY <2>2, Zenon
        <4> QED BY <2>3, <3>2, <4>1, <4>2, ClientKept, Zenon
      <3> QED BY <3>1, <3>2, Zenon
    <2> QED BY <2>2, <2>4, <2>5, <2>6, <2>7, <2>8, Zenon DEF Inv, ClientInv
  <1>ReceiveInv.
    ASSUME Inv, NEW c \in Clients, Receive(c)
    PROVE  Inv'
    <2> USE <1>ReceiveInv
    <2>1. /\ sock' = [sock EXCEPT ![c] = "ready"]
          /\ replies' = [replies EXCEPT ![c] = <<>>]
          /\ call' = [call EXCEPT ![c] = NoCall]
          /\ \A m : ~Live(c, m)
          /\ \E x : result' = [result EXCEPT ![c] = x]
          /\ UNCHANGED <<issued, conn, front, store, log, inq, worker, running, scenario>>
      BY <1>ReceiveStep, Zenon
    <2>2. Shape
      BY Zenon DEF Inv
    <2>3. /\ sock' = [d \in Clients |-> sock'[d]] /\ sock'[c] = "ready"
          /\ replies' = [d \in Clients |-> replies'[d]] /\ replies'[c] = <<>>
          /\ call' = [d \in Clients |-> call'[d]] /\ call'[c] = NoCall
          /\ \A d \in Clients : d # c => sock'[d] = sock[d] /\ call'[d] = call[d] /\ replies'[d] = replies[d]
      BY <2>1, <2>2, Zenon DEF Shape
    <2>4. result' = [d \in Clients |-> result'[d]]
      BY <2>1, <2>2, Zenon DEF Shape
    <2>5. Shape'
      BY <2>1, <2>2, <2>3, <2>4, Zenon DEF Shape
    <2>6. ASSUME \A m : Held(m)' <=> Held(m)
          PROVE  ClientOK(c)'
      <3>1. \A m : ~Live(c, m)'
        BY <2>1, <2>6, Zenon DEF Live
      <3>2. sock'[c] \in {"ready", "sent", "late"} /\ sock'[c] # "sent"
        BY <2>3, Zenon
      <3> QED BY <2>3, <3>1, <3>2, Zenon DEF ClientOK
    <2>7. \A d \in Clients : conn[d] <= conn'[d]
      BY <2>1, <2>2 DEF Shape
    <2>8. UNCHANGED <<issued, log, front, inq, worker, running>> /\ \A d \in Clients : conn'[d] = conn[d]
      BY <2>1, Zenon
    <2> QED BY <2>3, <2>5, <2>6, <2>7, <2>8, <1>ClientMoves, Zenon
  <1>TimeoutInv.
    ASSUME Inv, NEW c \in Clients, Timeout(c)
    PROVE  Inv'
    <2> USE <1>TimeoutInv
    <2>1. /\ sock' = [sock EXCEPT ![c] = "late"]
          /\ call' = [call EXCEPT ![c] = NoCall]
          /\ result' = [result EXCEPT ![c] = Failed]
          /\ UNCHANGED <<issued, conn, front, replies, store, log, inq, worker, running, scenario>>
      BY Zenon DEF Timeout, serverVars
    <2>2. Shape
      BY Zenon DEF Inv
    <2>3. /\ sock' = [d \in Clients |-> sock'[d]] /\ sock'[c] = "late"
          /\ call' = [d \in Clients |-> call'[d]] /\ call'[c] = NoCall
          /\ \A d \in Clients : d # c => sock'[d] = sock[d] /\ call'[d] = call[d]
      BY <2>1, <2>2, Zenon DEF Shape
    <2>4. result' = [d \in Clients |-> result'[d]]
      BY <2>1, <2>2, Zenon DEF Shape
    <2>5. Shape'
      BY <2>1, <2>2, <2>3, <2>4, Zenon DEF Shape
    <2>6. ClientOK(c)'
      <3>1. sock'[c] \in {"ready", "sent", "late"} /\ sock'[c] # "sent" /\ sock'[c] # "ready"
        BY <2>3, Zenon
      <3> QED BY <2>3, <3>1, Zenon DEF ClientOK
    <2>7. \A d \in Clients : conn[d] <= conn'[d]
      BY <2>1, <2>2 DEF Shape
    <2>8. UNCHANGED <<issued, log, front, inq, worker, running>> /\ \A d \in Clients : conn'[d] = conn[d] /\ replies'[d] = replies[d]
      BY <2>1, Zenon
    <2> QED BY <2>3, <2>5, <2>6, <2>7, <2>8, <1>ClientMoves, Zenon
  <1>ReconnectInv.
    ASSUME Inv, NEW c \in Clients, Reconnect(c)
    PROVE  Inv'
    <2> USE <1>ReconnectInv
    <2>1. /\ sock[c] = "late" /\ sock' = [sock EXCEPT ![c] = "ready"]
          /\ conn' = [conn EXCEPT ![c] = @ + 1]
          /\ replies' = [replies EXCEPT ![c] = <<>>]
          /\ UNCHANGED <<issued, call, result, front, store, log, inq, worker, running, scenario>>
      BY Zenon DEF Reconnect, serverVars
    <2>2. Shape /\ HeldInv /\ ClientOK(c)
      BY Zenon DEF Inv, ClientInv
    <2>3. /\ sock' = [d \in Clients |-> sock'[d]] /\ sock'[c] = "ready"
          /\ replies' = [d \in Clients |-> replies'[d]] /\ replies'[c] = <<>>
          /\ \A d \in Clients : d # c => sock'[d] = sock[d] /\ replies'[d] = replies[d]
      BY <2>1, <2>2, Zenon DEF Shape
    <2>4. /\ conn' \in [Clients -> Nat] /\ conn'[c] = conn[c] + 1 /\ conn[c] \in Nat
          /\ \A d \in Clients : (d # c => conn'[d] = conn[d]) /\ conn[d] <= conn'[d]
      BY <2>1, <2>2 DEF Shape
    <2>5. Shape'
      BY <2>1, <2>2, <2>3, <2>4, Zenon DEF Shape
    <2>6. ASSUME \A m : Held(m)' <=> Held(m)
          PROVE  ClientOK(c)'
      <3>1. ASSUME NEW m, Live(c, m)'
            PROVE  FALSE
        <4>1. Held(m) /\ m.id[1] = c /\ m.conn = conn[c] + 1
          BY <2>4, <2>6, <3>1, Zenon DEF Live
        <4>2. m.conn <= conn[c]
          BY <2>2, <4>1, Zenon DEF HeldInv
        <4> QED BY <2>4, <4>1, <4>2
      <3>2. sock'[c] \in {"ready", "sent", "late"} /\ sock'[c] # "sent" /\ sock[c] # "sent"
        BY <2>1, <2>3, Zenon
      <3>3. call'[c] = NoCall
        BY <2>1, <2>2, <3>2, Zenon DEF ClientOK
      <3> QED BY <2>3, <3>1, <3>2, <3>3, Zenon DEF ClientOK
    <2>7. UNCHANGED <<issued, log, front, inq, worker, running>> /\ \A d \in Clients : call'[d] = call[d]
      BY <2>1, Zenon
    <2> QED BY <2>3, <2>4, <2>5, <2>6, <2>7, <1>ClientMoves, Zenon
  <1>LoseInv.
    ASSUME Inv, Lose
    PROVE  Inv'
    <2> USE <1>LoseInv
    <2>1. UNCHANGED <<store, log, inq, worker, running, issued, call, result, sock, conn, scenario>>
      BY Zenon DEF Lose, clientVars
    <2>2. CASE front # <<>> /\ front' = Tail(front) /\ UNCHANGED replies
      <3>1. UNCHANGED <<issued, call, sock, conn, replies, result, scenario, log, worker>> /\ inq' = inq /\ (running' => running)
        BY <2>1, <2>2, Zenon
      <3> QED BY <2>2, <3>1, LessKeeps, Zenon
    <2>3. ASSUME NEW c \in Clients, replies' = [replies EXCEPT ![c] = <<>>], UNCHANGED front
          PROVE  Inv'
      <3>1. Shape /\ ClientOK(c)
        BY Zenon DEF Inv, ClientInv
      <3>2. /\ replies' = [d \in Clients |-> replies'[d]] /\ replies'[c] = <<>>
            /\ \A d \in Clients : d # c => replies'[d] = replies[d]
        BY <2>3, <3>1, Zenon DEF Shape
      <3>3. Shape'
        BY <2>1, <2>3, <3>1, <3>2, Zenon DEF Shape
      <3>4. ASSUME \A m : Held(m)' <=> Held(m)
            PROVE  ClientOK(c)'
        <4>1. \A m : Live(c, m)' <=> Live(c, m)
          BY <2>1, <3>4, Zenon DEF Live
        <4> QED BY <2>1, <3>1, <3>2, <4>1, Zenon DEF ClientOK
      <3>5. \A d \in Clients : conn[d] <= conn'[d]
        BY <2>1, <3>1 DEF Shape
      <3>6. UNCHANGED <<issued, log, front, inq, worker, running>>
            /\ \A d \in Clients : conn'[d] = conn[d] /\ call'[d] = call[d] /\ sock'[d] = sock[d]
        BY <2>1, <2>3, Zenon
      <3> QED BY <3>2, <3>3, <3>4, <3>5, <3>6, <1>ClientMoves, Zenon
    <2> QED BY <2>2, <2>3, Zenon DEF Lose
  \* A client that waits has a call.
  <1>WaitsForCall.
    ASSUME Inv, NEW c \in Clients, sock[c] = "sent"
    PROVE  call[c] \in issued /\ call[c] \in CallRecords /\ call[c] # Calls!NoCall
    <2> USE <1>WaitsForCall
    <2>1. call[c] \in issued
      BY Zenon DEF Inv, ClientInv, ClientOK
    <2>2. call[c] \in CallRecords
      BY <2>1, Zenon DEF Inv, IssuedInv
    <2> QED BY <2>1, <2>2, RealCall, Zenon DEF NoCall, Calls!NoCall
  \* Giving up reports a failure, whatever became of the request.
  <1>TimeoutCalls.
    ASSUME Inv, NEW c \in Clients, Timeout(c)
    PROVE  Calls!Return(c)
    <2> USE <1>TimeoutCalls
    <2>1. /\ sock[c] = "sent"
          /\ call' = [call EXCEPT ![c] = NoCall]
          /\ result' = [result EXCEPT ![c] = Failed]
          /\ UNCHANGED <<issued, store, log>>
      BY Zenon DEF Timeout, serverVars
    <2>2. call[c] # Calls!NoCall
      BY <2>1, <1>WaitsForCall, Zenon
    <2> QED BY <2>1, <2>2, Zenon DEF Calls!Return, NoCall, Calls!NoCall
  \* A success is reported only for an execution that the log has.
  <1>ReceiveCalls.
    ASSUME Inv, NEW c \in Clients, Receive(c)
    PROVE  Calls!Return(c)
    <2> USE <1>ReceiveCalls
    <2> DEFINE r == call[c].req
    <2>1. /\ sock[c] = "sent"
          /\ call' = [call EXCEPT ![c] = NoCall]
          /\ UNCHANGED <<issued, store, log>>
      BY <1>ReceiveStep, Zenon
    <2>2. PICK p : /\ Answers(p, call[c], log)
                   /\ result' = [result EXCEPT ![c] =
                          IF ~p.ok /\ r.op \notin StatusOps \cup QueryOps THEN Failed
                          ELSE [ok |-> p.ok, size |-> GetsSize(p, r), data |-> GetsData(p)]]
      BY <1>ReceiveStep, Zenon
    <2>3. call[c] # Calls!NoCall
      BY <2>1, <1>WaitsForCall, Zenon
    <2>4. call' = [call EXCEPT ![c] = Calls!NoCall]
      BY <2>1, Zenon DEF NoCall, Calls!NoCall
    <2>5. p.op = r.op /\ p.cached = r.cached /\ Told(p, call[c], log)
      BY <2>2, Zenon DEF Answers
    <2> DEFINE got == [ok |-> p.ok, size |-> GetsSize(p, r), data |-> GetsData(p)]
               none == ~p.ok /\ r.op \notin StatusOps \cup QueryOps
    <2>6. got.ok = p.ok /\ got.size = GetsSize(p, r) /\ got.data = GetsData(p)
      BY Zenon
    <2>7. result' = [result EXCEPT ![c] = IF none THEN Failed ELSE got]
      BY <2>2, Zenon
    <2>8. ASSUME ~none
          PROVE  p.ok \/ p.op \in StatusOps \cup QueryOps
      BY <2>5, <2>8, Zenon
    <2> HIDE DEF got, none
    <2>9. CASE none
      <3>1. result' = [result EXCEPT ![c] = Failed]
        BY <2>7, <2>9, Zenon
      <3> QED BY <2>1, <2>3, <2>4, <3>1, Zenon DEF Calls!Return
    <2>10. CASE ~none
      <3>1. result' = [result EXCEPT ![c] = got]
        BY <2>7, <2>10, Zenon
      <3>2. result'[c] = got
        BY <3>1, Zenon DEF Inv, Shape
      <3>3. PICK l \in log : /\ l.id = call[c].id /\ l.ok = p.ok
                             /\ p.ok /\ ~p.cached => l.size = GetsSize(p, r) /\ l.data = GetsData(p)
        BY <2>5, <2>8, <2>10, Zenon DEF Told, GetsSize, GetsData
      <3>4. Calls!Reports(r, l, got)
        BY <2>5, <2>6, <3>3, Zenon DEF Calls!Reports
      <3> QED BY <2>1, <2>3, <2>4, <3>1, <3>2, <3>3, <3>4, Zenon DEF Calls!Return
    <2> QED BY <2>9, <2>10, Zenon
  <1> QED BY <1>ReceiveInv, <1>TimeoutInv, <1>ReconnectInv, <1>LoseInv, <1>TimeoutCalls, <1>ReceiveCalls, Zenon

\* The steps of a worker around the call of the proxy keep the invariant: looking
\* up the size of a cached file, failing at it, and leaving when the server stops.
LEMMA WorkerSteps ==
  \A w \in Workers : Inv /\ (GetFileSize(w) \/ CacheFails(w) \/ Exit(w)) => Inv'
  \* A step of a worker that keeps its message keeps the invariant, if the worker's
  \* part is kept.
  <1>WorkerMoves.
    ASSUME Inv, NEW w \in Workers, UNCHANGED <<issued, call, result, sock, conn, replies, scenario, log, front, inq, running>>,
           worker' = [x \in Workers |-> worker'[x]], \A x \in Workers : x # w => worker'[x] = worker[x],
           Work(w)' = Work(w), Calling(w)' => Calling(w) /\ worker'[w].m = worker[w].m, WorkerOK(w)'
    PROVE  Inv'
    <2> USE <1>WorkerMoves
    <2>1. \A x \in Workers : Work(x)' = Work(x)
      BY SameWork, Zenon
    <2>2. \A x \in Workers : Calling(x)' => Calling(x) /\ worker'[x].m = worker[x].m
      BY SameWork, Zenon
    <2>3. Places /\ Shape /\ front' = front /\ inq' = inq
      BY Zenon DEF Inv
    <2>4. /\ Places' /\ \A x : Held(x)' <=> Held(x)
          /\ Front' = Front /\ \A x \in Workers : Queue(x)' = Queue(x)
      BY <2>1, <2>3, PlacesStay, Zenon
    <2>5. Shape'
      <3>1. UNCHANGED <<scenario, call, result, sock, conn, replies>> /\ front' \in Seq(Sent) /\ inq' \in [Workers -> Seq(Sent)]
        BY <2>3, Zenon DEF Shape
      <3> QED BY <3>1, ServerShape, Zenon
    <2>6. UNCHANGED <<issued, call, sock, conn, replies>> /\ log \subseteq log' /\ issued \subseteq issued' /\ log' = log
      BY Zenon
    <2>7. IssuedInv' /\ HeldInv' /\ ClientInv'
      BY <2>4, <2>6, ClientsKept, Zenon
    <2>8. ASSUME NEW x \in Workers
          PROVE  WorkerOK(x)'
      <3>1. CASE x = w
        BY <3>1, Zenon DEF WorkerOK, Busy, Calling, CallingInv
      <3>2. CASE x # w
        <4>1. worker'[x] = worker[x] /\ WorkerOK(x) /\ (running' => running)
          BY <3>2, Zenon DEF Inv, WorkerInv
        <4> QED BY <2>6, <4>1, WorkerKept, Zenon
      <3> QED BY <3>1, <3>2, Zenon
    <2>9. LogInv'
      <3>1. \A x : Waits(x)' => Waits(x)
        BY <2>2, <2>4, Zenon DEF Waits
      <3> QED BY <2>6, <3>1, LogKept, Zenon
    <2> QED BY <2>4, <2>5, <2>7, <2>8, <2>9, Zenon DEF Inv, WorkerInv
  <1>ExitInv.
    ASSUME Inv, NEW w \in Workers, Exit(w)
    PROVE  Inv'
    <2> USE <1>ExitInv
    <2> DEFINE st == [pc |-> "exited"]
    <2>1. /\ ~running /\ worker[w].pc = "recv" /\ worker' = [worker EXCEPT ![w] = st]
          /\ UNCHANGED <<issued, call, result, sock, conn, replies, scenario, log, front, inq, running>>
      BY Zenon DEF Exit, Goto, clientVars
    <2>2. st.pc = "exited"
      BY Zenon
    <2> HIDE DEF st
    <2>3. /\ worker' = [x \in Workers |-> worker'[x]] /\ worker'[w] = st
          /\ \A x \in Workers : x # w => worker'[x] = worker[x]
      <3>1. Shape
        BY Zenon DEF Inv
      <3> QED BY <2>1, <3>1, WorkerSet, Zenon
    <2>4. ~Busy(w) /\ ~Busy(w)' /\ ~Calling(w)'
      BY <2>1, <2>2, <2>3, ZenonT(30) DEF Busy, Calling
    <2>5. Work(w)' = Work(w)
      BY <2>4, Zenon DEF Work
    <2>6. WorkerOK(w)'
      <3>1. worker'[w].pc = "exited"
        BY <2>2, <2>3, Zenon
      <3> QED BY <2>1, <2>4, <3>1, ZenonT(30) DEF WorkerOK
    <2> QED BY <2>1, <2>3, <2>4, <2>5, <2>6, <1>WorkerMoves, Zenon
  \* Reporting a failure of a file operation is a true answer, whatever happened.
  <1>FailedReply.
    ASSUME NEW e \in CallRecords, e.req.op \notin StatusOps \cup QueryOps, NEW done,
           NEW p, p.op = e.req.op, p.ok = FALSE, p.cached = e.req.cached, p.n = 0, p.m = 0
    PROVE  Answers(p, e, done)
    <2> USE <1>FailedReply
    <2>1. e.req \in Library
      BY Zenon DEF CallRecords
    <2>2. e.req.op \in FileOps \cup StatusOps \cup QueryOps /\ e.req.cached \in BOOLEAN
      BY <2>1, LibraryFacts, Zenon
    <2>3. Answer(p)
      <3>1. Few(p.n) /\ p.m = p.n /\ p.ok \in BOOLEAN
        BY Zenon DEF Few
      <3> QED BY <2>2, <3>1, Zenon DEF Answer, Ops
    <2>4. ~p.ok
      BY Zenon
    <2>5. Bounded(p, e.req)
      BY <2>4, Zenon DEF Bounded
    <2>6. Told(p, e, done)
      BY <2>4, Zenon DEF Told
    <2> QED BY <2>3, <2>5, <2>6, Zenon DEF Answers
  \* Turning to such a reply keeps the invariant.
  <1>FailInv.
    ASSUME Inv, NEW w \in Workers, Calling(w), NEW st, worker' = [worker EXCEPT ![w] = st],
           worker[w].req.op \in {"WRITE_FILE", "READ_FILE", "APPEND_FILE", "READ_FILE_RANGE"},
           st.pc = "reply", st.m = worker[w].m, st.rest = worker[w].rest,
           st.p.op = worker[w].req.op, st.p.ok = FALSE,
           st.p.cached = worker[w].req.cached, st.p.n = 0, st.p.m = 0,
           UNCHANGED <<issued, call, result, sock, conn, replies, scenario, log, front, inq, running>>
    PROVE  Inv'
    <2> USE <1>FailInv
    <2>3. PICK e \in issued : e.id = worker[w].m.id /\ Same(worker[w].req, e.req)
      BY Zenon DEF Inv, WorkerInv, WorkerOK, CallingInv
    <2>4. e \in CallRecords /\ e \in issued'
      BY <2>3, Zenon DEF Inv, IssuedInv
    <2>5. worker[w].req.op = e.req.op /\ worker[w].req.cached = e.req.cached
      BY <2>3, Zenon DEF Same
    <2>6. e.req.op \notin StatusOps \cup QueryOps
      BY <2>5, Zenon DEF StatusOps, QueryOps
    <2>7. Answers(st.p, e, log')
      BY <2>4, <2>5, <2>6, <1>FailedReply, Zenon
    <2>8. /\ WorkerOK(w)' /\ Work(w)' = Work(w) /\ ~Calling(w)'
          /\ worker' = [x \in Workers |-> worker'[x]]
          /\ \A x \in Workers : x # w => worker'[x] = worker[x]
      BY <2>3, <2>4, <2>7, ReplyGiven, Zenon
    <2> QED BY <2>8, <1>WorkerMoves, Zenon
  <1>CacheFailsInv.
    ASSUME Inv, NEW w \in Workers, CacheFails(w)
    PROVE  Inv'
    <2> USE <1>CacheFailsInv
    <2> DEFINE st == Reply(w, FALSE, worker[w].size, NoData, 0)
    <2>1. /\ worker[w].pc = "call"
          /\ worker[w].req.op \in {"WRITE_FILE", "READ_FILE", "APPEND_FILE", "READ_FILE_RANGE"}
          /\ worker' = [worker EXCEPT ![w] = st]
          /\ UNCHANGED <<issued, call, result, sock, conn, replies, scenario, log, front, inq, running>>
      BY Zenon DEF CacheFails, Goto, clientVars
    <2>2. Calling(w)
      BY <2>1, Zenon DEF Calling
    <2>3. /\ st.pc = "reply" /\ st.m = worker[w].m /\ st.rest = worker[w].rest
          /\ st.p.op = worker[w].req.op /\ st.p.ok = FALSE
          /\ st.p.cached = worker[w].req.cached /\ st.p.n = 0 /\ st.p.m = 0
      BY Zenon DEF Reply
    <2> HIDE DEF st
    <2> QED BY <2>1, <2>2, <2>3, <1>FailInv, Zenon
  \* The worker's record after it has looked up the size.
  <1>Resized.
    ASSUME NEW st, NEW n, Full(st)
    PROVE  Sized(st, n) = Serving("call", st.m, st.req, st.rest, n)
    <2> USE <1>Resized
    <2> DEFINE a == st.pc
               m == st.m
               q == st.req
               t == st.rest
               z == st.size
               r == [pc |-> a, m |-> m, req |-> q, rest |-> t, size |-> z]
               u == [r EXCEPT !.pc = "call"]
               v == [u EXCEPT !.size = n]
    <2>1. st = r
      BY Zenon DEF Full, Serving
    <2> HIDE DEF a, m, q, t, z
    <2>2. u = [pc |-> "call", m |-> m, req |-> q, rest |-> t, size |-> z]
      OBVIOUS
    <2>3. [r EXCEPT !.pc = "call", !.size = n] = v
      <3> HIDE DEF r
      <3> QED BY Zenon
    <2> HIDE DEF u
    <2>4. v = [pc |-> "call", m |-> m, req |-> q, rest |-> t, size |-> n]
      BY <2>2
    <2>5. Sized(st, n) = [r EXCEPT !.pc = "call", !.size = n]
      <3> HIDE DEF r
      <3> QED BY <2>1, Zenon DEF Sized
    <2>6. Sized(st, n) = [pc |-> "call", m |-> m, req |-> q, rest |-> t, size |-> n]
      <3> HIDE DEF r, v
      <3> QED BY <2>3, <2>4, <2>5, Zenon
    <2> QED BY <2>6, Zenon DEF Serving, m, q, t
  <1>GetFileSizeInv.
    ASSUME Inv, NEW w \in Workers, GetFileSize(w)
    PROVE  Inv'
    <2> USE <1>GetFileSizeInv
    <2> DEFINE f == store[worker[w].req.name]
               no == Reply(w, FALSE, 0, NoData, 0)
               st == [worker[w] EXCEPT !.pc = "call", !.size = f.size]
    <2>1. /\ worker[w].pc = "size"
          /\ worker' = [worker EXCEPT ![w] = IF f = NoFile THEN no ELSE st]
          /\ UNCHANGED <<issued, call, result, sock, conn, replies, scenario, log, front, inq, running>>
      BY Zenon DEF GetFileSize, Goto, clientVars
    <2>2. Calling(w)
      BY <2>1, Zenon DEF Calling
    <2>3. WorkerOK(w) /\ CallingInv(w)
      BY <2>2, Zenon DEF Inv, WorkerInv, WorkerOK
    <2>4. PICK e \in issued : /\ e.id = worker[w].m.id /\ Same(worker[w].req, e.req)
                              /\ e.req.op = "READ_FILE" /\ e.req.cached
      BY <2>1, <2>3, Zenon DEF CallingInv
    <2>5. worker[w].req.op \in {"WRITE_FILE", "READ_FILE", "APPEND_FILE", "READ_FILE_RANGE"}
      BY <2>4, Zenon DEF Same
    <2>6. CASE f = NoFile
      <3>1. worker' = [worker EXCEPT ![w] = no]
        BY <2>1, <2>6, Zenon
      <3>2. /\ no.pc = "reply" /\ no.m = worker[w].m /\ no.rest = worker[w].rest
            /\ no.p.op = worker[w].req.op /\ no.p.ok = FALSE
            /\ no.p.cached = worker[w].req.cached /\ no.p.n = 0 /\ no.p.m = 0
        BY Zenon DEF Reply
      <3> HIDE DEF no
      <3> QED BY <2>1, <2>2, <2>5, <3>1, <3>2, <1>FailInv, Zenon
    <2>7. CASE f # NoFile
      <3>1. worker' = [worker EXCEPT ![w] = st]
        BY <2>1, <2>7, Zenon
      <3> HIDE DEF f
      <3>2. st = Serving("call", worker[w].m, worker[w].req, worker[w].rest, f.size)
        <4>1. st = Sized(worker[w], f.size)
          BY Zenon DEF Sized
        <4> HIDE DEF st
        <4>2. Full(worker[w])
          BY <2>3, Zenon DEF CallingInv
        <4> QED BY <4>1, <4>2, <1>Resized, Zenon
      <3> HIDE DEF st
      <3>3. /\ st.pc = "call" /\ st.m = worker[w].m /\ st.req = worker[w].req
            /\ st.rest = worker[w].rest /\ st.size = f.size
        BY <3>2, Zenon DEF Serving
      <3>4. /\ worker' = [x \in Workers |-> worker'[x]] /\ worker'[w] = st
            /\ \A x \in Workers : x # w => worker'[x] = worker[x]
        <4>1. Shape
          BY Zenon DEF Inv
        <4> QED BY <3>1, <4>1, WorkerSet, Zenon
      <3>5. Busy(w) /\ Busy(w)' /\ Calling(w)'
        BY <2>1, <3>3, <3>4, Zenon DEF Busy, Calling
      <3>6. Work(w)' = Work(w)
        BY <3>3, <3>4, <3>5, Zenon DEF Work
      <3>7. CallingInv(w)'
        <4>1. Full(worker'[w])
          BY <3>2, <3>3, <3>4, Zenon DEF Full
        <4>2. worker'[w].pc # "size"
          BY <3>3, <3>4, ZenonT(30)
        <4>3. e \in issued' /\ e.id = worker'[w].m.id /\ Same(worker'[w].req, e.req) /\ e.req.cached
          BY <2>1, <2>4, <3>3, <3>4, ZenonT(60)
        <4> QED BY <4>1, <4>2, <4>3, Zenon DEF CallingInv
      <3>8. WorkerOK(w)'
        <4>1. worker'[w].pc = "call" /\ worker'[w].rest = <<>>
          BY <2>3, <3>3, <3>4, <3>5, Zenon DEF WorkerOK
        <4>2. worker'[w].pc \in {"recv", "size", "call", "reply", "exited"} /\ worker'[w].pc # "exited" /\ worker'[w].pc # "reply"
          BY <4>1, Zenon
        <4> QED BY <3>7, <4>1, <4>2, Zenon DEF WorkerOK
      <3> QED BY <2>1, <2>2, <3>3, <3>4, <3>6, <3>8, <1>WorkerMoves, Zenon
    <2> QED BY <2>6, <2>7, Zenon
  <1> QED BY <1>ExitInv, <1>CacheFailsInv, <1>GetFileSizeInv, Zenon

\* A worker that takes a message and reads it keeps the invariant: it reads the
\* request of the call, to the end.
LEMMA GetRequestKeeps ==
  \A w \in Workers : Inv /\ GetRequest(w) => Inv'
  \* The message moves from the worker's queue to its hands.
  <1>PlacesGet.
    ASSUME Shape, Places, NEW w \in Workers, inq[w] # <<>>, inq' = [inq EXCEPT ![w] = Tail(@)], front' = front,
           ~Busy(w), Work(w)' = {Head(inq[w])}, \A x \in Workers : x # w => Work(x)' = Work(x)
    PROVE  /\ Places' /\ \A x : Held(x)' <=> Held(x)
           /\ inq' \in [Workers -> Seq(Sent)] /\ Head(inq[w]) \in Sent /\ Head(inq[w]) \in Queue(w)
           /\ Front' = Front /\ \A x \in Workers : Queue(x)' \subseteq Queue(x)
    <2> USE <1>PlacesGet
    <2> DEFINE m == Head(inq[w])
    <2>1. inq'[w] = Tail(inq[w]) /\ (\A x \in Workers : x # w => inq'[x] = inq[x]) /\ inq[w] \in Seq(Sent)
      BY Zenon DEF Shape
    <2>2. /\ inq'[w] \in Seq(Sent) /\ m \in Sent /\ m \in Queue(w) /\ Queue(w)' = Queue(w) \ {m} /\ NoDup(inq'[w])
      <3>1. NoDup(inq[w])
        BY Zenon DEF Places
      <3>2. /\ Tail(inq[w]) \in Seq(Sent) /\ m \in Sent /\ m \in Items(inq[w])
            /\ Items(Tail(inq[w])) = Items(inq[w]) \ {m} /\ NoDup(Tail(inq[w]))
        BY <2>1, <3>1, ItemsTail, Zenon
      <3> QED BY <2>1, <3>2, Zenon DEF Queue
    <2>3. Work(w)' = {m}
      BY Zenon
    <2> HIDE DEF m
    <2>4. Front' = Front /\ (\A x \in Workers : x # w => Queue(x)' = Queue(x)) /\ Work(w) = {}
      BY <2>1, Zenon DEF Front, Queue, Work
    <2>5. inq' \in [Workers -> Seq(Sent)]
      BY <2>1, <2>2, Zenon DEF Shape
    <2>6. \A x \in Workers : NoDup(inq'[x])
      BY <2>1, <2>2, Zenon DEF Places
    <2>7. m \notin Front /\ \A x \in Workers : m \notin Work(x) /\ (x # w => m \notin Queue(x))
      BY <2>2, Zenon DEF Places
    <2>8. \A x \in Workers : Front' \cap Queue(x)' = {} /\ Front' \cap Work(x)' = {}
      <3> SUFFICES ASSUME NEW x \in Workers PROVE Front' \cap Queue(x)' = {} /\ Front' \cap Work(x)' = {}
        BY Zenon
      <3>1. Front \cap Queue(x) = {} /\ Front \cap Work(x) = {}
        BY Zenon DEF Places
      <3> QED BY <2>2, <2>3, <2>4, <2>7, <3>1, ZenonT(30)
    <2>9. \A x, y \in Workers : Queue(x)' \cap Work(y)' = {}
      <3> SUFFICES ASSUME NEW x \in Workers, NEW y \in Workers PROVE Queue(x)' \cap Work(y)' = {}
        BY Zenon
      <3>1. Queue(x) \cap Work(y) = {}
        BY Zenon DEF Places
      <3> QED BY <2>2, <2>3, <2>4, <2>7, <3>1, ZenonT(30)
    <2>10. \A x, y \in Workers : x # y => Queue(x)' \cap Queue(y)' = {} /\ Work(x)' \cap Work(y)' = {}
      <3> SUFFICES ASSUME NEW x \in Workers, NEW y \in Workers, x # y
                   PROVE  Queue(x)' \cap Queue(y)' = {} /\ Work(x)' \cap Work(y)' = {}
        BY Zenon
      <3>1. Queue(x) \cap Queue(y) = {} /\ Work(x) \cap Work(y) = {}
        BY Zenon DEF Places
      <3> QED BY <2>2, <2>3, <2>4, <2>7, <3>1, ZenonT(30)
    <2>11. Places'
      BY <2>4, <2>6, <2>8, <2>9, <2>10, Zenon DEF Places, Front
    <2>12. \A x : Held(x)' <=> Held(x)
      BY <2>2, <2>3, <2>4, Zenon DEF Held
    <2>13. \A x \in Workers : Queue(x)' \subseteq Queue(x)
      BY <2>2, <2>4, Zenon
    <2> QED BY <2>2, <2>4, <2>5, <2>11, <2>12, <2>13, Zenon DEF m
  <1>GetRequestInv.
    ASSUME Inv, NEW w \in Workers, GetRequest(w)
    PROVE  Inv'
    <2> USE <1>GetRequestInv
    <2> DEFINE m == Head(inq[w])
               g == getRequest(m.parts)
               pc == IF g.req.op = "READ_FILE" /\ g.req.cached THEN "size" ELSE "call"
               st == Serving(pc, m, g.req, g.rest, g.req.size)
    <2>1. /\ worker[w].pc = "recv" /\ inq[w] # <<>> /\ running
          /\ inq' = [inq EXCEPT ![w] = Tail(@)]
          /\ worker' = [worker EXCEPT ![w] = IF g.rc # "0" THEN [pc |-> "exited"] ELSE st]
          /\ UNCHANGED <<issued, call, result, sock, conn, replies, scenario, log, front, running>>
      BY Zenon DEF GetRequest, Goto, clientVars, Serving
    <2>2. Shape /\ Places /\ HeldInv /\ IssuedInv /\ LogInv
      BY Zenon DEF Inv
    <2>3. inq[w] \in Seq(Sent) /\ m \in Queue(w)
      <3>1. inq[w] \in Seq(Sent)
        BY <2>2, Zenon DEF Shape
      <3> QED BY <2>1, <3>1, ItemsTail, Zenon DEF Queue
    <2> HIDE DEF m
    <2>4. Held(m)
      BY <2>3, Zenon DEF Held
    <2>5. PICK e \in issued : e.id = m.id /\ m.parts = RequestFrames(e.req)
      BY <2>2, <2>4, Zenon DEF HeldInv
    <2>6. e.req \in Library
      BY <2>2, <2>5, Zenon DEF IssuedInv, CallRecords
    <2>7. g.rc = "0" /\ g.rest = <<>> /\ Same(g.req, e.req)
      BY <2>5, <2>6, WireFaithful, Zenon DEF RequestArrives
    <2> HIDE DEF g
    <2>8. worker' = [worker EXCEPT ![w] = st]
      BY <2>1, <2>7, Zenon
    <2>9. /\ st.pc = pc /\ st.m = m /\ st.req = g.req /\ st.rest = <<>> /\ st.size = g.req.size
      <3> HIDE DEF pc
      <3> QED BY <2>7, Zenon DEF Serving
    <2>10. Full(st)
      <3>1. st.rest = g.rest
        BY <2>7, <2>9, Zenon
      <3> HIDE DEF pc
      <3> QED BY <2>9, <3>1, Zenon DEF Full
    <2>11. pc \in {"size", "call"} /\ (pc = "size" => g.req.op = "READ_FILE" /\ g.req.cached)
      BY Zenon
    <2> HIDE DEF st, pc
    <2>12. /\ worker' = [x \in Workers |-> worker'[x]] /\ worker'[w] = st
           /\ \A x \in Workers : x # w => worker'[x] = worker[x]
      BY <2>2, <2>8, WorkerSet, Zenon
    <2>13. ~Busy(w) /\ ~Calling(w)
      BY <2>1, Zenon DEF Busy, Calling
    <2>14. Busy(w)' /\ Calling(w)'
      BY <2>9, <2>11, <2>12, Zenon DEF Busy, Calling
    <2>15. Work(w)' = {m}
      BY <2>9, <2>12, <2>14, Zenon DEF Work
    <2>16. \A x \in Workers : x # w => Work(x)' = Work(x) /\ Calling(x)' = Calling(x) /\ worker'[x] = worker[x]
      BY <2>12, SameWork, Zenon
    <2>17. /\ Places' /\ \A x : Held(x)' <=> Held(x)
           /\ inq' \in [Workers -> Seq(Sent)]
           /\ Front' = Front /\ \A x \in Workers : Queue(x)' \subseteq Queue(x)
      <3>1. front' = front /\ Work(w)' = {Head(inq[w])}
        BY <2>1, <2>15, Zenon DEF m
      <3> QED BY <2>1, <2>2, <2>13, <2>16, <3>1, <1>PlacesGet, Zenon
    <2>18. Shape'
      <3>1. UNCHANGED <<scenario, call, result, sock, conn, replies>> /\ front' \in Seq(Sent)
        BY <2>1, <2>2, Zenon DEF Shape
      <3> QED BY <2>12, <2>17, <3>1, ServerShape, Zenon
    <2>19. UNCHANGED <<issued, call, sock, conn, replies>> /\ log \subseteq log' /\ issued \subseteq issued' /\ log' = log /\ issued' = issued /\ (running' => running)
      BY <2>1, Zenon
    <2>20. IssuedInv' /\ HeldInv' /\ ClientInv'
      BY <2>17, <2>19, ClientsKept, Zenon
    <2>21. WorkerOK(w)'
      <3>1. CallingInv(w)'
        <4>1. Full(worker'[w])
          BY <2>10, <2>12, Zenon
        <4>2. worker'[w].pc = "size" => e.req.op = "READ_FILE" /\ e.req.cached
          BY <2>7, <2>9, <2>11, <2>12, Zenon DEF Same
        <4>3. worker'[w].size = e.req.size
          BY <2>7, <2>9, <2>12, Zenon DEF Same
        <4>4. e \in issued' /\ e.id = worker'[w].m.id /\ Same(worker'[w].req, e.req)
          BY <2>5, <2>7, <2>9, <2>12, <2>19, Zenon
        <4> QED BY <4>1, <4>2, <4>3, <4>4, Zenon DEF CallingInv
      <3>2. worker'[w].pc \in {"size", "call"} /\ worker'[w].rest = <<>>
        BY <2>9, <2>11, <2>12, Zenon
      <3>3. worker'[w].pc \in {"recv", "size", "call", "reply", "exited"} /\ worker'[w].pc # "exited" /\ worker'[w].pc # "reply"
        BY <3>2, Zenon
      <3> QED BY <3>1, <3>2, <3>3, Zenon DEF WorkerOK
    <2>22. WorkerInv'
      BY <2>8, <2>19, <2>21, WorkersKept, Zenon
    <2>23. LogInv'
      <3>1. \A x \in Workers : Calling(x)' => worker'[x].m = m \/ (Calling(x) /\ worker'[x].m = worker[x].m)
        BY <2>9, <2>12, <2>16, Zenon
      <3>2. \A x : Waits(x)' => Waits(x)
        BY <2>3, <2>17, <3>1, Zenon DEF Waits
      <3> QED BY <2>19, <3>2, LogKept, Zenon
    <2> QED BY <2>17, <2>18, <2>20, <2>22, <2>23, Zenon DEF Inv
  <1> QED BY <1>GetRequestInv, Zenon

\* The operations that change a file in place.
ModifyOps == {"APPEND_FILE", "OVERWRITE_FILE"}

\* What replies rely on in the outcome out of request r: a size within the range
\* that was asked for, data of reads only, and otherwise the size of the request.
Outcome(r, out) ==
    /\ out.ok \in BOOLEAN
    /\ out.ok /\ r.op = "READ_FILE_RANGE" => out.size \in Nat /\ out.size <= r.size
    /\ r.op \notin ReadOps => out.data = NoData
    /\ out.ok /\ r.op \notin ReadOps \cup SizeOps => out.size = r.size

\* The log entry of an execution, and a step of worker w that executes the call e
\* with outcome out and turns to the reply in st.
Entry(e, out) == [id |-> e.id, ok |-> out.ok, size |-> out.size, data |-> out.data]
Carries(w, e, out, st) ==
    /\ e \in issued /\ e.id = worker[w].m.id /\ out \in Effects(e.req, e.id, store)
    /\ store' = out.store /\ log' = log \cup {Entry(e, out)}
    /\ st.pc = "reply" /\ st.m = worker[w].m /\ st.rest = worker[w].rest
    /\ worker' = [worker EXCEPT ![w] = st] /\ Answers(st.p, e, log')

\* The worker's call of the proxy keeps the invariant, and is the execution of a
\* call that was not executed before in the abstract specification.
LEMMA CallProxyKeeps ==
  \A w \in Workers : Inv /\ CallProxy(w) => Inv' /\ Calls!Do
  \* The kinds of requests, by the operation of the proxy they lead to.
  <1>OpCases.
    ASSUME NEW r \in Library
    PROVE  \/ r.op = "WRITE_FILE" \/ r.op \in ReadOps \/ r.op = "DEL_FILE"
           \/ r.op \in ModifyOps \/ r.op = "RENAME_FILE" \/ r.op = "COPY_FILE" \/ r.op \in StatusOps \cup QueryOps
    <2>1. r.op \in FileOps \cup StatusOps \cup QueryOps
      BY LibraryFacts, Zenon
    <2> QED BY <2>1, Zenon DEF FileOps, ReadOps, ModifyOps
  <1>EffectsOf.
    ASSUME NEW r, NEW id, NEW st
    PROVE  /\ r.op = "WRITE_FILE" => Effects(r, id, st) = Fails(st) \cup writeFile(r, id, st)
           /\ r.op \in ReadOps => Effects(r, id, st) = Fails(st) \cup readFile(r, id, st)
           /\ r.op = "DEL_FILE" => Effects(r, id, st) = Fails(st) \cup deleteFile(r, id, st)
           /\ r.op \in ModifyOps => Effects(r, id, st) = Fails(st) \cup modifyFile(r, id, st)
           /\ r.op = "RENAME_FILE" => Effects(r, id, st) = Fails(st) \cup renameFile(r, id, st)
           /\ r.op = "COPY_FILE" => Effects(r, id, st) = Fails(st) \cup copyFile(r, id, st)
           /\ r.op \in StatusOps \cup QueryOps => Effects(r, id, st) = getStatus(r, id, st)
    <2> DEFINE x == r.op
               a == Fails(st)
               b1 == writeFile(r, id, st)
               b2 == readFile(r, id, st)
               b3 == deleteFile(r, id, st)
               b4 == modifyFile(r, id, st)
               b5 == renameFile(r, id, st)
               b6 == copyFile(r, id, st)
               b7 == getStatus(r, id, st)
    <2>1. Effects(r, id, st) = (IF x \in StatusOps \cup QueryOps THEN {} ELSE a) \cup
                               CASE x = "WRITE_FILE" -> b1
                                 [] x \in {"READ_FILE", "READ_FILE_RANGE"} -> b2
                                 [] x = "DEL_FILE" -> b3
                                 [] x \in {"APPEND_FILE", "OVERWRITE_FILE"} -> b4
                                 [] x = "RENAME_FILE" -> b5
                                 [] x = "COPY_FILE" -> b6
                                 [] OTHER -> b7
      BY Zenon DEF Effects
    <2> HIDE DEF x, a, b1, b2, b3, b4, b5, b6, b7
    <2>2. x = "WRITE_FILE" => Effects(r, id, st) = a \cup b1
      BY <2>1, Zenon DEF StatusOps, QueryOps
    <2>3. x \in ReadOps => Effects(r, id, st) = a \cup b2
      BY <2>1, Zenon DEF StatusOps, QueryOps, ReadOps
    <2>4. x = "DEL_FILE" => Effects(r, id, st) = a \cup b3
      BY <2>1, Zenon DEF StatusOps, QueryOps
    <2>5. x \in ModifyOps => Effects(r, id, st) = a \cup b4
      BY <2>1, Zenon DEF StatusOps, QueryOps, ModifyOps
    <2>6. x = "RENAME_FILE" => Effects(r, id, st) = a \cup b5
      BY <2>1, Zenon DEF StatusOps, QueryOps
    <2>7. x = "COPY_FILE" => Effects(r, id, st) = a \cup b6
      BY <2>1, Zenon DEF StatusOps, QueryOps
    <2>8. x \in StatusOps \cup QueryOps => Effects(r, id, st) = b7
      <3> SUFFICES ASSUME x \in StatusOps \cup QueryOps PROVE Effects(r, id, st) = b7
        BY Zenon
      <3>1. Effects(r, id, st) = {} \cup b7
        BY <2>1, Zenon DEF StatusOps, QueryOps
      <3> QED BY <3>1, Zenon
    <2> QED BY <2>2, <2>3, <2>4, <2>5, <2>6, <2>7, <2>8, Zenon DEF x, a, b1, b2, b3, b4, b5, b6, b7
  \* The request as read has the effects of the request that was sent.
  <1>EffectsSame.
    ASSUME NEW r \in Library, NEW q, Same(q, r), NEW id, NEW st
    PROVE  Effects(q, id, st) = Effects(r, id, st)
    <2> USE <1>EffectsSame
    <2>1. /\ q.op = r.op /\ q.size = r.size /\ q.offset = r.offset
          /\ r.op \in FileOps => q.name = r.name
          /\ r.op \in {"RENAME_FILE", "COPY_FILE"} => q.to = r.to
      BY Zenon DEF Same
    <2>2. CASE r.op = "WRITE_FILE"
      <3>1. writeFile(q, id, st) = writeFile(r, id, st)
        BY <2>1, <2>2, Zenon DEF writeFile, FileOps
      <3>2. q.op = "WRITE_FILE"
        BY <2>1, <2>2, Zenon
      <3>3. Effects(q, id, st) = Fails(st) \cup writeFile(q, id, st)
        BY <3>2, <1>EffectsOf, Zenon
      <3>4. Effects(r, id, st) = Fails(st) \cup writeFile(r, id, st)
        BY <2>2, <1>EffectsOf, ZenonT(60)
      <3> QED BY <3>1, <3>3, <3>4, Zenon
    <2>3. CASE r.op \in ReadOps
      <3>1. readFile(q, id, st) = readFile(r, id, st)
        BY <2>1, <2>3, Zenon DEF readFile, FileOps, ReadOps
      <3>2. q.op \in ReadOps
        BY <2>1, <2>3, Zenon
      <3>3. Effects(q, id, st) = Fails(st) \cup readFile(q, id, st)
        BY <3>2, <1>EffectsOf, Zenon
      <3>4. Effects(r, id, st) = Fails(st) \cup readFile(r, id, st)
        BY <2>3, <1>EffectsOf, ZenonT(60)
      <3> QED BY <3>1, <3>3, <3>4, Zenon
    <2>4. CASE r.op = "DEL_FILE"
      <3>1. deleteFile(q, id, st) = deleteFile(r, id, st)
        BY <2>1, <2>4, Zenon DEF deleteFile, FileOps
      <3>2. q.op = "DEL_FILE"
        BY <2>1, <2>4, Zenon
      <3>3. Effects(q, id, st) = Fails(st) \cup deleteFile(q, id, st)
        BY <3>2, <1>EffectsOf, Zenon
      <3>4. Effects(r, id, st) = Fails(st) \cup deleteFile(r, id, st)
        BY <2>4, <1>EffectsOf, ZenonT(60)
      <3> QED BY <3>1, <3>3, <3>4, Zenon
    <2>5. CASE r.op \in ModifyOps
      <3>1. modifyFile(q, id, st) = modifyFile(r, id, st)
        BY <2>1, <2>5, Zenon DEF modifyFile, FileOps, ModifyOps
      <3>2. q.op \in ModifyOps
        BY <2>1, <2>5, Zenon
      <3>3. Effects(q, id, st) = Fails(st) \cup modifyFile(q, id, st)
        BY <3>2, <1>EffectsOf, Zenon
      <3>4. Effects(r, id, st) = Fails(st) \cup modifyFile(r, id, st)
        BY <2>5, <1>EffectsOf, ZenonT(60)
      <3> QED BY <3>1, <3>3, <3>4, Zenon
    <2>6. CASE r.op = "RENAME_FILE"
      <3>1. renameFile(q, id, st) = renameFile(r, id, st)
        BY <2>1, <2>6, Zenon DEF renameFile, FileOps
      <3>2. q.op = "RENAME_FILE"
        BY <2>1, <2>6, Zenon
      <3>3. Effects(q, id, st) = Fails(st) \cup renameFile(q, id, st)
        BY <3>2, <1>EffectsOf, Zenon
      <3>4. Effects(r, id, st) = Fails(st) \cup renameFile(r, id, st)
        BY <2>6, <1>EffectsOf, Zenon
      <3> QED BY <3>1, <3>3, <3>4, Zenon
    <2>7. CASE r.op = "COPY_FILE"
      <3>1. copyFile(q, id, st) = copyFile(r, id, st)
        BY <2>1, <2>7, Zenon DEF copyFile, FileOps
      <3>2. q.op = "COPY_FILE"
        BY <2>1, <2>7, Zenon
      <3>3. Effects(q, id, st) = Fails(st) \cup copyFile(q, id, st)
        BY <3>2, <1>EffectsOf, Zenon
      <3>4. Effects(r, id, st) = Fails(st) \cup copyFile(r, id, st)
        BY <2>7, <1>EffectsOf, Zenon
      <3> QED BY <3>1, <3>3, <3>4, Zenon
    <2>8. CASE r.op \in StatusOps \cup QueryOps
      <3>1. getStatus(q, id, st) = getStatus(r, id, st)
        BY <2>1, Zenon DEF getStatus
      <3>2. q.op \in StatusOps \cup QueryOps
        BY <2>1, <2>8, Zenon
      <3>3. Effects(q, id, st) = getStatus(q, id, st)
        BY <3>2, <1>EffectsOf, ZenonT(60)
      <3>4. Effects(r, id, st) = getStatus(r, id, st)
        BY <2>8, <1>EffectsOf, ZenonT(60)
      <3> QED BY <3>1, <3>3, <3>4, Zenon
    <2> QED BY <2>2, <2>3, <2>4, <2>5, <2>6, <2>7, <2>8, <1>OpCases, Zenon
  \* What the operations of the proxy return.
  <1>Outcomes.
    ASSUME NEW r \in Library, NEW id, NEW st, NEW out \in Effects(r, id, st)
    PROVE  Outcome(r, out)
    <2>1. ASSUME out \in Fails(st)
          PROVE  Outcome(r, out)
      <3>1. out.ok = FALSE /\ out.data = NoData
        BY <2>1 DEF Fails, Out
      <3> QED BY <3>1, Zenon DEF Outcome
    <2>2. ASSUME NEW s, out = Out(TRUE, s, r.size, NoData), r.op # "READ_FILE_RANGE"
          PROVE  Outcome(r, out)
      <3>1. out.ok = TRUE /\ out.data = NoData /\ out.size = r.size
        BY <2>2, Zenon DEF Out
      <3> QED BY <2>2, <3>1, Zenon DEF Outcome
    <2>3. CASE r.op = "WRITE_FILE"
      <3>1. out \in Fails(st) \cup writeFile(r, id, st)
        BY <2>3, <1>EffectsOf, Zenon
      <3> QED BY <2>1, <2>2, <2>3, <3>1, Zenon DEF writeFile
    <2>4. CASE r.op = "DEL_FILE"
      <3>1. out \in Fails(st) \cup deleteFile(r, id, st)
        BY <2>4, <1>EffectsOf, Zenon
      <3> QED BY <2>1, <2>2, <2>4, <3>1, Zenon DEF deleteFile
    <2>5. CASE r.op = "RENAME_FILE"
      <3>1. out \in Fails(st) \cup renameFile(r, id, st)
        BY <2>5, <1>EffectsOf, Zenon
      <3> QED BY <2>1, <2>2, <2>5, <3>1, Zenon DEF renameFile
    <2>6. CASE r.op = "COPY_FILE"
      <3>1. out \in Fails(st) \cup copyFile(r, id, st)
        BY <2>6, <1>EffectsOf, Zenon
      <3> QED BY <2>1, <2>2, <2>6, <3>1, Zenon DEF copyFile
    <2>7. CASE r.op \in ModifyOps
      <3>1. out \in Fails(st) \cup modifyFile(r, id, st)
        BY <2>7, <1>EffectsOf, Zenon
      <3>2. ASSUME NEW s, NEW z, out = Out(TRUE, s, z, NoData)
            PROVE  Outcome(r, out)
        <4>1. out.ok = TRUE /\ out.data = NoData
          BY <3>2, Zenon DEF Out
        <4>2. r.op # "READ_FILE_RANGE" /\ r.op \in SizeOps
          BY <2>7, Zenon DEF ModifyOps, SizeOps
        <4> QED BY <4>1, <4>2, Zenon DEF Outcome
      <3>3. out \in modifyFile(r, id, st) => \E s, z : out = Out(TRUE, s, z, NoData)
        BY Zenon DEF modifyFile
      <3> QED BY <2>1, <3>1, <3>2, <3>3, Zenon
    <2>8. CASE r.op \in StatusOps \cup QueryOps
      <3>1. out \in getStatus(r, id, st)
        BY <2>8, <1>EffectsOf, Zenon
      <3>2. r.op # "READ_FILE_RANGE"
        BY <2>8, Zenon DEF StatusOps, QueryOps
      <3>3. CASE r.op \in SizeOps
        <4>1. out \in {Out(TRUE, st, 1, NoData), Out(FALSE, st, 0, NoData)}
          BY <2>8, <3>1, <3>3, Zenon DEF SizeOps, StatusOps, QueryOps, getStatus
        <4>2. out.ok \in BOOLEAN /\ out.data = NoData
          <5>1. out = Out(TRUE, st, 1, NoData) => out.ok = TRUE /\ out.data = NoData
            BY DEF Out
          <5>2. out = Out(FALSE, st, 0, NoData) => out.ok = FALSE /\ out.data = NoData
            BY DEF Out
          <5> QED BY <4>1, <5>1, <5>2, Zenon
        <4> QED BY <3>2, <3>3, <4>2, Zenon DEF Outcome
      <3>4. CASE r.op \notin SizeOps
        <4>1. out = Out(TRUE, st, r.size, NoData)
          BY <3>1, <3>4, Zenon DEF SizeOps, getStatus
        <4> QED BY <2>2, <3>2, <4>1, Zenon
      <3> QED BY <3>3, <3>4, Zenon
    <2>9. CASE r.op = "READ_FILE"
      <3>1. out \in Fails(st) \cup readFile(r, id, st)
        BY <2>9, <1>EffectsOf, Zenon DEF ReadOps
      <3> DEFINE f == st[r.name]
      <3>2. out \in readFile(r, id, st) => out = Out(TRUE, st, f.size, f.v)
        BY <2>9, Zenon DEF readFile
      <3>3. ASSUME NEW z, NEW d, out = Out(TRUE, st, z, d)
            PROVE  Outcome(r, out)
        <4>1. out.ok = TRUE
          BY <3>3, Zenon DEF Out
        <4>2. r.op # "READ_FILE_RANGE" /\ r.op \in ReadOps
          BY <2>9, Zenon DEF ReadOps
        <4> QED BY <4>1, <4>2, Zenon DEF Outcome
      <3> QED BY <2>1, <3>1, <3>2, <3>3, Zenon
    <2>10. CASE r.op = "READ_FILE_RANGE"
      <3>1. out \in Fails(st) \cup readFile(r, id, st)
        BY <2>10, <1>EffectsOf, Zenon DEF ReadOps
      <3>0. r.size \in Nat
        BY LibraryFacts, Zenon
      <3> DEFINE f == st[r.name]
      <3>2. out \in readFile(r, id, st) => \E n \in 0 .. r.size : \E d : out = Out(TRUE, st, n, d)
        <4> SUFFICES ASSUME out \in readFile(r, id, st)
                     PROVE  \E n \in 0 .. r.size : \E d : out = Out(TRUE, st, n, d)
          BY Zenon
        <4>1. \/ out \in {Out(TRUE, st, r.size, Garbage)}
              \/ out \in {Out(TRUE, st, n, f.v) : n \in {n \in 0 .. r.size : r.offset + n <= f.size}}
          BY <2>10, Zenon DEF readFile
        <4>2. r.size \in 0 .. r.size
          BY <3>0
        <4> QED BY <4>1, <4>2, Zenon
      <3>3. ASSUME NEW n \in 0 .. r.size, NEW d, out = Out(TRUE, st, n, d)
            PROVE  Outcome(r, out)
        <4>1. out.ok = TRUE /\ out.size = n
          BY <3>3, Zenon DEF Out
        <4>2. r.op \in ReadOps
          BY <2>10, Zenon DEF ReadOps
        <4>3. n \in Nat /\ n <= r.size
          BY <3>0
        <4> QED BY <4>1, <4>2, <4>3, Zenon DEF Outcome
      <3> QED BY <2>1, <3>1, <3>2, <3>3, Zenon
    <2> QED BY <2>3, <2>4, <2>5, <2>6, <2>7, <2>8, <2>9, <2>10, <1>OpCases, Zenon DEF ReadOps
  \* The reply that the worker makes of an outcome is a true answer.
  <1>CallReply.
    ASSUME NEW e \in CallRecords, NEW out, Outcome(e.req, out), NEW done, NEW size, ~e.req.cached => size = e.req.size,
           NEW n, Few(n), NEW l \in done, l.id = e.id, l.ok = out.ok, l.size = out.size, l.data = out.data,
           NEW p, p.op = e.req.op, p.ok = out.ok, p.cached = e.req.cached, p.n = n, p.m = n, p.data = out.data,
           p.size = IF e.req.op = "READ_FILE" /\ out.size = 0 THEN size ELSE out.size
    PROVE  Answers(p, e, done)
    <2> USE <1>CallReply
    <2> DEFINE r == e.req
    <2>1. r \in Library
      BY Zenon DEF CallRecords
    <2>2. /\ r.op \in FileOps \cup StatusOps \cup QueryOps /\ r.cached \in BOOLEAN /\ r.size \in Nat
          /\ r.op \notin SizedOps => r.size = 0
      BY <2>1, LibraryFacts, Zenon
    <2> HIDE DEF r
    <2>3. Answer(p)
      BY <2>2, Zenon DEF Answer, Ops, Outcome, r
    <2>4. Bounded(p, r)
      <3> SUFFICES ASSUME p.ok, r.op = "READ_FILE_RANGE"
                   PROVE  p.size \in Nat /\ r.size \in Nat /\ p.size <= r.size
        BY Zenon DEF Bounded
      <3>1. out.size \in Nat /\ out.size <= r.size
        BY Zenon DEF Outcome, r
      <3>2. p.size = out.size
        <4>1. r.op # "READ_FILE"
          BY Zenon
        <4> QED BY <4>1, Zenon DEF r
      <3> QED BY <2>2, <3>1, <3>2, Zenon
    <2>5. p.size = out.size \/ (r.op = "READ_FILE" /\ out.size = 0 /\ p.size = size)
      BY Zenon DEF r
    <2>6. ~p.cached => p.size = out.size
      <3> SUFFICES ASSUME ~p.cached, r.op = "READ_FILE", out.size = 0, p.size = size
                   PROVE  p.size = out.size
        BY <2>5, Zenon
      <3>1. size = r.size
        BY Zenon DEF r
      <3>2. r.op \notin SizedOps
        BY Zenon DEF SizedOps
      <3> QED BY <2>2, <3>1, <3>2, Zenon
    <2>7. Told(p, e, done)
      <3> SUFFICES ASSUME p.ok, ~p.cached
                   PROVE  /\ l.size = (IF HasSize(p) THEN p.size ELSE r.size)
                          /\ l.data = (IF HasData(p) THEN p.data ELSE <<>>)
        BY Zenon DEF Told, r
      <3>1. out.ok /\ p.op = r.op
        BY Zenon DEF r
      <3>2. CASE r.op \in ReadOps
        <4>1. HasSize(p) /\ HasData(p)
          BY <3>1, <3>2, Zenon DEF HasSize, HasData
        <4> QED BY <2>6, <4>1, Zenon
      <3>3. CASE r.op \notin ReadOps
        <4>1. ~HasData(p) /\ out.data = <<>>
          BY <3>1, <3>3, Zenon DEF HasData, Outcome, NoData, r
        <4>2. CASE r.op \in SizeOps
          <5>1. HasSize(p)
            BY <3>1, <4>2, Zenon DEF HasSize
          <5> QED BY <2>6, <4>1, <5>1, Zenon
        <4>3. CASE r.op \notin SizeOps
          <5>1. ~HasSize(p) /\ out.size = r.size
            BY <3>1, <3>3, <4>3, Zenon DEF HasSize, Outcome, r
          <5> QED BY <4>1, <5>1, Zenon
        <4> QED BY <4>2, <4>3, Zenon
      <3> QED BY <3>2, <3>3, Zenon
    <2> QED BY <2>3, <2>4, <2>7, Zenon DEF Answers, r
  \* The step executes the call of the message that the worker holds.
  <1>CallProxyStep.
    ASSUME Inv, NEW w \in Workers, CallProxy(w)
    PROVE  /\ Calling(w) /\ \E e, out, st : Carries(w, e, out, st)
           /\ UNCHANGED <<issued, call, result, sock, conn, replies, scenario, front, inq, running>>
    <2> USE <1>CallProxyStep
    <2> DEFINE r == worker[w].req
               size(out) == IF r.op = "READ_FILE" /\ out.size = 0 THEN worker[w].size ELSE out.size
    <2>1. /\ worker[w].pc = "call"
          /\ UNCHANGED <<issued, call, result, sock, conn, replies, scenario, front, inq, running>>
      BY Zenon DEF CallProxy, clientVars
    <2>2. Calling(w)
      BY <2>1, Zenon DEF Calling
    <2>3. PICK e \in issued : /\ e.id = worker[w].m.id /\ Same(r, e.req)
                              /\ ~e.req.cached => worker[w].size = e.req.size
      BY <2>2, Zenon DEF Inv, WorkerInv, WorkerOK, CallingInv
    <2>4. e \in CallRecords /\ e.req \in Library
      <3>1. e \in CallRecords
        BY Zenon DEF Inv, IssuedInv
      <3> QED BY <3>1, Zenon DEF CallRecords
    <2>5. r.op = e.req.op /\ r.cached = e.req.cached /\ r.op # Garbage
      BY <2>3, <2>4, GatewayAssumption, Zenon DEF Same
    <2> DEFINE Done(out, n) ==
               /\ out \in Effects(r, worker[w].m.id, store) /\ Few(n)
               /\ store' = out.store
               /\ log' = log \cup {[id |-> worker[w].m.id, ok |-> out.ok, size |-> out.size, data |-> out.data]}
               /\ worker' = [worker EXCEPT ![w] = Reply(w, Succeeds(out), size(out), out.data, n)]
    <2>0. PICK out, n : Done(out, n)
      <3> DEFINE unknown == Goto(w, Reply(w, FALSE, 0, NoData, 0)) /\ UNCHANGED <<store, log>>
                 known == \E out \in Effects(r, worker[w].m.id, store), n \in {0, 1} :
                     /\ n = 0 \/ r.op \in {"GET_FILE_LIST", "GET_AGENT_STATUS", "GET_BG_TASK_PRG"}
                     /\ store' = out.store
                     /\ log' = log \cup {[id |-> worker[w].m.id, ok |-> out.ok,
                                          size |-> out.size, data |-> out.data]}
                     /\ Goto(w, Reply(w, Succeeds(out), size(out), out.data, n))
      <3>1. IF r.op = Garbage THEN unknown ELSE known
        BY Zenon DEF CallProxy
      <3> HIDE DEF unknown, known
      <3>2. known
        BY <2>5, <3>1, Zenon
      <3> HIDE DEF size
      <3>3. ASSUME NEW out \in Effects(r, worker[w].m.id, store), NEW n \in {0, 1}, store' = out.store,
                   log' = log \cup {[id |-> worker[w].m.id, ok |-> out.ok, size |-> out.size, data |-> out.data]},
                   Goto(w, Reply(w, Succeeds(out), size(out), out.data, n))
            PROVE  Done(out, n)
        <4>1. Few(n)
          BY Zenon DEF Few
        <4> QED BY <3>3, <4>1, Zenon DEF Goto
      <3> HIDE DEF Done
      <3> QED BY <3>2, <3>3, Zenon DEF known
    <2>6. /\ out \in Effects(r, worker[w].m.id, store) /\ Few(n)
          /\ store' = out.store
          /\ log' = log \cup {[id |-> worker[w].m.id, ok |-> out.ok, size |-> out.size, data |-> out.data]}
          /\ worker' = [worker EXCEPT ![w] = Reply(w, Succeeds(out), size(out), out.data, n)]
      BY <2>0, Zenon
    <2> HIDE DEF Done
    <2>7. out \in Effects(e.req, e.id, store)
      <3>1. \A id, fs : Effects(r, id, fs) = Effects(e.req, id, fs)
        <4> HIDE DEF r
        <4> QED BY <2>3, <2>4, <1>EffectsSame, Zenon
      <3>2. out \in Effects(r, e.id, store)
        BY <2>3, <2>6, Zenon
      <3> QED BY <3>1, <3>2, Zenon
    <2>8. Outcome(e.req, out)
      BY <2>4, <2>7, <1>Outcomes, Zenon
    <2>9. Few(n)
      BY <2>6, Zenon
    <2> DEFINE st == Reply(w, out.ok, size(out), out.data, n)
    <2>10. worker' = [worker EXCEPT ![w] = st]
      BY <2>6, Zenon DEF Succeeds
    <2>11. /\ st.pc = "reply" /\ st.m = worker[w].m /\ st.rest = worker[w].rest
           /\ st.p.op = r.op /\ st.p.ok = out.ok /\ st.p.size = size(out)
           /\ st.p.cached = r.cached /\ st.p.data = out.data /\ st.p.n = n /\ st.p.m = n
      <3> DEFINE sz == size(out)
      <3> HIDE DEF sz, size
      <3>1. st = Reply(w, out.ok, sz, out.data, n)
        BY Zenon DEF sz
      <3> HIDE DEF st
      <3>2. /\ st.pc = "reply" /\ st.m = worker[w].m /\ st.rest = worker[w].rest
           /\ st.p.op = r.op /\ st.p.ok = out.ok /\ st.p.size = sz
           /\ st.p.cached = r.cached /\ st.p.data = out.data /\ st.p.n = n /\ st.p.m = n
        BY <3>1, ZenonT(30) DEF Reply
      <3> QED BY <3>2, Zenon DEF sz
    <2> HIDE DEF st
    <2>12. log' = log \cup {Entry(e, out)}
      BY <2>3, <2>6, Zenon DEF Entry
    <2> DEFINE l == Entry(e, out)
    <2>13. l.id = e.id /\ l.ok = out.ok /\ l.size = out.size /\ l.data = out.data
      BY Zenon DEF Entry
    <2> HIDE DEF l
    <2>14. l \in log'
      BY <2>12, Zenon DEF l
    <2>15. st.p.size = IF e.req.op = "READ_FILE" /\ out.size = 0 THEN worker[w].size ELSE out.size
      BY <2>5, <2>11, Zenon
    <2> HIDE DEF size
    <2>16. Answers(st.p, e, log')
      <3> DEFINE p == st.p
                 sz == worker[w].size
      <3>1. /\ p.op = e.req.op /\ p.ok = out.ok /\ p.cached = e.req.cached /\ p.n = n /\ p.m = n /\ p.data = out.data
            /\ p.size = IF e.req.op = "READ_FILE" /\ out.size = 0 THEN sz ELSE out.size
        BY <2>5, <2>11, <2>15, Zenon
      <3>2. ~e.req.cached => sz = e.req.size
        BY <2>3, Zenon
      <3> HIDE DEF p, sz
      <3>3. Answers(p, e, log')
        BY <2>4, <2>8, <2>9, <2>13, <2>14, <3>1, <3>2, <1>CallReply, Zenon
      <3> QED BY <3>3, Zenon DEF p
    <2>17. Carries(w, e, out, st)
      BY <2>3, <2>6, <2>7, <2>10, <2>11, <2>12, <2>16, Zenon DEF Carries
    <2> QED BY <2>1, <2>2, <2>17, Zenon
  \* The invariant is kept: the message leaves those without an entry in the log.
  <1>CallProxyInv.
    ASSUME Inv, NEW w \in Workers, CallProxy(w)
    PROVE  Inv'
    <2> USE <1>CallProxyInv
    <2>1. /\ Calling(w) /\ \E e, out, st : Carries(w, e, out, st)
          /\ UNCHANGED <<issued, call, result, sock, conn, replies, scenario, front, inq, running>>
      BY <1>CallProxyStep, Zenon
    <2>2. PICK e, out, st : Carries(w, e, out, st)
      BY <2>1, Zenon
    <2>3. Shape /\ Places /\ HeldInv /\ LogInv
      BY Zenon DEF Inv
    <2>4. /\ e \in issued /\ e.id = worker[w].m.id /\ log' = log \cup {Entry(e, out)}
          /\ st.pc = "reply" /\ st.m = worker[w].m /\ st.rest = worker[w].rest
          /\ worker' = [worker EXCEPT ![w] = st] /\ Answers(st.p, e, log')
      BY <2>2, Zenon DEF Carries
    <2>5. Entry(e, out).id = e.id
      BY Zenon DEF Entry
    <2>6. UNCHANGED <<issued, call, sock, conn, replies>> /\ log \subseteq log' /\ issued' = issued /\ (running' => running) /\ e \in issued'
      BY <2>1, <2>4, Zenon
    <2>7. /\ WorkerOK(w)' /\ Work(w)' = Work(w) /\ ~Calling(w)' /\ Busy(w)
          /\ worker' = [x \in Workers |-> worker'[x]]
          /\ \A x \in Workers : x # w => worker'[x] = worker[x]
      BY <2>1, <2>4, <2>6, ReplyGiven, Zenon
    <2>8. \A x \in Workers : Work(x)' = Work(x)
      BY <2>7, SameWork, Zenon
    <2>9. /\ Places' /\ \A x : Held(x)' <=> Held(x)
          /\ Front' = Front /\ \A x \in Workers : Queue(x)' = Queue(x)
      BY <2>1, <2>3, <2>8, PlacesStay, Zenon
    <2>10. Shape'
      <3>1. UNCHANGED <<scenario, call, result, sock, conn, replies>> /\ front' \in Seq(Sent) /\ inq' \in [Workers -> Seq(Sent)]
        BY <2>1, <2>3, Zenon DEF Shape
      <3> QED BY <2>7, <3>1, ServerShape, Zenon
    <2>11. IssuedInv' /\ HeldInv' /\ ClientInv'
      BY <2>6, <2>9, ClientsKept, Zenon
    <2>12. WorkerInv'
      BY <2>4, <2>6, <2>7, WorkersKept, Zenon
    <2>13. LogInv'
      <3> DEFINE m == worker[w].m
      <3>1. m \in Work(w) /\ Held(m)
        BY <2>7, Zenon DEF Work, Held
      <3> HIDE DEF m
      <3>2. m \notin Front /\ (\A x \in Workers : m \notin Queue(x)) /\ \A x \in Workers : x # w => m \notin Work(x)
        BY <2>3, <3>1, ZenonT(30) DEF Places
      <3>3. \A x \in Workers : Calling(x) => Work(x) = {worker[x].m}
        BY Zenon DEF Calling, Busy, Work
      <3>4. ASSUME NEW x, Waits(x)'
            PROVE  Waits(x) /\ Held(x) /\ x # m
        <4>1. \A y \in Workers : Calling(y)' => y # w /\ Calling(y) /\ worker'[y].m = worker[y].m
          BY <2>7, SameWork, Zenon
        <4>2. CASE x \in Front \/ \E y \in Workers : x \in Queue(y)
          BY <3>2, <4>2, Zenon DEF Waits, Held
        <4>3. CASE \E y \in Workers : y # w /\ Calling(y) /\ x = worker[y].m
          BY <3>2, <3>3, <4>3, Zenon DEF Waits, Held
        <4> QED BY <2>9, <3>4, <4>1, <4>2, <4>3, Zenon DEF Waits
      <3>5. ASSUME NEW x, Waits(x)'
            PROVE  Undone(x)'
        <4>1. Undone(x) /\ x.id # m.id
          BY <2>3, <3>1, <3>4, <3>5, Zenon DEF LogInv, HeldInv
        <4> QED BY <2>4, <2>5, <4>1, Zenon DEF Undone, m
      <3>6. \A l \in log' : \E f \in issued' : f.id = l.id
        BY <2>3, <2>4, <2>5, <2>6, Zenon DEF LogInv
      <3> QED BY <3>5, <3>6, Zenon DEF LogInv
    <2> QED BY <2>9, <2>10, <2>11, <2>12, <2>13, Zenon DEF Inv
  \* The step is a Do of the abstract specification.
  <1>CallProxyCalls.
    ASSUME Inv, NEW w \in Workers, CallProxy(w)
    PROVE  Calls!Do
    <2> USE <1>CallProxyCalls
    <2>1. /\ Calling(w) /\ \E e, out, st : Carries(w, e, out, st)
          /\ UNCHANGED <<issued, call, result>>
      BY <1>CallProxyStep, Zenon
    <2>2. PICK e, out, st : Carries(w, e, out, st)
      BY <2>1, Zenon
    <2>3. /\ e \in issued /\ e.id = worker[w].m.id /\ out \in Effects(e.req, e.id, store)
          /\ store' = out.store
          /\ log' = log \cup {[id |-> e.id, ok |-> out.ok, size |-> out.size, data |-> out.data]}
      BY <2>2, Zenon DEF Carries, Entry
    <2>4. \A l \in log : l.id # e.id
      <3>1. Waits(worker[w].m)
        BY <2>1, Zenon DEF Waits
      <3> QED BY <2>3, <3>1, Zenon DEF Inv, LogInv, Undone
    <2>5. \E o \in Effects(e.req, e.id, store) :
                /\ store' = o.store
                /\ log' = log \cup {[id |-> e.id, ok |-> o.ok, size |-> o.size, data |-> o.data]}
      BY <2>3, Zenon
    <2> QED BY <2>1, <2>3, <2>4, <2>5, Zenon DEF Calls!Do
  <1> QED BY <1>CallProxyInv, <1>CallProxyCalls, Zenon

\* Sending a reply, or dropping it for a connection that is gone, keeps the
\* invariant.
LEMMA SendReplyKeeps ==
  \A w \in Workers : Inv /\ SendReply(w) => Inv'
  \* The message is no longer on its way.
  <1>PlacesDone.
    ASSUME Places, NEW w \in Workers, front' = front, inq' = inq, Busy(w), Work(w)' = {},
           \A x \in Workers : x # w => Work(x)' = Work(x)
    PROVE  /\ Places' /\ \A x : Held(x)' <=> Held(x) /\ x # worker[w].m
           /\ Front' = Front /\ \A x \in Workers : Queue(x)' = Queue(x)
    <2> USE <1>PlacesDone
    <2>1. Front' = Front /\ (\A x \in Workers : Queue(x)' = Queue(x)) /\ Work(w) = {worker[w].m}
      BY Zenon DEF Front, Queue, Work
    <2>2. \A x \in Workers : Work(x)' \subseteq Work(x)
      BY Zenon
    <2>3. \A x, y \in Workers : Queue(x)' \cap Work(y)' = {}
      BY <2>1, <2>2, ZenonT(30) DEF Places
    <2>4. \A x \in Workers : Front' \cap Queue(x)' = {} /\ Front' \cap Work(x)' = {}
      BY <2>1, <2>2, ZenonT(30) DEF Places
    <2>5. \A x, y \in Workers : x # y => Queue(x)' \cap Queue(y)' = {} /\ Work(x)' \cap Work(y)' = {}
      BY <2>1, <2>2, ZenonT(30) DEF Places
    <2>6. Places'
      BY <2>3, <2>4, <2>5, Zenon DEF Places
    <2> DEFINE m == worker[w].m
    <2>7. m \notin Front /\ (\A x \in Workers : m \notin Queue(x)) /\ \A x \in Workers : x # w => m \notin Work(x)
      BY <2>1, Zenon DEF Places
    <2> HIDE DEF m
    <2>8. \A x : Held(x)' <=> Held(x) /\ x # m
      BY <2>1, <2>7, Zenon DEF Held, m
    <2> QED BY <2>1, <2>6, <2>8, Zenon DEF m
  \* What SendReply does, given that the socket takes the reply as one message and
  \* that nothing of the request is left unread.
  <1>SendReplyStep.
    ASSUME Inv, NEW w \in Workers, SendReply(w)
    PROVE  LET m == worker[w].m
           IN  /\ Busy(w) /\ Held(m) /\ m \in Sent
               /\ inq' = inq
               /\ \E e \in issued : \E p :
                     /\ e.id = m.id /\ Answers(p, e, log)
                     /\ replies' = IF running /\ m.conn = conn[m.id[1]]
                                   THEN [replies EXCEPT ![m.id[1]] = Append(@, ReplyFrames(p))] ELSE replies
               /\ worker' = [worker EXCEPT ![w] = IF running THEN Waiting ELSE [pc |-> "exited"]]
               /\ UNCHANGED <<issued, call, result, sock, conn, scenario, log, front, running>>
    <2> USE <1>SendReplyStep
    <2> DEFINE m == worker[w].m
               p == worker[w].p
               g == Message(ReplyFrames(p))
               c == m.id[1]
               rest == worker[w].rest
    <2>1. /\ worker[w].pc = "reply"
          /\ inq' = IF rest = <<>> THEN inq
                    ELSE [inq EXCEPT ![w] = <<[m EXCEPT !.parts = rest]>> \o @]
          /\ replies' = IF rest = <<>> /\ g.whole /\ running /\ m.conn = conn[c]
                        THEN [replies EXCEPT ![c] = Append(@, g.parts)]
                        ELSE replies
          /\ worker' = [worker EXCEPT ![w] = IF ~running \/ (rest = <<>> /\ ~g.whole) THEN [pc |-> "exited"] ELSE Waiting]
          /\ UNCHANGED <<issued, call, result, sock, conn, scenario, log, front, running>>
      BY Zenon DEF SendReply, Goto, clientVars
    <2>2. Busy(w)
      BY <2>1, Zenon DEF Busy
    <2>3. Held(m)
      BY <2>2, Zenon DEF Held, Work
    <2>4. m \in Sent
      BY <2>3, Zenon DEF Inv, HeldInv
    <2>5. rest = <<>> /\ \E e \in issued : e.id = m.id /\ Answers(p, e, log)
      BY <2>1, <2>2, Zenon DEF Inv, WorkerInv, WorkerOK
    <2>6. Answer(p)
      BY <2>5, Zenon DEF Answers
    <2>7. g = [whole |-> TRUE, parts |-> ReplyFrames(p), over |-> FALSE]
      <3> HIDE DEF p
      <3> QED BY <2>6, WireFaithful, Zenon DEF ReplyArrives
    <2> HIDE DEF g, rest
    <2>8. g.whole /\ g.parts = ReplyFrames(p)
      BY <2>7, Zenon
    <2>9. inq' = inq
      BY <2>1, <2>5, Zenon
    <2>10. replies' = IF running /\ m.conn = conn[c] THEN [replies EXCEPT ![c] = Append(@, ReplyFrames(p))] ELSE replies
      <3> HIDE DEF m, p, c
      <3>1. replies' = IF running /\ m.conn = conn[c] THEN [replies EXCEPT ![c] = Append(@, g.parts)] ELSE replies
        BY <2>1, <2>5, <2>8, Zenon
      <3> QED BY <2>8, <3>1, Zenon
    <2>11. worker' = [worker EXCEPT ![w] = IF running THEN Waiting ELSE [pc |-> "exited"]]
      <3>1. (IF ~running \/ (rest = <<>> /\ ~g.whole) THEN [pc |-> "exited"] ELSE Waiting) = IF running THEN Waiting ELSE [pc |-> "exited"]
        BY <2>8, Zenon
      <3> QED BY <2>1, <3>1, Zenon
    <2> HIDE DEF p
    <2> QED BY <2>1, <2>2, <2>3, <2>4, <2>5, <2>9, <2>10, <2>11, Zenon
  \* The client that gets the reply waits for it, has no other reply, and no message
  \* of its connection is left.
  <1>SendReplyInv.
    ASSUME Inv, NEW w \in Workers, SendReply(w)
    PROVE  Inv'
    <2> USE <1>SendReplyInv
    <2> DEFINE m == worker[w].m
               c == m.id[1]
               st == IF running THEN Waiting ELSE [pc |-> "exited"]
    <2>1. /\ Busy(w) /\ Held(m) /\ m \in Sent
          /\ inq' = inq
          /\ \E e \in issued : \E p :
                /\ e.id = m.id /\ Answers(p, e, log)
                /\ replies' = IF running /\ m.conn = conn[c] THEN [replies EXCEPT ![c] = Append(@, ReplyFrames(p))] ELSE replies
          /\ worker' = [worker EXCEPT ![w] = st]
          /\ UNCHANGED <<issued, call, result, sock, conn, scenario, log, front, running>>
      BY <1>SendReplyStep, Zenon
    <2>2. PICK e, p :
                /\ e \in issued /\ e.id = m.id /\ Answers(p, e, log)
                /\ replies' = IF running /\ m.conn = conn[c] THEN [replies EXCEPT ![c] = Append(@, ReplyFrames(p))] ELSE replies
      BY <2>1, Zenon
    <2>3. Shape /\ Places /\ HeldInv /\ IssuedInv /\ ClientInv
      BY Zenon DEF Inv
    <2>4. c \in Clients
      BY <2>1, Zenon DEF Sent
    <2>5. (running => st.pc = "recv") /\ (~running => st.pc = "exited")
      BY Zenon DEF Waiting
    <2> HIDE DEF m, st
    <2>6. /\ worker' = [x \in Workers |-> worker'[x]] /\ worker'[w] = st
          /\ \A x \in Workers : x # w => worker'[x] = worker[x]
      BY <2>1, <2>3, WorkerSet, Zenon
    <2>7. ~Busy(w)' /\ ~Calling(w)' /\ WorkerOK(w)'
      <3>1. worker'[w].pc = "recv" \/ (worker'[w].pc = "exited" /\ ~running')
        BY <2>1, <2>5, <2>6, Zenon
      <3>2. ~Busy(w)' /\ ~Calling(w)'
        BY <3>1, Zenon DEF Busy, Calling
      <3>3. worker'[w].pc \in {"recv", "size", "call", "reply", "exited"} /\ worker'[w].pc # "reply"
        BY <3>1, Zenon
      <3> QED BY <3>1, <3>2, <3>3, ZenonT(30) DEF WorkerOK
    <2>8. Work(w)' = {} /\ \A x \in Workers : x # w => Work(x)' = Work(x) /\ Calling(x)' = Calling(x)
      BY <2>6, <2>7, SameWork, Zenon DEF Work
    <2>9. /\ Places' /\ \A x : Held(x)' <=> Held(x) /\ x # m
          /\ Front' = Front /\ \A x \in Workers : Queue(x)' = Queue(x)
      <3>1. front' = front /\ inq' = inq
        BY <2>1, Zenon
      <3> QED BY <2>1, <2>3, <2>8, <3>1, <1>PlacesDone, Zenon DEF m
    <2>10. /\ issued \subseteq issued' /\ log \subseteq log' /\ log' = log /\ issued' = issued /\ (running' => running)
           /\ conn' = conn /\ sock' = sock /\ call' = call /\ front' = front /\ inq' = inq
      BY <2>1, Zenon
    <2> HIDE DEF c
    <2>11. /\ replies' = [d \in Clients |-> replies'[d]]
           /\ \A d \in Clients : d # c => replies'[d] = replies[d]
      BY <2>2, <2>3, <2>4, ZenonT(30) DEF Shape
    <2>12. Shape'
      BY <2>1, <2>3, <2>6, <2>10, <2>11, Zenon DEF Shape
    <2>13. IssuedInv'
      BY <2>3, <2>10, Zenon DEF IssuedInv
    <2>14. HeldInv'
      <3>1. conn \in [Clients -> Nat] /\ conn' \in [Clients -> Nat]
        BY <2>3, <2>10, Zenon DEF Shape
      <3>2. \A d \in Clients : conn[d] <= conn'[d]
        BY <2>10, <3>1
      <3> QED BY <2>3, <2>9, <2>10, <3>1, <3>2, HeldKept, Zenon
    <2>15. WorkerInv'
      BY <2>1, <2>7, <2>10, WorkersKept, Zenon
    <2>16. LogInv'
      <3>1. \A x \in Workers : Calling(x)' => Calling(x) /\ worker'[x].m = worker[x].m
        BY <2>6, <2>7, <2>8, Zenon
      <3>2. \A x : Waits(x)' => Waits(x)
        BY <2>9, <3>1, Zenon DEF Waits
      <3> QED BY <2>10, <3>2, LogKept, Zenon
    <2>17. ASSUME NEW d \in Clients
           PROVE  ClientOK(d)'
      <3>1. ClientOK(d)
        BY <2>3, Zenon DEF ClientInv
      <3>2. CASE replies'[d] = replies[d]
        <4>1. \A x : Held(x)' /\ x.id[1] = d => Held(x)
          BY <2>9, Zenon
        <4>2. sock'[d] = sock[d] /\ call'[d] = call[d] /\ conn'[d] = conn[d]
          BY <2>10, Zenon
        <4> QED BY <2>10, <3>1, <3>2, <4>1, <4>2, ClientKept, Zenon
      <3>3. CASE replies'[d] # replies[d]
        <4>1. d = c
          BY <2>11, <3>3, Zenon
        <4>2. running /\ m.conn = conn[d] /\ replies' = [replies EXCEPT ![d] = Append(@, ReplyFrames(p))]
          <5> DEFINE given == running /\ m.conn = conn[c]
                     more == [replies EXCEPT ![c] = Append(@, ReplyFrames(p))]
          <5>1. replies' = IF given THEN more ELSE replies
            BY <2>2, Zenon
          <5> HIDE DEF given, more
          <5>2. given /\ replies' = more
            BY <3>3, <5>1, Zenon
          <5> QED BY <4>1, <5>2, Zenon DEF given, more
        <4>3. replies'[d] = Append(replies[d], ReplyFrames(p))
          BY <2>3, <4>2, ZenonT(30) DEF Shape
        <4>4. Live(d, m)
          BY <2>1, <4>1, <4>2, Zenon DEF Live, c
        <4>5. \A x : Live(d, x)' => Live(d, x) /\ Held(x) /\ x # m
          BY <2>9, <2>10, Zenon DEF Live
        <4>6. sock[d] # "ready"
          BY <3>1, <4>4, Zenon DEF ClientOK
        <4>7. CASE sock[d] # "sent"
          <5>1. sock'[d] \in {"ready", "sent", "late"} /\ sock'[d] # "ready" /\ sock'[d] # "sent" /\ call'[d] = NoCall
            BY <2>10, <3>1, <4>6, <4>7, Zenon DEF ClientOK
          <5> QED BY <5>1, Zenon DEF ClientOK
        <4>8. CASE sock[d] = "sent"
          <5>1. /\ call[d] \in issued /\ call[d].id[1] = d /\ m.id = call[d].id /\ replies[d] = <<>>
                /\ \A x : Live(d, x) => x.id = call[d].id
            BY <3>1, <4>4, <4>8, Zenon DEF ClientOK
          <5>2. e = call[d]
            BY <2>2, <2>3, <5>1, Zenon DEF IssuedInv
          <5>3. replies'[d] = <<ReplyFrames(p)>>
            BY <4>3, <5>1
          <5>4. AnsweredBy(replies'[d], call'[d], log')
            BY <2>2, <2>10, <5>2, <5>3, Zenon DEF AnsweredBy
          <5>5. \A x : ~Live(d, x)'
            BY <2>1, <2>3, <4>5, <5>1, Zenon DEF HeldInv
          <5>6. sock'[d] = "sent" /\ call'[d] \in issued' /\ call'[d].id[1] = d
            BY <2>10, <4>8, <5>1, Zenon
          <5>7. sock'[d] \in {"ready", "sent", "late"} /\ sock'[d] # "ready"
            BY <5>6, ZenonT(30)
          <5> QED BY <5>4, <5>5, <5>6, <5>7, Zenon DEF ClientOK
        <4> QED BY <4>7, <4>8, Zenon
      <3> QED BY <3>2, <3>3, Zenon
    <2> QED BY <2>9, <2>12, <2>13, <2>14, <2>15, <2>16, <2>17, Zenon DEF Inv, ClientInv
  <1> QED BY <1>SendReplyInv, Zenon

(***************************************************************************)
(* The theorems                                                            *)
(***************************************************************************)

\* The invariant is kept when nothing changes.
LEMMA StutterInv ==
  ASSUME Inv, UNCHANGED vars
  PROVE  Inv'
  <1>1. /\ UNCHANGED <<issued, call, sock, conn, replies, result, scenario, log, worker>>
        /\ front' = front /\ inq' = inq /\ (running' => running)
    BY Zenon DEF vars
  <1> QED BY <1>1, LessKeeps, Zenon

\* Every step keeps the invariant.
LEMMA NextInv ==
  ASSUME Inv, [Next]_vars
  PROVE  Inv'
  <1>1. ASSUME NEW c \in Clients, Client(c)
        PROVE  Inv'
    BY <1>1, SendKeeps, ClientSteps, Zenon DEF Client
  <1>2. ASSUME NEW w \in Workers, Worker(w)
        PROVE  Inv'
    BY <1>2, GetRequestKeeps, WorkerSteps, CallProxyKeeps, SendReplyKeeps, Zenon DEF Worker
  <1> QED BY <1>1, <1>2, DispatchKeeps, ClientSteps, StopInv, StutterInv, Zenon DEF Next

\* The invariant holds always, for any clients, workers, requests of the library,
\* lost messages, timeouts and reconnections.
THEOREM GatewayInvariant == Spec => []Inv
  <1>1. Init => Inv
    BY InitInv, Zenon
  <1>2. Inv /\ [Next]_vars => Inv'
    BY NextInv, Zenon
  <1> QED BY <1>1, <1>2, PTL DEF Spec

\* No request of the client library ends a worker: handleRequests leaves its loop
\* only when the interface stops, for any number of clients, workers and requests
\* (WorkersServe).
THEOREM WorkersAlwaysServe == Spec => []WorkersServe
  <1>1. Inv => WorkersServe
    BY Zenon DEF Inv, WorkerInv, WorkerOK, WorkersServe
  <1> QED BY <1>1, GatewayInvariant, PTL

\* After a call that was answered the connection can carry the next request:
\* issue_request leaves no part of a reply unread and sends no part that does not
\* belong to the request (ConnectionsUsable).
THEOREM ConnectionsStayUsable == Spec => []ConnectionsUsable
  <1>1. Inv => ConnectionsUsable
    <2> SUFFICES ASSUME Inv, NEW c \in Clients PROVE sock[c] # "broken"
      BY Zenon DEF ConnectionsUsable
    <2>1. sock[c] \in {"ready", "sent", "late"}
      BY Zenon DEF Inv, ClientInv, ClientOK
    <2> QED BY <2>1, Zenon
  <1> QED BY <1>1, GatewayInvariant, PTL

\* Every step is a step of the abstract specification or changes nothing it sees.
LEMMA NextCalls ==
  ASSUME Inv, [Next]_vars
  PROVE  [Calls!CallNext]_Calls!callVars
  <1>1. ASSUME NEW c \in Clients, Client(c)
        PROVE  [Calls!CallNext]_Calls!callVars
    <2>1. CASE \E r \in Scenarios[scenario].requests : Send(c, r)
      BY <2>1, SendKeeps, Zenon DEF Calls!CallNext
    <2>2. CASE Receive(c)
      BY <2>2, ClientSteps, Zenon DEF Calls!CallNext
    <2>3. CASE Timeout(c)
      BY <2>3, ClientSteps, Zenon DEF Calls!CallNext
    <2>4. CASE Reconnect(c)
      <3>1. UNCHANGED Calls!callVars
        BY <2>4, Zenon DEF Reconnect, serverVars, Calls!callVars
      <3> QED BY <3>1, Zenon
    <2> QED BY <1>1, <2>1, <2>2, <2>3, <2>4, Zenon DEF Client
  <1>2. ASSUME NEW w \in Workers, Worker(w)
        PROVE  [Calls!CallNext]_Calls!callVars
    <2>1. CASE CallProxy(w)
      BY <2>1, CallProxyKeeps, Zenon DEF Calls!CallNext
    <2>2. CASE GetRequest(w) \/ GetFileSize(w) \/ CacheFails(w) \/ SendReply(w) \/ Exit(w)
      <3>1. UNCHANGED Calls!callVars
        BY <2>2, Zenon DEF GetRequest, GetFileSize, CacheFails, SendReply, Exit, clientVars, Calls!callVars
      <3> QED BY <3>1, Zenon
    <2> QED BY <1>2, <2>1, <2>2, Zenon DEF Worker
  <1>3. ASSUME (\E w \in Workers : Dispatch(w)) \/ Lose \/ Stop \/ UNCHANGED vars
        PROVE  UNCHANGED Calls!callVars
    BY <1>3, Zenon DEF Dispatch, Lose, Stop, clientVars, vars, Calls!callVars
  <1> QED BY <1>1, <1>2, <1>3, Zenon DEF Next

\* The interface implements RemoteCalls, whatever messages are lost, and whichever
\* calls time out: a request is carried out at most once, after it was issued, and
\* a call that does not fail returns the outcome of its own request; for a read
\* into a cache file only its success (CallSpec).
THEOREM CallsImplemented == Spec => CallSpec
  <1>1. Init => Calls!CallInit
    <2> SUFFICES ASSUME Init PROVE Calls!CallInit
      BY Zenon
    <2>1. store \in {[n \in Names |-> IF n = "f" THEN Content(Old, MaxSize) ELSE NoFile]}
      BY Zenon DEF Init
    <2>2. issued = {} /\ log = {} /\ result = [c \in Clients |-> Failed] /\ call = [c \in Clients |-> Calls!NoCall]
      BY Zenon DEF Init, NoCall, Calls!NoCall
    <2> QED BY <2>1, <2>2, Zenon DEF Calls!CallInit
  <1>2. Inv /\ [Next]_vars => [Calls!CallNext]_Calls!callVars
    BY NextCalls, Zenon
  <1> QED BY <1>1, <1>2, GatewayInvariant, PTL DEF Spec, CallSpec, Calls!CallSpec

====
