------------------------------ MODULE Immutable ------------------------------
(***************************************************************************)
(* Immutable policies: the policy store in Redis, the management API that  *)
(* sets, extends and renews policies, and the file operations of the proxy *)
(* that check the policies first and remove or move them afterwards.       *)
(*                                                                         *)
(* The clock counts half days: an even time is the first second of a day   *)
(* (00:00:00 UTC), an odd time is any other second of it.  This keeps      *)
(* apart the instant at which a period ends and the time after it.         *)
(***************************************************************************)
EXTENDS Integers, Sequences

CONSTANTS
    Files,      \* names of files
    Contents,   \* contents of files
    Procs,      \* client requests served at the same time
    Sessions,   \* connections to the management API
    Inputs,     \* policies in request bodies: [start, days, renew]
    Kinds,      \* kinds of file operations that are requested
    Requested,  \* types of the policies that are requested
    Nil,        \* no policy, no content
    MaxTime,    \* bound on the clock
    MaxOps,     \* bound on file operations
    MaxChanges, \* bound on changes of policies through the API
    MaxFaults   \* bound on policy store errors and restarts of the proxy

ASSUME ImmutableAssumption ==
    /\ Nil \notin Contents
    /\ MaxTime \in Nat /\ MaxOps \in Nat /\ MaxChanges \in Nat /\ MaxFaults \in Nat
    /\ Requested \subseteq {"i", "m", "d", "r"}
    /\ Kinds \subseteq {"write", "modify", "read", "delete", "rename", "copy"}
    /\ Inputs \subseteq [start : Nat, days : Nat, renew : BOOLEAN]
    /\ Nil \notin [start : Nat, days : Nat, renew : BOOLEAN]

VARIABLES
    now,      \* the clock
    policy,   \* Redis: the policy of each file and type, or Nil
    data,     \* the content of each file, or Nil
    op,       \* the file operation of each process
    held,     \* history: policies that were valid ever since the operation began
    session,  \* state of the connections to the management API
    token,    \* the connections whose client has a token that has not expired
    ops,      \* number of file operations so far
    changes,  \* number of changes of policies through the API so far
    faults    \* number of faults so far

vars == <<now, policy, data, op, held, session, token, ops, changes, faults>>

\* The four types, named as in the keys of the policies.
Types == {"i", "m", "d", "r"}

Policies == [start : Nat, days : Nat \ {0}, renew : BOOLEAN]

\* Mutant: a delete does not look at the deletion-hold policy.
ChecksNoHold ==
    [write |-> <<"i", "m", "r">>, modify |-> <<"i", "m", "r">>, read |-> <<"r">>,
     delete |-> <<"i", "r">>, rename |-> <<"i", "m", "r">>, copy |-> <<"r">>]

\* The checks at the start of each operation, in order.
Checks ==
    [write |-> <<"i", "m", "r">>, modify |-> <<"i", "m", "r">>, read |-> <<"r">>,
     delete |-> <<"i", "d", "r">>, rename |-> <<"i", "m", "r">>, copy |-> <<"r">>]

Idle == [kind |-> "none", f |-> Nil, g |-> Nil, left |-> <<>>, pc |-> "idle", blind |-> FALSE]

Init ==
    /\ now = 2 /\ policy = [f \in Files |-> [t \in Types |-> Nil]]
    /\ data \in [Files -> Contents \cup {Nil}]
    /\ op = [p \in Procs |-> Idle] /\ held = [p \in Procs |-> {}]
    /\ session = [s \in Sessions |-> "closed"] /\ token = {}
    /\ ops = 0 /\ changes = 0 /\ faults = 0

-----------------------------------------------------------------------------
(* ImmutablePolicy *)

\* setStartDate takes the day of the given time and refuses the epoch;
\* setDuration refuses zero.  A refused field keeps the value 0.
Parsed(i) == [start |-> i.start - (i.start % 2), days |-> i.days, renew |-> i.renew]

isDefined(q) == q.start > 0 /\ q.days > 0

getEndDate(q) == q.start + 2 * q.days

isExpired(q, t) == isDefined(q) /\ ~q.renew /\ t > getEndDate(q)

isStarted(q, t) == isDefined(q) /\ t >= q.start

isPolicyValid(q, t) == q # Nil /\ ~isExpired(q, t)

-----------------------------------------------------------------------------
(* The policy store.  Each method holds the lock of the store and runs one *)
(* script or transaction, so it is atomic.  A request that is executed but *)
(* not answered changes the store in the same way, one that is not         *)
(* executed not at all.                                                    *)

\* Mutant: no policy in the store counts as one that is still valid.
NothingSet(q) == FALSE

Unexpired(q) == q # Nil /\ getEndDate(q) > now

setPolicyOnFile(f, t, q) ==
    /\ isStarted(q, now) /\ ~isExpired(q, now)
    /\ ~Unexpired(policy[f][t])
    /\ policy' = [policy EXCEPT ![f][t] = q]

isExtension(old, q) == getEndDate(q) > getEndDate(old)

extendPolicyOnFile(f, t, q) ==
    /\ isStarted(q, now) /\ ~isExpired(q, now)
    /\ policy[f][t] # Nil /\ isExtension(policy[f][t], q)
    /\ policy' = [policy EXCEPT ![f][t].start = q.start, ![f][t].days = q.days]

\* The script compares the time, instead of the new state, with 1: the period
\* always moves to the window that holds the present time.
renewPolicyOnFile(f, t, enable) ==
    /\ policy[f][t] # Nil
    /\ \E k \in 0..MaxTime :
         LET q == policy[f][t]
             st == q.start + k * 2 * q.days
         IN  /\ now < st + 2 * q.days /\ (k = 0 \/ st <= now)
             /\ policy' = [policy EXCEPT ![f][t] = [q EXCEPT !.start = st, !.renew = enable]]

\* The types whose key could not be deleted stay; one error of the connection
\* concerns one type.
deleteAllPolicies(f, failed) ==
    policy' = [policy EXCEPT ![f] = [t \in Types |-> IF t \in failed THEN policy[f][t] ELSE Nil]]

\* Mutant: RENAMENX, which leaves a policy of the destination alone.
MoveIfAbsent(f, g) ==
    LET moved == [t \in Types |-> IF policy[g][t] = Nil THEN policy[f][t] ELSE policy[g][t]]
        gone  == [t \in Types |-> Nil]
    IN  policy' = [policy EXCEPT ![f] = gone, ![g] = moved]

\* RENAME of a key that does not exist fails and leaves the destination alone.
moveAllPolicies(f, g) ==
    LET moved == [t \in Types |-> IF policy[f][t] # Nil THEN policy[f][t] ELSE policy[g][t]]
        gone  == [t \in Types |-> Nil]
    IN  policy' = [policy EXCEPT ![f] = gone, ![g] = moved]

-----------------------------------------------------------------------------
(* The management API *)

ApiOnly == UNCHANGED <<now, data, op, ops, faults>>

onAccept(s) ==
    /\ session[s] = "closed"
    /\ session' = [session EXCEPT ![s] = "reading"]
    /\ ApiOnly /\ UNCHANGED <<policy, token, changes>>

\* A response is written; then the next request is read or the connection
\* is closed.
onWrite(s, keep) ==
    /\ session[s] = "writing"
    /\ session' = [session EXCEPT ![s] = IF keep THEN "reading" ELSE "closed"]
    /\ ApiOnly /\ UNCHANGED <<policy, token, changes>>

\* The peer closes the connection, or the timer of the session expires.
doClose(s) ==
    /\ session[s] = "reading"
    /\ session' = [session EXCEPT ![s] = "closed"]
    /\ ApiOnly /\ UNCHANGED <<policy, token, changes>>

handleLogin(s, granted) ==
    /\ session[s] = "reading"
    /\ session' = [session EXCEPT ![s] = "writing"]
    /\ token' = IF granted THEN token \cup {s} ELSE token
    /\ ApiOnly /\ UNCHANGED <<policy, changes>>

\* A request with a token that has not expired.
authenticateUser(s) == s \in token

handlePolicyChange(s, f, t, i) ==
    /\ session[s] = "reading" /\ authenticateUser(s)
    /\ changes < MaxChanges /\ changes' = changes + 1
    /\ \/ setPolicyOnFile(f, t, Parsed(i))
       \/ extendPolicyOnFile(f, t, Parsed(i))
       \/ renewPolicyOnFile(f, t, i.renew)
    /\ session' = [session EXCEPT ![s] = "writing"]
    /\ ApiOnly /\ UNCHANGED token

\* Requests that are answered without a change: an unknown path, a missing
\* parameter or token, a policy that is refused, and all inquiries.
handleNewRequest(s) ==
    /\ session[s] = "reading"
    /\ session' = [session EXCEPT ![s] = "writing"]
    /\ ApiOnly /\ UNCHANGED <<policy, token, changes>>

-----------------------------------------------------------------------------
(* File operations *)

Goto(p, pc) == op' = [op EXCEPT ![p].pc = pc]

End(p) == op' = [op EXCEPT ![p] = Idle]

OpOnly == UNCHANGED <<now, session, token, ops, changes>>

Begin(p, kind, f, g) ==
    /\ op[p] = Idle /\ ops < MaxOps
    /\ kind \in {"rename", "copy"} <=> g # f
    /\ op' = [op EXCEPT ![p] = [kind |-> kind, f |-> f, g |-> g, left |-> Checks[kind],
                                pc |-> "check", blind |-> FALSE]]
    /\ ops' = ops + 1
    /\ UNCHANGED <<now, policy, data, session, token, changes, faults>>

\* The file whose policies are checked: the nested delete of a rename checks
\* the destination.
Target(o) == IF o.pc \in {"subcheck", "subpolicies"} THEN o.g ELSE o.f

\* One of the checks.  A policy that cannot be read counts as no policy.
CheckPolicy(p, failed) ==
    /\ op[p].pc \in {"check", "subcheck"} /\ op[p].left # <<>>
    /\ failed => faults < MaxFaults
    /\ faults' = IF failed THEN faults + 1 ELSE faults
    /\ IF ~failed /\ isPolicyValid(policy[Target(op[p])][Head(op[p].left)], now)
       THEN End(p)
       ELSE op' = [op EXCEPT ![p].left = Tail(@), ![p].blind = @ \/ failed]
    /\ OpOnly /\ UNCHANGED <<policy, data>>

Passed(p, pc) == op[p].pc = pc /\ op[p].left = <<>>

Write(p) ==
    /\ Passed(p, "check") /\ op[p].kind \in {"write", "modify"}
    /\ op[p].kind = "modify" => data[op[p].f] # Nil
    /\ \E c \in Contents : data' = [data EXCEPT ![op[p].f] = c]
    /\ End(p) /\ OpOnly /\ UNCHANGED <<policy, faults>>

Read(p) ==
    /\ Passed(p, "check") /\ op[p].kind = "read"
    /\ End(p) /\ OpOnly /\ UNCHANGED <<policy, data, faults>>

\* The check is made on the source only.
Copy(p) ==
    /\ Passed(p, "check") /\ op[p].kind = "copy" /\ data[op[p].f] # Nil
    /\ data' = [data EXCEPT ![op[p].g] = data[op[p].f]]
    /\ End(p) /\ OpOnly /\ UNCHANGED <<policy, faults>>

Delete(p) ==
    /\ Passed(p, "check") /\ op[p].kind = "delete" /\ data[op[p].f] # Nil
    /\ data' = [data EXCEPT ![op[p].f] = Nil]
    /\ Goto(p, "policies") /\ OpOnly /\ UNCHANGED <<policy, faults>>

\* The policies of a deleted file are removed after the file is unlocked.
DeletePolicies(p, failed) ==
    /\ \/ op[p].pc = "policies" /\ op[p].kind = "delete"
       \/ op[p].pc = "subpolicies"
    /\ failed # {} => faults < MaxFaults
    /\ faults' = IF failed # {} THEN faults + 1 ELSE faults
    /\ deleteAllPolicies(Target(op[p]), failed)
    /\ op' = [op EXCEPT ![p] = IF @.pc = "policies" THEN Idle ELSE [@ EXCEPT !.pc = "move"]]
    /\ OpOnly /\ UNCHANGED data

\* A rename onto a file that exists deletes that file first.
Rename(p) ==
    /\ Passed(p, "check") /\ op[p].kind = "rename" /\ data[op[p].f] # Nil
    /\ op' = [op EXCEPT ![p] = IF data[op[p].g] = Nil THEN [@ EXCEPT !.pc = "move"]
                               ELSE [@ EXCEPT !.pc = "subcheck", !.left = Checks.delete]]
    /\ OpOnly /\ UNCHANGED <<policy, data, faults>>

RenameDelete(p) ==
    /\ Passed(p, "subcheck") /\ data[op[p].g] # Nil
    /\ data' = [data EXCEPT ![op[p].g] = Nil]
    /\ Goto(p, "subpolicies") /\ OpOnly /\ UNCHANGED <<policy, faults>>

RenameMove(p) ==
    /\ op[p].pc = "move" /\ data[op[p].f] # Nil
    /\ data' = [data EXCEPT ![op[p].f] = Nil, ![op[p].g] = data[op[p].f]]
    /\ Goto(p, "policies") /\ OpOnly /\ UNCHANGED <<policy, faults>>

\* The policies follow the file after both names are unlocked.
MovePolicies(p, failed) ==
    /\ op[p].pc = "policies" /\ op[p].kind = "rename"
    /\ failed => faults < MaxFaults
    /\ faults' = IF failed THEN faults + 1 ELSE faults
    /\ IF failed THEN UNCHANGED policy ELSE moveAllPolicies(op[p].f, op[p].g)
    /\ op' = [op EXCEPT ![p] = Idle]
    /\ OpOnly /\ UNCHANGED data

\* The operation fails: the file does not exist, or a request fails.
Abort(p) ==
    /\ op[p].pc \in {"check", "subcheck", "move"} /\ (op[p].pc # "move" => op[p].left = <<>>)
    /\ End(p) /\ OpOnly /\ UNCHANGED <<policy, data, faults>>

-----------------------------------------------------------------------------
(* The environment *)

\* A token expires after an hour.
Tick ==
    /\ now < MaxTime /\ now' = now + 1 /\ token' = {}
    /\ UNCHANGED <<policy, data, op, session, ops, changes, faults>>

\* The proxy restarts: operations and connections end, Redis keeps the policies.
Restart ==
    /\ faults < MaxFaults /\ faults' = faults + 1
    /\ op' = [p \in Procs |-> Idle]
    /\ session' = [s \in Sessions |-> "closed"]
    /\ UNCHANGED <<now, policy, data, token, ops, changes>>

Api ==
    \E s \in Sessions :
      \/ onAccept(s) \/ doClose(s) \/ handleNewRequest(s)
      \/ \E b \in BOOLEAN : onWrite(s, b) \/ handleLogin(s, b)
      \/ \E f \in Files, t \in Requested, i \in Inputs : handlePolicyChange(s, f, t, i)

FileOps ==
    \E p \in Procs :
      \/ \E kind \in Kinds, f, g \in Files : Begin(p, kind, f, g)
      \/ \E b \in BOOLEAN : CheckPolicy(p, b) \/ MovePolicies(p, b)
      \/ \E failed \in {{}} \cup {{t} : t \in Requested} : DeletePolicies(p, failed)
      \/ Write(p) \/ Read(p) \/ Copy(p) \/ Delete(p) \/ Abort(p)
      \/ Rename(p) \/ RenameDelete(p) \/ RenameMove(p)

\* The policies on the files of an operation that were valid when it began
\* and have been valid ever since.
History ==
    held' = [p \in Procs |->
        IF op'[p] = Idle THEN {}
        ELSE {x \in IF op[p] = Idle THEN {op'[p].f, op'[p].g} \X Types ELSE held[p] :
                isPolicyValid(policy'[x[1]][x[2]], now')}]

Next == (Api \/ FileOps \/ Tick \/ Restart) /\ History

Spec == Init /\ [][Next]_vars

-----------------------------------------------------------------------------
(* Properties *)

\* The step is the clean-up after a delete, or the move after a rename, of f.
Removing(f) ==
    \E p \in Procs : /\ op[p].pc \in {"policies", "subpolicies"} /\ op'[p] # op[p]
                     /\ f \in {op[p].f, op[p].g}

\* The types of policies that forbid an operation, according to the manual
\* (docs/user-doc/source/immutable.rst:54-58).
Forbidding(kind) ==
    CASE kind \in {"write", "modify"} -> {"i", "m", "r"}
      [] kind = "delete" -> {"i", "d", "r"}
      [] kind = "rename" -> {"i", "m", "d", "r"}
      [] OTHER -> {"r"}

\* The types among them that the code does not look at: a rename is not denied by
\* a deletion hold on the file (proxy_file_ops.cc:1546).
Overlooked(kind) == IF kind = "rename" THEN {"d"} ELSE {}

\* A valid policy is not taken away or shortened: set, extend and renew
\* (immutable_policy_store_redis.cc:17-371) leave a valid policy that is valid
\* still, and ends no earlier unless the old one was renewing itself.  Only the
\* clean-up after a delete and the move after a rename remove policies.
NeverShortened ==
    [][\A f \in Files, t \in Types :
         LET q == policy[f][t]
             r == policy'[f][t]
         IN  q # Nil /\ ~isExpired(q, now) /\ r # q /\ ~Removing(f) =>
               /\ r # Nil /\ ~isExpired(r, now)
               /\ q.renew \/ r.renew \/ getEndDate(r) >= getEndDate(q)]_vars

\* An operation that gets past its checks, with every policy read, works on a
\* file without a policy that the manual says forbids it and that was valid ever
\* since the operation began, whatever is set, extended or renewed and whatever
\* expires meanwhile (proxy_file_ops.cc:27, 230, 906, 1447, 1546, 1683).  The
\* deletion hold on a file that is renamed is left out: see DeniedAsDocumented.
HoldsEnforced ==
    \A p \in Procs :
      LET o == op[p]
      IN  o.pc # "idle" /\ ~o.blind =>
            /\ (o.pc = "check" => o.left = <<>>) =>
                 \A t \in Forbidding(o.kind) \ Overlooked(o.kind) :
                    <<o.f, t>> \notin held[p] \/ o.pc = "policies"
            /\ (o.pc = "subcheck" /\ o.left = <<>>) \/ o.pc = "subpolicies" =>
                 \A t \in Forbidding("delete") : <<o.g, t>> \notin held[p]

\* The same of every policy that the manual names, the deletion hold on a file that
\* is renamed included ("If any of them is valid, deny the operation.",
\* immutable.rst:57).  The code does not do this.
DeniedAsDocumented ==
    \A p \in Procs :
      LET o == op[p]
      IN  o.pc # "idle" /\ ~o.blind /\ (o.pc = "check" => o.left = <<>>) =>
            \A t \in Forbidding(o.kind) : <<o.f, t>> \notin held[p] \/ o.pc = "policies"

\* A rename that ends without a fault leaves on the new name every policy that
\* was valid on the old name all the time, and none on the old one
\* (proxy_file_ops.cc:1644).
HoldsFollow ==
    [][\A p \in Procs :
         op[p].kind = "rename" /\ op[p].pc = "policies" /\ op'[p] = Idle /\ faults' = faults =>
           \A t \in Types : <<op[p].f, t>> \in held[p] =>
             policy'[op[p].g][t] = policy[op[p].f][t] /\ policy'[op[p].f][t] = Nil]_vars

=============================================================================
