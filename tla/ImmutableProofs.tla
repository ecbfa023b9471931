--------------------------- MODULE ImmutableProofs ---------------------------
(***************************************************************************)
(* Proofs about Immutable, for any number of files, requests and sessions, *)
(* any policies and any length of time.                                    *)
(*                                                                         *)
(* A policy in the store has a start and a duration.  held[p] shrinks from *)
(* one step of the operation to the next, so that what a check has found   *)
(* not to be a valid policy stays out of it: a type that forbids the       *)
(* operation is not in held[p], or its check is still to come.             *)
(***************************************************************************)
EXTENDS Immutable, TLAPS

Defined == {q \in [start : Nat, days : Nat, renew : BOOLEAN] : q.start > 0 /\ q.days > 0}
PolicyTables == [Files -> [Types -> Defined \cup {Nil}]]
OpRecords ==
    [kind : DOMAIN Checks \cup {"none"}, f : Files \cup {Nil}, g : Files \cup {Nil}, left : Seq(Types),
     pc : {"idle", "check", "subcheck", "move", "policies", "subpolicies"}, blind : BOOLEAN]

ITypeOK ==
    /\ now \in Nat /\ faults \in Nat /\ policy \in PolicyTables
    /\ op \in [Procs -> OpRecords] /\ held \in [Procs -> SUBSET (Files \X Types)]

\* A nested delete and a move are part of a rename, between two files.
Shape(o) ==
    /\ o.pc = "idle" <=> o = Idle
    /\ o.pc # "idle" => o.f \in Files /\ o.g \in Files /\ o.kind \in DOMAIN Checks
    /\ o.pc # "idle" /\ o.kind = "rename" => o.f # o.g
    /\ o.pc \in {"subcheck", "move", "subpolicies"} => o.kind = "rename"

\* The policies that an operation is denied for.
Barring(kind) == Forbidding(kind) \ Overlooked(kind)

Among(t, s) == \E i \in 1 .. Len(s) : s[i] = t

\* The checks of o that are done have kept the policies in h from forbidding it.
Cleared(o, h) ==
    o.blind \/
    /\ o.pc = "check" => \A t \in Barring(o.kind) : <<o.f, t>> \in h => Among(t, o.left)
    /\ o.pc \in {"subcheck", "move", "subpolicies"} => \A t \in Barring(o.kind) : <<o.f, t>> \notin h
    /\ o.pc = "subcheck" => \A t \in Barring("delete") : <<o.g, t>> \in h => Among(t, o.left)
    /\ o.pc = "subpolicies" => \A t \in Barring("delete") : <<o.g, t>> \notin h

HeldValid(p) == \A x \in held[p] : isPolicyValid(policy[x[1]][x[2]], now)

IInv ==
    /\ ITypeOK
    /\ \A p \in Procs : /\ Shape(op[p]) /\ Cleared(op[p], held[p]) /\ HeldValid(p)
                        /\ op[p] = Idle => held[p] = {}

\* A thread with no request has done no checks.
LEMMA IdleType == Idle \in OpRecords /\ Shape(Idle) /\ Idle.pc = "idle" /\ (\A h : Cleared(Idle, h))
  <1>1. Idle \in OpRecords
    BY DEF Idle, OpRecords
  <1>2. Idle.pc = "idle"
    BY Zenon DEF Idle
  <1>3. Shape(Idle)
    BY <1>2, Zenon DEF Shape
  <1>4. \A h : Cleared(Idle, h)
    BY <1>2, Zenon DEF Cleared
  <1> QED BY <1>1, <1>2, <1>3, <1>4, Zenon

\* The policies that forbid an operation are policies.
LEMMA BarringTypes == \A kind : Barring(kind) \subseteq Types
  BY Zenon DEF Barring, Forbidding, Types

\* What is left out of held stays out.
LEMMA ClearedLess ==
  ASSUME NEW o, NEW h, NEW h2 \in SUBSET h, Cleared(o, h)
  PROVE  Cleared(o, h2)
  BY Zenon DEF Cleared

\* What History records.
LEMMA HeldNext ==
  ASSUME History, NEW p \in Procs
  PROVE  /\ op'[p] = Idle => held'[p] = {}
         /\ op'[p] # Idle /\ op[p] # Idle => held'[p] \subseteq held[p]
         /\ op'[p] # Idle /\ op[p] = Idle => held'[p] \subseteq {op'[p].f, op'[p].g} \X Types
         /\ \A x \in held'[p] : isPolicyValid(policy'[x[1]][x[2]], now')
  BY ZenonT(30) DEF History

\* A step of the operation of p, or of none if op' = op.
LEMMA OpStep ==
  ASSUME IInv, History, NEW p \in Procs, NEW o \in OpRecords, op' = [op EXCEPT ![p] = o],
         now' \in Nat, faults' \in Nat, policy' \in PolicyTables,
         Shape(o), o # Idle => Cleared(o, held'[p])
  PROVE  IInv'
  <1>1. op' \in [Procs -> OpRecords] /\ op'[p] = o /\ \A q \in Procs \ {p} : op'[q] = op[q]
    BY Zenon DEF IInv, ITypeOK
  <1>2. ASSUME NEW q \in Procs PROVE Shape(op'[q])
    BY <1>1, Zenon DEF IInv
  <1>3. ASSUME NEW q \in Procs PROVE held'[q] \in SUBSET (Files \X Types)
    <2>1. op'[q] # Idle => op'[q].f \in Files /\ op'[q].g \in Files
      BY <1>2, Zenon DEF Shape
    <2>2. held[q] \in SUBSET (Files \X Types)
      BY Zenon DEF IInv, ITypeOK
    <2>3. CASE op'[q] = Idle
      BY <2>3, HeldNext, Zenon
    <2>4. CASE op'[q] # Idle /\ op[q] # Idle
      BY <2>2, <2>4, HeldNext, Zenon
    <2>5. CASE op'[q] # Idle /\ op[q] = Idle
      <3>1. held'[q] \subseteq {op'[q].f, op'[q].g} \X Types
        BY <2>5, HeldNext, Zenon
      <3> QED BY <2>1, <2>5, <3>1, Zenon
    <2> QED BY <2>3, <2>4, <2>5, Zenon
  <1>4. held' \in [Procs -> SUBSET (Files \X Types)]
    <2>1. held' = [q \in Procs |-> held'[q]]
      BY ZenonT(30) DEF History
    <2> QED BY <1>3, <2>1, Zenon
  <1>5. ASSUME NEW q \in Procs PROVE Cleared(op'[q], held'[q])
    <2>1. CASE op'[q] = Idle
      BY <2>1, IdleType, Zenon
    <2>2. CASE op'[q] # Idle /\ q = p
      BY <1>1, <2>2, Zenon
    <2>3. CASE op'[q] # Idle /\ q # p
      <3>1. op'[q] = op[q] /\ held'[q] \subseteq held[q] /\ Cleared(op[q], held[q])
        BY <1>1, <2>3, HeldNext, Zenon DEF IInv
      <3> QED BY <3>1, ClearedLess, Zenon
    <2> QED BY <2>1, <2>2, <2>3, Zenon
  <1> QED BY <1>1, <1>2, <1>4, <1>5, HeldNext, ZenonT(30) DEF IInv, ITypeOK, HeldValid

\* A step of no operation.
LEMMA QuietOps ==
  ASSUME IInv, History, UNCHANGED op, now' \in Nat, faults' \in Nat, policy' \in PolicyTables
  PROVE  IInv'
  <1>1. ASSUME NEW q \in Procs PROVE held'[q] \subseteq held[q] /\ (op'[q] = Idle => held'[q] = {}) /\ HeldValid(q)'
    BY HeldNext, ZenonT(30) DEF IInv, HeldValid
  <1>2. held' \in [Procs -> SUBSET (Files \X Types)]
    <2>1. held' = [q \in Procs |-> held'[q]]
      BY ZenonT(30) DEF History
    <2>2. \A q \in Procs : held'[q] \in SUBSET (Files \X Types)
      BY <1>1, Zenon DEF IInv, ITypeOK
    <2> QED BY <2>1, <2>2, Zenon
  <1>3. ASSUME NEW q \in Procs PROVE Cleared(op[q], held'[q])
    BY <1>1, ClearedLess, Zenon DEF IInv
  <1> QED BY <1>1, <1>2, <1>3, ZenonT(30) DEF IInv, ITypeOK

\* Every operation looks up each policy that forbids it.
LEMMA ChecksSeq == \A kind \in DOMAIN Checks : Checks[kind] \in Seq(Types) /\ \A t \in Barring(kind) : Among(t, Checks[kind])
  <1>1. <<"i", "m", "r">> \in Seq(Types) /\ <<"i", "d", "r">> \in Seq(Types) /\ <<"r">> \in Seq(Types)
    BY DEF Types
  <1>2. \A t \in {"i", "m", "r"} : Among(t, <<"i", "m", "r">>)
    BY DEF Among
  <1>3. \A t \in {"i", "d", "r"} : Among(t, <<"i", "d", "r">>)
    BY DEF Among
  <1>4. \A t \in {"r"} : Among(t, <<"r">>)
    BY DEF Among
  <1>5. DOMAIN Checks = {"write", "modify", "read", "delete", "rename", "copy"}
    BY Zenon DEF Checks
  <1>6. /\ Checks["write"] = <<"i", "m", "r">> /\ Checks["modify"] = <<"i", "m", "r">> /\ Checks["rename"] = <<"i", "m", "r">>
        /\ Checks["delete"] = <<"i", "d", "r">> /\ Checks["read"] = <<"r">> /\ Checks["copy"] = <<"r">>
    BY Zenon DEF Checks
  <1>7. \A kind \in {"write", "modify", "rename"} : Barring(kind) = {"i", "m", "r"}
    BY Zenon DEF Barring, Forbidding, Overlooked
  <1>8. Barring("delete") = {"i", "d", "r"} /\ Barring("read") = {"r"} /\ Barring("copy") = {"r"}
    BY Zenon DEF Barring, Forbidding, Overlooked
  <1> QED BY <1>1, <1>2, <1>3, <1>4, <1>5, <1>6, <1>7, <1>8, ZenonT(60)

\* A type other than the first of a list is in its tail.
LEMMA AmongTail ==
  ASSUME NEW s \in Seq(Types), s # <<>>, NEW t, Among(t, s), t # Head(s)
  PROVE  Among(t, Tail(s))
  <1>1. PICK i \in 1 .. Len(s) : s[i] = t
    BY Zenon DEF Among
  <1>2. i # 1
    BY <1>1
  <1>3. i - 1 \in 1 .. Len(Tail(s)) /\ Tail(s)[i - 1] = t
    BY <1>1, <1>2
  <1> QED BY <1>3, Zenon DEF Among

\* The record of an operation in the store of operations.
LEMMA OpFacts ==
  ASSUME IInv, NEW p \in Procs
  PROVE  /\ op[p] \in OpRecords /\ Shape(op[p]) /\ Cleared(op[p], held[p]) /\ HeldValid(p)
         /\ op[p].pc # "idle" => op[p] # Idle /\ op[p].f \in Files /\ op[p].g \in Files /\ op[p].kind \in DOMAIN Checks
  BY IdleType, Zenon DEF IInv, ITypeOK, Shape

\* The start of an operation.
LEMMA BeginKeeps ==
  ASSUME IInv, History, NEW p \in Procs, NEW kind \in DOMAIN Checks, NEW f \in Files, NEW g \in Files, Begin(p, kind, f, g)
  PROVE  IInv'
  <1> DEFINE o == [kind |-> kind, f |-> f, g |-> g, left |-> Checks[kind], pc |-> "check", blind |-> FALSE]
  <1>1. op' = [op EXCEPT ![p] = o] /\ UNCHANGED <<now, policy, faults>> /\ (kind = "rename" => g # f)
    BY Zenon DEF Begin
  <1>2. o \in OpRecords /\ Shape(o)
    BY <1>1, ChecksSeq, IdleType, Zenon DEF OpRecords, Shape
  <1>3. \A h : Cleared(o, h)
    BY ChecksSeq, Zenon DEF Cleared
  <1>4. now' \in Nat /\ faults' \in Nat /\ policy' \in PolicyTables
    BY <1>1, Zenon DEF IInv, ITypeOK
  <1> HIDE DEF o
  <1> QED BY <1>1, <1>2, <1>3, <1>4, OpStep, ZenonT(30)

\* The end of an operation.
LEMMA EndKeeps ==
  ASSUME IInv, History, NEW p \in Procs, op' = [op EXCEPT ![p] = Idle], now' \in Nat, faults' \in Nat, policy' \in PolicyTables
  PROVE  IInv'
  BY OpStep, IdleType, ZenonT(30)

\* One lookup of isImmutable.
LEMMA CheckKeeps ==
  ASSUME IInv, History, NEW p \in Procs, NEW failed \in BOOLEAN, CheckPolicy(p, failed)
  PROVE  IInv'
  <1> DEFINE o == [op[p] EXCEPT !.left = Tail(@), !.blind = @ \/ failed]
             v == isPolicyValid(policy[Target(op[p])][Head(op[p].left)], now)
  <1>1. /\ op[p].pc \in {"check", "subcheck"} /\ op[p].left # <<>> /\ UNCHANGED <<now, policy>>
        /\ faults' \in Nat /\ now' \in Nat /\ policy' \in PolicyTables
    BY DEF CheckPolicy, OpOnly, IInv, ITypeOK
  <1>2. CASE ~failed /\ v
    <2>1. op' = [op EXCEPT ![p] = Idle]
      BY <1>2, Zenon DEF CheckPolicy, End
    <2> QED BY <1>1, <2>1, EndKeeps, ZenonT(30)
  <1>3. CASE ~(~failed /\ v)
    <2>1. op[p] \in OpRecords /\ Shape(op[p]) /\ Cleared(op[p], held[p]) /\ op[p] # Idle
      BY <1>1, OpFacts, Zenon
    <2>2. op' = [op EXCEPT ![p] = o]
      BY <1>3, ZenonT(30) DEF CheckPolicy
    <2>3. /\ o \in OpRecords /\ o.pc = op[p].pc /\ o.f = op[p].f /\ o.g = op[p].g /\ o.kind = op[p].kind
          /\ o.left = Tail(op[p].left) /\ o.blind = (op[p].blind \/ failed)
      <3> DEFINE l == Tail(op[p].left)
                 b == op[p].blind \/ failed
      <3>1. l \in Seq(Types)
        BY <1>1, <2>1 DEF OpRecords
      <3>2. b \in BOOLEAN
        BY Zenon
      <3>3. o = [op[p] EXCEPT !.left = l, !.blind = b]
        BY ZenonT(30)
      <3> HIDE DEF l, b, o
      <3>4. o \in OpRecords /\ o.pc = op[p].pc /\ o.f = op[p].f /\ o.g = op[p].g /\ o.kind = op[p].kind
        BY <2>1, <3>1, <3>2, <3>3, ZenonT(30) DEF OpRecords
      <3>5. o.left = l /\ o.blind = b
        BY <2>1, <3>1, <3>2, <3>3, Zenon DEF OpRecords
      <3> QED BY <3>4, <3>5, Zenon DEF l, b
    <2>4. Shape(o)
      BY <1>1, <2>1, <2>3, IdleType, ZenonT(30) DEF Shape
    <2>5. op'[p] = o /\ o # Idle
      BY <1>1, <2>2, <2>3, IdleType, ZenonT(30) DEF IInv, ITypeOK
    <2>6. held'[p] \subseteq held[p] /\ \A x \in held'[p] : isPolicyValid(policy[x[1]][x[2]], now)
      BY <1>1, <2>1, <2>5, HeldNext, Zenon
    <2>7. ASSUME ~o.blind, NEW t, <<Target(op[p]), t>> \in held'[p], Among(t, op[p].left) PROVE Among(t, o.left)
      <3>1. isPolicyValid(policy[Target(op[p])][t], now)
        BY <2>6, <2>7, Zenon
      <3>2. ~failed
        BY <2>3, <2>7, Zenon
      <3>3. t # Head(op[p].left)
        BY <1>3, <3>1, <3>2, Zenon
      <3>4. op[p].left \in Seq(Types)
        BY <2>1, Zenon DEF OpRecords
      <3> QED BY <1>1, <2>3, <2>7, <3>3, <3>4, AmongTail, Zenon
    <2>8. ~o.blind => ~op[p].blind
      BY <2>1, <2>3, Zenon DEF OpRecords
    <2> HIDE DEF o
    <2>9. CASE op[p].pc = "check"
      <3>1. Target(op[p]) = op[p].f
        BY <2>9, Zenon DEF Target
      <3>2. Cleared(o, held'[p])
        BY <2>1, <2>3, <2>6, <2>7, <2>8, <2>9, <3>1, ZenonT(30) DEF Cleared
      <3> QED BY <1>1, <2>2, <2>3, <2>4, <3>2, OpStep, ZenonT(30)
    <2>10. CASE op[p].pc = "subcheck"
      <3>1. Target(op[p]) = op[p].g
        BY <2>10, Zenon DEF Target
      <3>2. Cleared(o, held'[p])
        BY <2>1, <2>3, <2>6, <2>7, <2>8, <2>10, <3>1, ZenonT(30) DEF Cleared
      <3> QED BY <1>1, <2>2, <2>3, <2>4, <3>2, OpStep, ZenonT(30)
    <2> QED BY <1>1, <2>9, <2>10, Zenon
  <1> QED BY <1>2, <1>3, Zenon

\* An operation that goes on to another step.
LEMMA GotoKeeps ==
  ASSUME IInv, History, NEW p \in Procs, op[p].pc # "idle",
         NEW pc \in {"check", "subcheck", "move", "policies", "subpolicies"}, NEW left \in Seq(Types),
         op' = [op EXCEPT ![p] = [op[p] EXCEPT !.pc = pc, !.left = left]],
         now' \in Nat, faults' \in Nat, policy' \in PolicyTables,
         pc \in {"subcheck", "move", "subpolicies"} => op[p].kind = "rename",
         ~op[p].blind => Cleared([op[p] EXCEPT !.pc = pc, !.left = left], held[p])
  PROVE  IInv'
  <1> DEFINE o == [op[p] EXCEPT !.pc = pc, !.left = left]
  <1>1. op[p] \in OpRecords /\ Shape(op[p]) /\ op[p] # Idle
    BY OpFacts, Zenon
  <1>2. /\ o \in OpRecords /\ o.pc = pc /\ o.f = op[p].f /\ o.g = op[p].g /\ o.kind = op[p].kind
        /\ o.left = left /\ o.blind = op[p].blind
    BY <1>1, ZenonT(30) DEF OpRecords
  <1>3. Shape(o)
    BY <1>1, <1>2, IdleType, ZenonT(30) DEF Shape
  <1>4. Cleared(o, held[p])
    BY <1>2, Zenon DEF Cleared
  <1>5. op'[p] = o /\ o # Idle
    BY <1>2, IdleType, ZenonT(30) DEF IInv, ITypeOK
  <1>6. held'[p] \subseteq held[p]
    BY <1>1, <1>5, HeldNext, Zenon
  <1>7. Cleared(o, held'[p])
    BY <1>4, <1>6, ClearedLess, Zenon
  <1> HIDE DEF o
  <1>8. op' = [op EXCEPT ![p] = o]
    BY Zenon DEF o
  <1> QED BY <1>2, <1>3, <1>7, <1>8, OpStep, ZenonT(30)

\* Goto leaves the checks alone.
LEMMA GotoLeft ==
  ASSUME IInv, NEW p \in Procs, NEW pc
  PROVE  [op EXCEPT ![p].pc = pc] = [op EXCEPT ![p] = [op[p] EXCEPT !.pc = pc, !.left = op[p].left]]
  <1>1. op[p] \in OpRecords
    BY Zenon DEF IInv, ITypeOK
  <1>2. [op[p] EXCEPT !.pc = pc] = [op[p] EXCEPT !.pc = pc, !.left = op[p].left]
    BY <1>1, ZenonT(30) DEF OpRecords
  <1>3. [op EXCEPT ![p].pc = pc] = [op EXCEPT ![p] = [op[p] EXCEPT !.pc = pc]]
    BY ZenonT(30)
  <1> QED BY <1>2, <1>3, ZenonT(30)

\* The fields of an operation that has moved on.
LEMMA Moved ==
  ASSUME IInv, NEW p \in Procs, NEW pc, NEW left
  PROVE  LET o == [op[p] EXCEPT !.pc = pc, !.left = left]
         IN  /\ o.pc = pc /\ o.left = left /\ o.f = op[p].f /\ o.g = op[p].g
             /\ o.kind = op[p].kind /\ o.blind = op[p].blind
  BY ZenonT(30) DEF IInv, ITypeOK, OpRecords

\* The file is deleted, or takes its new name; its policies come after.
LEMMA DeleteKeeps ==
  ASSUME IInv, History, NEW p \in Procs, Delete(p) \/ RenameMove(p)
  PROVE  IInv'
  <1> DEFINE o == [op[p] EXCEPT !.pc = "policies", !.left = op[p].left]
  <1>1. /\ op[p].pc # "idle" /\ op' = [op EXCEPT ![p].pc = "policies"] /\ UNCHANGED <<now, policy, faults>>
    BY Zenon DEF Delete, RenameMove, Passed, Goto, OpOnly
  <1>2. op' = [op EXCEPT ![p] = o]
    BY <1>1, GotoLeft, ZenonT(30)
  <1>3. Cleared(o, held[p])
    BY Moved DEF Cleared
  <1>4. op[p].left \in Seq(Types) /\ now' \in Nat /\ faults' \in Nat /\ policy' \in PolicyTables
    BY <1>1, Zenon DEF IInv, ITypeOK, OpRecords
  <1> QED BY <1>1, <1>2, <1>3, <1>4, GotoKeeps, ZenonT(30)

\* The list of checks that has come to its end has none to come.
LEMMA NoneLeft == \A t : ~Among(t, <<>>)
  BY DEF Among

\* A rename goes on to the move, or first to the checks of deleting the target.
LEMMA RenameKeeps ==
  ASSUME IInv, History, NEW p \in Procs, Rename(p)
  PROVE  IInv'
  <1>1. /\ op[p].pc = "check" /\ op[p].left = <<>> /\ op[p].kind = "rename" /\ UNCHANGED <<now, policy, faults>>
        /\ op[p].pc # "idle"
    BY Zenon DEF Rename, Passed, OpOnly
  <1>2. now' \in Nat /\ faults' \in Nat /\ policy' \in PolicyTables /\ op[p] \in OpRecords /\ Cleared(op[p], held[p])
    BY <1>1, Zenon DEF IInv, ITypeOK
  <1>3. ~op[p].blind => \A t \in Barring("rename") : <<op[p].f, t>> \notin held[p]
    BY <1>1, <1>2, NoneLeft, Zenon DEF Cleared
  <1>4. CASE data[op[p].g] = Nil
    <2> DEFINE o == [op[p] EXCEPT !.pc = "move", !.left = op[p].left]
    <2>1. op' = [op EXCEPT ![p].pc = "move"]
      BY <1>4, ZenonT(30) DEF Rename
    <2>2. op' = [op EXCEPT ![p] = o]
      BY <2>1, GotoLeft, ZenonT(30)
    <2>3. ~op[p].blind => Cleared(o, held[p])
      BY <1>1, <1>3, Moved DEF Cleared
    <2>4. op[p].left \in Seq(Types)
      BY <1>2, Zenon DEF OpRecords
    <2> QED BY <1>1, <1>2, <2>2, <2>3, <2>4, GotoKeeps, ZenonT(30)
  <1>5. CASE data[op[p].g] # Nil
    <2> DEFINE o == [op[p] EXCEPT !.pc = "subcheck", !.left = Checks["delete"]]
    <2>1. op' = [op EXCEPT ![p] = o]
      BY <1>5, ZenonT(30) DEF Rename
    <2>2. Checks["delete"] \in Seq(Types) /\ \A t \in Barring("delete") : Among(t, Checks["delete"])
      BY ChecksSeq, ZenonT(30) DEF Checks
    <2>3. ~op[p].blind => Cleared(o, held[p])
      BY <1>1, <1>3, <2>2, Moved DEF Cleared
    <2> QED BY <1>1, <1>2, <2>1, <2>2, <2>3, GotoKeeps, ZenonT(30)
  <1> QED BY <1>4, <1>5, Zenon

\* The target of a rename is deleted.
LEMMA RenameDeleteKeeps ==
  ASSUME IInv, History, NEW p \in Procs, RenameDelete(p)
  PROVE  IInv'
  <1> DEFINE o == [op[p] EXCEPT !.pc = "subpolicies", !.left = op[p].left]
  <1>1. /\ op[p].pc = "subcheck" /\ op[p].left = <<>> /\ UNCHANGED <<now, policy, faults>> /\ op[p].pc # "idle"
        /\ op' = [op EXCEPT ![p].pc = "subpolicies"]
    BY Zenon DEF RenameDelete, Passed, Goto, OpOnly
  <1>2. /\ now' \in Nat /\ faults' \in Nat /\ policy' \in PolicyTables /\ op[p] \in OpRecords /\ Cleared(op[p], held[p])
        /\ op[p].kind = "rename"
    BY <1>1, Zenon DEF IInv, ITypeOK, Shape
  <1>3. op' = [op EXCEPT ![p] = o] /\ op[p].left \in Seq(Types)
    BY <1>1, <1>2, GotoLeft, ZenonT(30) DEF OpRecords
  <1>4. ~op[p].blind => Cleared(o, held[p])
    BY <1>1, <1>2, NoneLeft, Moved DEF Cleared
  <1> QED BY <1>1, <1>2, <1>3, <1>4, GotoKeeps, ZenonT(30)

\* What the management API may do to a policy q at the present time.
Lasts(q, r) ==
    q # Nil /\ ~isExpired(q, now) /\ r # q =>
      /\ r # Nil /\ ~isExpired(r, now)
      /\ q.renew \/ r.renew \/ getEndDate(r) >= getEndDate(q)

\* No policy is different from every policy.
LEMMA NilUndefined == Nil \notin Defined
  BY ImmutableAssumption, Zenon DEF Defined

\* Storing r as one policy.
LEMMA Stored ==
  ASSUME policy \in PolicyTables, NEW f \in Files, NEW t \in Types, NEW r \in Defined \cup {Nil},
         policy' = [policy EXCEPT ![f][t] = r], Lasts(policy[f][t], r)
  PROVE  /\ policy' \in PolicyTables
         /\ \A f1 \in Files, t1 \in Types : Lasts(policy[f1][t1], policy'[f1][t1])
  <1>1. policy' \in PolicyTables
    BY ZenonT(30) DEF PolicyTables
  <1>2. ASSUME NEW f1 \in Files, NEW t1 \in Types
        PROVE  policy'[f1][t1] = IF f1 = f /\ t1 = t THEN r ELSE policy[f1][t1]
    BY Zenon DEF PolicyTables
  <1>3. ASSUME NEW f1 \in Files, NEW t1 \in Types PROVE Lasts(policy[f1][t1], policy'[f1][t1])
    <2>1. CASE f1 = f /\ t1 = t
      BY <1>2, <2>1, Zenon
    <2>2. CASE ~(f1 = f /\ t1 = t)
      BY <1>2, <2>2, Zenon DEF Lasts
    <2> QED BY <2>1, <2>2, Zenon
  <1> QED BY <1>1, <1>3, Zenon

\* What is parsed of a request is a policy.
LEMMA ParsedType ==
  ASSUME NEW i \in Inputs
  PROVE  Parsed(i) \in [start : Nat, days : Nat, renew : BOOLEAN]
  <1>1. i \in [start : Nat, days : Nat, renew : BOOLEAN]
    BY ImmutableAssumption, Zenon
  <1>2. i.start \in Nat /\ i.start - (i.start % 2) \in Nat
    BY <1>1
  <1> QED BY <1>1, <1>2, Zenon DEF Parsed

\* setPolicy replaces no policy.
LEMMA SetLasts ==
  ASSUME IInv, NEW f \in Files, NEW t \in Types, NEW i \in Inputs, setPolicyOnFile(f, t, Parsed(i))
  PROVE  /\ policy' \in PolicyTables
         /\ \A f1 \in Files, t1 \in Types : Lasts(policy[f1][t1], policy'[f1][t1])
  <1> DEFINE q == policy[f][t]
             r == Parsed(i)
  <1>1. r \in Defined
    BY ParsedType, Zenon DEF setPolicyOnFile, isStarted, isDefined, Defined
  <1>2. q \in Defined \cup {Nil} /\ now \in Nat
    BY Zenon DEF IInv, ITypeOK, PolicyTables
  <1>3. r # Nil
    BY <1>1, NilUndefined, Zenon
  <1>4. ~isExpired(r, now) /\ ~Unexpired(q) /\ policy' = [policy EXCEPT ![f][t] = r]
    BY Zenon DEF setPolicyOnFile
  <1> HIDE DEF q, r
  <1>5. Lasts(q, r)
    BY <1>1, <1>2, <1>3, <1>4 DEF Lasts, isExpired, isDefined, Unexpired, getEndDate, Defined
  <1> QED BY <1>1, <1>4, <1>5, Stored, ZenonT(30) DEF q, IInv, ITypeOK

\* extendPolicy ends no earlier.
LEMMA ExtendLasts ==
  ASSUME IInv, NEW f \in Files, NEW t \in Types, NEW i \in Inputs, extendPolicyOnFile(f, t, Parsed(i))
  PROVE  /\ policy' \in PolicyTables
         /\ \A f1 \in Files, t1 \in Types : Lasts(policy[f1][t1], policy'[f1][t1])
  <1> DEFINE q == policy[f][t]
             n == Parsed(i)
             r == [q EXCEPT !.start = n.start, !.days = n.days]
  <1>1. n \in Defined
    BY ParsedType, Zenon DEF extendPolicyOnFile, isStarted, isDefined, Defined
  <1>2. q \in Defined /\ now \in Nat
    BY ZenonT(30) DEF IInv, ITypeOK, PolicyTables, extendPolicyOnFile
  <1>3. isExtension(q, n) /\ policy' = [policy EXCEPT ![f][t] = r]
    BY ZenonT(30) DEF extendPolicyOnFile
  <1> HIDE DEF q, n
  <1>4. r \in Defined /\ r.start = n.start /\ r.days = n.days /\ r.renew = q.renew
    BY <1>1, <1>2, ZenonT(30) DEF Defined
  <1>5. r # Nil
    BY <1>4, NilUndefined, Zenon
  <1> HIDE DEF r
  <1>6. Lasts(q, r)
    BY <1>1, <1>2, <1>3, <1>4, <1>5 DEF Lasts, isExpired, isDefined, isExtension, getEndDate, Defined
  <1> QED BY <1>3, <1>4, <1>6, Stored, ZenonT(30) DEF q, IInv, ITypeOK

\* renewPolicy ends no earlier.
LEMMA RenewLasts ==
  ASSUME IInv, NEW f \in Files, NEW t \in Types, NEW enable \in BOOLEAN, renewPolicyOnFile(f, t, enable)
  PROVE  /\ policy' \in PolicyTables
         /\ \A f1 \in Files, t1 \in Types : Lasts(policy[f1][t1], policy'[f1][t1])
  <1> DEFINE q == policy[f][t]
             st(k) == q.start + k * 2 * q.days
             r(k) == [q EXCEPT !.start = st(k), !.renew = enable]
  <1>1. PICK k \in 0 .. MaxTime : now < st(k) + 2 * q.days /\ policy' = [policy EXCEPT ![f][t] = r(k)]
    BY ZenonT(30) DEF renewPolicyOnFile
  <1>2. q \in Defined /\ now \in Nat
    BY DEF IInv, ITypeOK, PolicyTables, renewPolicyOnFile
  <1>3. k \in Nat
    BY ImmutableAssumption
  <1> DEFINE s == st(k)
             x == r(k)
  <1> HIDE DEF q
  <1>4. s \in Nat /\ s >= q.start /\ now < s + 2 * q.days
    <2>1. q.days \in Nat /\ q.start \in Nat
      BY <1>2, Zenon DEF Defined
    <2>2. k * 2 \in Nat
      BY <1>3
    <2>3. (k * 2) * q.days \in Nat
      BY <2>1, <2>2
    <2> QED BY <1>1, <2>1, <2>3
  <1> HIDE DEF s
  <1>5. x = [q EXCEPT !.start = s, !.renew = enable]
    BY Zenon DEF s
  <1> HIDE DEF x
  <1>6. x \in Defined /\ x.start = s /\ x.days = q.days /\ x.renew = enable
    <2>1. q \in [start : Nat, days : Nat, renew : BOOLEAN] /\ q.start > 0 /\ q.days > 0
      BY <1>2, Zenon DEF Defined
    <2>2. x \in [start : Nat, days : Nat, renew : BOOLEAN]
      BY <1>4, <1>5, <2>1, ZenonT(30)
    <2>3. x.start = s /\ x.days = q.days
      BY <1>5, <2>1, Zenon
    <2>4. x.renew = enable
      BY <1>5, <2>1, ZenonT(30)
    <2>5. x.start > 0 /\ x.days > 0
      BY <1>4, <2>1, <2>3
    <2> QED BY <2>2, <2>3, <2>4, <2>5, Zenon DEF Defined
  <1>7. x # Nil
    BY <1>6, NilUndefined, Zenon
  <1>8. Lasts(q, x)
    BY <1>2, <1>4, <1>6, <1>7 DEF Lasts, isExpired, isDefined, getEndDate, Defined
  <1> QED BY <1>1, <1>6, <1>8, Stored, ZenonT(30) DEF q, x, IInv, ITypeOK

\* A request of the policy service shortens no policy.
LEMMA ChangeLasts ==
  ASSUME IInv, NEW s \in Sessions, NEW f \in Files, NEW t \in Requested, NEW i \in Inputs, handlePolicyChange(s, f, t, i)
  PROVE  /\ policy' \in PolicyTables
         /\ \A f1 \in Files, t1 \in Types : Lasts(policy[f1][t1], policy'[f1][t1])
  <1>1. t \in Types /\ i.renew \in BOOLEAN
    BY ImmutableAssumption, Zenon DEF Types
  <1> QED BY <1>1, SetLasts, ExtendLasts, RenewLasts, Zenon DEF handlePolicyChange

\* The clean-up after a delete changes the policies of one file of the operation.
LEMMA DeletePoliciesTypes ==
  ASSUME IInv, NEW p \in Procs, NEW failed, DeletePolicies(p, failed)
  PROVE  /\ policy' \in PolicyTables /\ now' \in Nat /\ faults' \in Nat
         /\ op[p].pc \in {"policies", "subpolicies"} /\ op'[p] # op[p]
         /\ \A f \in Files : policy'[f] # policy[f] => f \in {op[p].f, op[p].g}
  <1> DEFINE n == [t \in Types |-> IF t \in failed THEN policy[Target(op[p])][t] ELSE Nil]
  <1>1. op[p].pc \in {"policies", "subpolicies"} /\ policy' = [policy EXCEPT ![Target(op[p])] = n]
    BY Zenon DEF DeletePolicies, deleteAllPolicies
  <1>2. op[p] \in OpRecords /\ op[p].f \in Files /\ op[p].g \in Files
    BY <1>1, OpFacts, Zenon
  <1>3. Target(op[p]) \in {op[p].f, op[p].g} /\ Target(op[p]) \in Files
    BY <1>2, Zenon DEF Target
  <1>4. n \in [Types -> Defined \cup {Nil}]
    BY <1>3, ZenonT(30) DEF IInv, ITypeOK, PolicyTables
  <1> HIDE DEF n
  <1>5. policy' \in PolicyTables /\ \A f \in Files : policy'[f] # policy[f] => f \in {op[p].f, op[p].g}
    BY <1>1, <1>3, <1>4, Zenon DEF IInv, ITypeOK, PolicyTables
  <1>6. now' \in Nat /\ faults' \in Nat
    BY DEF DeletePolicies, OpOnly, IInv, ITypeOK
  <1>7. op'[p] # op[p]
    <2> DEFINE o == IF op[p].pc = "policies" THEN Idle ELSE [op[p] EXCEPT !.pc = "move"]
    <2>1. op' = [op EXCEPT ![p] = o]
      BY ZenonT(30) DEF DeletePolicies
    <2>2. o.pc \in {"idle", "move"}
      BY <1>2, IdleType, Zenon DEF OpRecords
    <2>3. op'[p] = o
      BY <2>1, Zenon DEF IInv, ITypeOK
    <2> HIDE DEF o
    <2> QED BY <1>1, <2>2, <2>3, Zenon
  <1> QED BY <1>1, <1>5, <1>6, <1>7, Zenon

\* Policies go when nothing that forbids it is in force.
LEMMA DeletePoliciesKeeps ==
  ASSUME IInv, History, NEW p \in Procs, NEW failed, DeletePolicies(p, failed)
  PROVE  IInv'
  <1>1. policy' \in PolicyTables /\ now' \in Nat /\ faults' \in Nat /\ op[p].pc \in {"policies", "subpolicies"}
    BY DeletePoliciesTypes, Zenon
  <1>2. CASE op[p].pc = "policies"
    <2>1. op' = [op EXCEPT ![p] = Idle]
      BY <1>2, ZenonT(30) DEF DeletePolicies
    <2> QED BY <1>1, <2>1, EndKeeps, ZenonT(30)
  <1>3. CASE op[p].pc = "subpolicies"
    <2> DEFINE o == [op[p] EXCEPT !.pc = "move", !.left = op[p].left]
    <2>1. op' = [op EXCEPT ![p].pc = "move"]
      BY <1>3, ZenonT(30) DEF DeletePolicies
    <2>2. op' = [op EXCEPT ![p] = o]
      BY <2>1, GotoLeft, ZenonT(30)
    <2>3. op[p] \in OpRecords /\ Cleared(op[p], held[p]) /\ Shape(op[p])
      BY OpFacts, Zenon
    <2>4. op[p].kind = "rename" /\ op[p].left \in Seq(Types) /\ op[p].pc # "idle"
      BY <1>3, <2>3, Zenon DEF Shape, OpRecords
    <2>5. ~op[p].blind => Cleared(o, held[p])
      BY <1>3, <2>3, Moved DEF Cleared
    <2> QED BY <1>1, <2>2, <2>4, <2>5, GotoKeeps, ZenonT(30)
  <1> QED BY <1>1, <1>2, <1>3, Zenon

\* The move of policies, if it does not fail.
LEMMA MoveAll ==
  ASSUME policy \in PolicyTables, NEW f \in Files, NEW g \in Files, f # g, moveAllPolicies(f, g)
  PROVE  /\ policy' \in PolicyTables
         /\ \A x \in Files : policy'[x] # policy[x] => x \in {f, g}
         /\ \A t \in Types : policy'[f][t] = Nil /\ (policy[f][t] # Nil => policy'[g][t] = policy[f][t])
  <1> DEFINE moved == [t \in Types |-> IF policy[f][t] # Nil THEN policy[f][t] ELSE policy[g][t]]
             gone  == [t \in Types |-> Nil]
  <1>1. policy' = [policy EXCEPT ![f] = gone, ![g] = moved]
    BY Zenon DEF moveAllPolicies
  <1>2. moved \in [Types -> Defined \cup {Nil}] /\ gone \in [Types -> Defined \cup {Nil}]
    BY Zenon DEF PolicyTables
  <1>3. \A t \in Types : gone[t] = Nil /\ (policy[f][t] # Nil => moved[t] = policy[f][t])
    BY Zenon
  <1> HIDE DEF moved, gone
  <1>4. policy' \in PolicyTables
    BY <1>1, <1>2, Zenon DEF PolicyTables
  <1>5. policy'[f] = gone /\ policy'[g] = moved /\ \A x \in Files \ {f, g} : policy'[x] = policy[x]
    BY <1>1, Zenon DEF PolicyTables
  <1> QED BY <1>3, <1>4, <1>5, Zenon

\* Policies that follow a file are policies.
LEMMA MovePoliciesTypes ==
  ASSUME IInv, NEW p \in Procs, NEW failed \in BOOLEAN, MovePolicies(p, failed)
  PROVE  /\ policy' \in PolicyTables /\ now' \in Nat /\ faults' \in Nat
         /\ op[p].pc = "policies" /\ op'[p] # op[p] /\ op' = [op EXCEPT ![p] = Idle]
         /\ \A f \in Files : policy'[f] # policy[f] => f \in {op[p].f, op[p].g}
  <1>1. op[p].pc = "policies" /\ op[p].kind = "rename" /\ op' = [op EXCEPT ![p] = Idle]
    BY Zenon DEF MovePolicies
  <1>2. Shape(op[p]) /\ op[p].pc # "idle"
    BY <1>1, OpFacts, Zenon
  <1>3. op[p].f \in Files /\ op[p].g \in Files /\ op[p].f # op[p].g
    BY <1>1, <1>2, Zenon DEF Shape
  <1>4. now' \in Nat /\ faults' \in Nat /\ policy \in PolicyTables
    BY DEF MovePolicies, OpOnly, IInv, ITypeOK
  <1>5. policy' = policy \/ moveAllPolicies(op[p].f, op[p].g)
    BY Zenon DEF MovePolicies
  <1>6. policy' \in PolicyTables /\ \A f \in Files : policy'[f] # policy[f] => f \in {op[p].f, op[p].g}
    BY <1>3, <1>4, <1>5, MoveAll, Zenon
  <1>7. op'[p] # op[p]
    BY <1>1, IdleType, Zenon DEF IInv, ITypeOK
  <1> QED BY <1>1, <1>4, <1>6, <1>7, Zenon

\* The other steps of an operation leave the policies alone.
LEMMA PlainTypes ==
  ASSUME IInv, NEW p \in Procs,
         \/ \E kind \in Kinds, f, g \in Files : Begin(p, kind, f, g)
         \/ \E b \in BOOLEAN : CheckPolicy(p, b)
         \/ Write(p) \/ Read(p) \/ Copy(p) \/ Delete(p) \/ Abort(p)
         \/ Rename(p) \/ RenameDelete(p) \/ RenameMove(p)
  PROVE  /\ UNCHANGED <<now, policy>> /\ now' \in Nat /\ faults' \in Nat /\ policy' \in PolicyTables
         /\ op[p].pc # "policies" /\ \A q \in Procs \ {p} : op'[q] = op[q]
  <1>1. UNCHANGED <<now, policy>> /\ op[p].pc # "policies"
    BY IdleType, Zenon DEF Begin, CheckPolicy, Write, Read, Copy, Delete, Abort, Rename, RenameDelete, RenameMove, Passed, OpOnly
  <1>2. faults' = faults \/ faults' = faults + 1
    BY Zenon DEF Begin, CheckPolicy, Write, Read, Copy, Delete, Abort, Rename, RenameDelete, RenameMove
  <1>3. \E o : op' = [op EXCEPT ![p] = o]
    BY ZenonT(60) DEF Begin, CheckPolicy, Write, Read, Copy, Delete, Abort, Rename, RenameDelete, RenameMove, End, Goto
  <1>4. \A q \in Procs \ {p} : op'[q] = op[q]
    BY <1>3, Zenon DEF IInv, ITypeOK
  <1> QED BY <1>1, <1>2, <1>4 DEF IInv, ITypeOK

\* The steps of operations on files.
LEMMA FileOpsKeeps ==
  ASSUME IInv, History, FileOps
  PROVE  IInv'
  <1>1. ASSUME NEW p \in Procs, NEW kind \in Kinds, NEW f \in Files, NEW g \in Files, Begin(p, kind, f, g) PROVE IInv'
    <2>1. kind \in DOMAIN Checks
      BY ImmutableAssumption, Zenon DEF Checks
    <2> QED BY <1>1, <2>1, BeginKeeps, Zenon
  <1>2. ASSUME NEW p \in Procs, NEW b \in BOOLEAN, CheckPolicy(p, b) PROVE IInv'
    BY <1>2, CheckKeeps, Zenon
  <1>3. ASSUME NEW p \in Procs, NEW b \in BOOLEAN, MovePolicies(p, b) PROVE IInv'
    BY <1>3, MovePoliciesTypes, EndKeeps, Zenon
  <1>4. ASSUME NEW p \in Procs, NEW failed, DeletePolicies(p, failed) PROVE IInv'
    BY <1>4, DeletePoliciesKeeps, Zenon
  <1>5. ASSUME NEW p \in Procs, Write(p) \/ Read(p) \/ Copy(p) \/ Abort(p) PROVE IInv'
    <2>1. op' = [op EXCEPT ![p] = Idle]
      BY <1>5, Zenon DEF Write, Read, Copy, Abort, End
    <2>2. now' \in Nat /\ faults' \in Nat /\ policy' \in PolicyTables
      BY <1>5, PlainTypes, Zenon
    <2> QED BY <2>1, <2>2, EndKeeps, ZenonT(30)
  <1>6. ASSUME NEW p \in Procs, Delete(p) \/ RenameMove(p) PROVE IInv'
    BY <1>6, DeleteKeeps, Zenon
  <1>7. ASSUME NEW p \in Procs, Rename(p) PROVE IInv'
    BY <1>7, RenameKeeps, Zenon
  <1>8. ASSUME NEW p \in Procs, RenameDelete(p) PROVE IInv'
    BY <1>8, RenameDeleteKeeps, Zenon
  <1> QED BY <1>1, <1>2, <1>3, <1>4, <1>5, <1>6, <1>7, <1>8, ZenonT(30) DEF FileOps

\* Every step of the management API leaves the operations alone, and makes
\* no valid policy end earlier.
LEMMA ApiLasts ==
  ASSUME IInv, Api
  PROVE  /\ UNCHANGED <<now, op, faults>> /\ policy' \in PolicyTables
         /\ \A f \in Files, t \in Types : Lasts(policy[f][t], policy'[f][t])
  <1>1. UNCHANGED <<now, op, faults>>
    BY Zenon DEF Api, onAccept, doClose, handleNewRequest, onWrite, handleLogin, handlePolicyChange, ApiOnly
  <1>2. CASE UNCHANGED policy
    BY <1>1, <1>2, ZenonT(30) DEF IInv, ITypeOK, Lasts
  <1>3. CASE ~UNCHANGED policy
    <2>1. PICK s \in Sessions : \E f \in Files, t \in Requested, i \in Inputs : handlePolicyChange(s, f, t, i)
      BY <1>3, Zenon DEF Api, onAccept, doClose, handleNewRequest, onWrite, handleLogin
    <2> QED BY <1>1, <2>1, ChangeLasts, ZenonT(30)
  <1> QED BY <1>1, <1>2, <1>3, Zenon

\* The proxy is started again: the policies are in Redis.
LEMMA RestartKeeps ==
  ASSUME IInv, History, Restart
  PROVE  IInv'
  <1>1. op' = [p \in Procs |-> Idle] /\ faults' = faults + 1 /\ UNCHANGED <<now, policy>>
    BY Zenon DEF Restart
  <1>2. op' \in [Procs -> OpRecords] /\ \A p \in Procs : op'[p] = Idle
    BY <1>1, IdleType, Zenon
  <1>3. \A p \in Procs : held'[p] = {}
    BY <1>2, HeldNext, Zenon
  <1>4. held' \in [Procs -> SUBSET (Files \X Types)]
    <2>1. held' = [q \in Procs |-> held'[q]]
      BY ZenonT(30) DEF History
    <2> QED BY <1>3, <2>1, Zenon
  <1>5. now' \in Nat /\ faults' \in Nat /\ policy' \in PolicyTables
    BY <1>1 DEF IInv, ITypeOK
  <1> QED BY <1>2, <1>3, <1>4, <1>5, IdleType, ZenonT(30) DEF IInv, ITypeOK, HeldValid

\* Every step keeps IInv.
LEMMA IInvNext ==
  ASSUME IInv, [Next]_vars
  PROVE  IInv'
  <1>1. CASE UNCHANGED vars
    BY <1>1, ZenonT(30) DEF vars, IInv, ITypeOK, HeldValid, isPolicyValid, isExpired
  <1>2. CASE Api /\ History
    <2>1. UNCHANGED op /\ now' \in Nat /\ faults' \in Nat /\ policy' \in PolicyTables
      BY <1>2, ApiLasts, Zenon DEF IInv, ITypeOK
    <2> QED BY <1>2, <2>1, QuietOps, Zenon
  <1>3. CASE FileOps /\ History
    BY <1>3, FileOpsKeeps, Zenon
  <1>4. CASE Tick /\ History
    <2>1. UNCHANGED op /\ now' \in Nat /\ faults' \in Nat /\ policy' \in PolicyTables
      BY <1>4 DEF Tick, IInv, ITypeOK
    <2> QED BY <1>4, <2>1, QuietOps, Zenon
  <1>5. CASE Restart /\ History
    BY <1>5, RestartKeeps, Zenon
  <1> QED BY <1>1, <1>2, <1>3, <1>4, <1>5, Zenon DEF Next

\* IInv holds at the start.
LEMMA IInvInit == Init => IInv
  <1> SUFFICES ASSUME Init PROVE IInv
    BY Zenon
  <1>1. op \in [Procs -> OpRecords] /\ \A p \in Procs : op[p] = Idle
    BY IdleType, Zenon DEF Init
  <1>2. policy \in PolicyTables
    BY Zenon DEF Init, PolicyTables
  <1>3. held \in [Procs -> SUBSET (Files \X Types)] /\ \A p \in Procs : held[p] = {}
    BY Zenon DEF Init
  <1>4. now \in Nat /\ faults \in Nat
    BY Zenon DEF Init
  <1> QED BY <1>1, <1>2, <1>3, <1>4, IdleType, ZenonT(30) DEF IInv, ITypeOK, HeldValid

\* IInv holds always.
LEMMA IInvAlways == Spec => []IInv
  BY IInvInit, IInvNext, PTL DEF Spec

\* No operation gets past its checks against a policy that the manual says denies
\* it and that was valid all along, other than a rename against a deletion hold
\* (proxy_file_ops.cc:27, 230, 906, 1447, 1546, 1683), for any number of
\* requests served at the same time.
THEOREM HoldsAlways == Spec => []HoldsEnforced
  <1>0. Barring("delete") = Forbidding("delete")
    BY Zenon DEF Barring, Overlooked
  <1>1. IInv => HoldsEnforced
    BY <1>0, NoneLeft DEF IInv, ITypeOK, OpRecords, Cleared, HoldsEnforced, Barring
  <1> QED BY IInvAlways, <1>1, PTL

\* The management API never removes or shortens a valid policy, and nothing
\* else does but the clean-up after a delete and the move after a rename
\* (immutable_policy_store_redis.cc:17-371).
THEOREM PoliciesLast == Spec => NeverShortened
  <1>1. ASSUME IInv, [Next]_vars, NEW f \in Files, NEW t \in Types
        PROVE  policy'[f][t] = policy[f][t] \/ Removing(f) \/ Lasts(policy[f][t], policy'[f][t])
    <2>1. CASE Api
      BY <1>1, <2>1, ApiLasts, Zenon
    <2>2. CASE UNCHANGED policy
      BY <2>2, Zenon
    <2>3. ASSUME NEW p \in Procs, NEW b \in BOOLEAN, MovePolicies(p, b) PROVE policy'[f] = policy[f] \/ Removing(f)
      BY <1>1, <2>3, MovePoliciesTypes, Zenon DEF Removing
    <2>4. ASSUME NEW p \in Procs, NEW failed, DeletePolicies(p, failed) PROVE policy'[f] = policy[f] \/ Removing(f)
      BY <1>1, <2>4, DeletePoliciesTypes, Zenon DEF Removing
    <2>5. CASE FileOps
      <3>1. PICK p \in Procs :
              \/ \E b \in BOOLEAN : MovePolicies(p, b)
              \/ \E failed : DeletePolicies(p, failed)
              \/ /\ ~\E b \in BOOLEAN : MovePolicies(p, b)
                 /\ \/ \E kind \in Kinds, f1, g \in Files : Begin(p, kind, f1, g)
                    \/ \E b \in BOOLEAN : CheckPolicy(p, b)
                    \/ Write(p) \/ Read(p) \/ Copy(p) \/ Delete(p) \/ Abort(p)
                    \/ Rename(p) \/ RenameDelete(p) \/ RenameMove(p)
        BY <2>5, ZenonT(30) DEF FileOps
      <3> QED BY <1>1, <2>2, <2>3, <2>4, <3>1, PlainTypes, ZenonT(30)
    <2>6. CASE Tick \/ Restart \/ UNCHANGED vars
      BY <2>2, <2>6, Zenon DEF Tick, Restart, vars
    <2> QED BY <1>1, <2>1, <2>5, <2>6, Zenon DEF Next
  <1>2. ASSUME IInv, [Next]_vars
        PROVE  \A f \in Files, t \in Types :
                 LET q == policy[f][t]
                     r == policy'[f][t]
                 IN  q # Nil /\ ~isExpired(q, now) /\ r # q /\ ~Removing(f) =>
                       /\ r # Nil /\ ~isExpired(r, now)
                       /\ q.renew \/ r.renew \/ getEndDate(r) >= getEndDate(q)
    BY <1>1, <1>2, ZenonT(30) DEF Lasts
  <1> QED BY IInvAlways, <1>2, PTL DEF Spec, NeverShortened

\* The policies that were valid all along follow a file to its new name
\* (proxy_file_ops.cc:1644), if no fault meets the move.
THEOREM PoliciesFollow == Spec => HoldsFollow
  <1>1. ASSUME IInv, [Next]_vars, NEW p \in Procs,
               op[p].kind = "rename", op[p].pc = "policies", op'[p] = Idle, faults' = faults
        PROVE  MovePolicies(p, FALSE)
    <2>1. faults \in Nat /\ op[p] # Idle
      BY <1>1, OpFacts, Zenon DEF IInv, ITypeOK
    <2>2. ~Api /\ ~Tick /\ ~Restart /\ ~UNCHANGED vars
      BY <1>1, <2>1, ApiLasts DEF Tick, Restart, vars
    <2>3. FileOps
      BY <1>1, <2>2, Zenon DEF Next
    <2>4. PICK w \in Procs :
            \/ \E b \in BOOLEAN : MovePolicies(w, b)
            \/ \E failed : DeletePolicies(w, failed)
            \/ \E kind \in Kinds, f1, g \in Files : Begin(w, kind, f1, g)
            \/ \E b \in BOOLEAN : CheckPolicy(w, b)
            \/ Write(w) \/ Read(w) \/ Copy(w) \/ Delete(w) \/ Abort(w)
            \/ Rename(w) \/ RenameDelete(w) \/ RenameMove(w)
      BY <2>3, ZenonT(30) DEF FileOps
    <2>5. CASE \E b \in BOOLEAN : MovePolicies(w, b)
      <3>1. PICK b \in BOOLEAN : MovePolicies(w, b)
        BY <2>5, Zenon
      <3>2. ~b
        BY <1>1, <2>1, <3>1 DEF MovePolicies
      <3>3. w = p
        BY <1>1, <2>1, <3>1, Zenon DEF MovePolicies, IInv, ITypeOK
      <3> QED BY <3>1, <3>2, <3>3, ZenonT(30)
    <2>6. CASE \E failed : DeletePolicies(w, failed)
      <3>1. op'[p] = op[p] \/ w = p
        BY <2>6 DEF DeletePolicies, IInv, ITypeOK
      <3>2. w # p
        BY <1>1, <2>6, Zenon DEF DeletePolicies
      <3> QED BY <1>1, <2>1, <3>1, <3>2, Zenon
    <2>7. CASE ~((\E b \in BOOLEAN : MovePolicies(w, b)) \/ (\E failed : DeletePolicies(w, failed)))
      <3>1. op[w].pc # "policies" /\ \A q \in Procs \ {w} : op'[q] = op[q]
        BY <1>1, <2>4, <2>7, PlainTypes, ZenonT(30)
      <3> QED BY <1>1, <2>1, <3>1, Zenon
    <2> QED BY <2>5, <2>6, <2>7, ZenonT(30)
  <1>2. ASSUME IInv, [Next]_vars, NEW p \in Procs,
               op[p].kind = "rename", op[p].pc = "policies", op'[p] = Idle, faults' = faults,
               NEW t \in Types, <<op[p].f, t>> \in held[p]
        PROVE  policy'[op[p].g][t] = policy[op[p].f][t] /\ policy'[op[p].f][t] = Nil
    <2>1. moveAllPolicies(op[p].f, op[p].g)
      BY <1>1, <1>2, Zenon DEF MovePolicies
    <2>2. Shape(op[p]) /\ HeldValid(p)
      BY <1>2, OpFacts, Zenon
    <2>3. op[p].f \in Files /\ op[p].g \in Files /\ op[p].f # op[p].g
      BY <1>2, <2>2, Zenon DEF Shape
    <2>4. policy[op[p].f][t] # Nil
      BY <1>2, <2>2, Zenon DEF HeldValid, isPolicyValid
    <2>5. policy \in PolicyTables
      BY <1>2, Zenon DEF IInv, ITypeOK
    <2> QED BY <2>1, <2>3, <2>4, <2>5, MoveAll, ZenonT(60)
  <1>3. ASSUME IInv, [Next]_vars
        PROVE  \A p \in Procs :
                 op[p].kind = "rename" /\ op[p].pc = "policies" /\ op'[p] = Idle /\ faults' = faults =>
                   \A t \in Types : <<op[p].f, t>> \in held[p] =>
                     policy'[op[p].g][t] = policy[op[p].f][t] /\ policy'[op[p].f][t] = Nil
    BY <1>2, <1>3, Zenon
  <1> QED BY IInvAlways, <1>3, PTL DEF Spec, HoldsFollow

=============================================================================
