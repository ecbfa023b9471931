---------------------------- MODULE StagingProofs ----------------------------
(***************************************************************************)
(* Proofs about Staging, for any number of files and requests and any      *)
(* number of faults, in the configurations and environments that Orderly   *)
(* describes, as long as no failure is left unhandled.                     *)
(*                                                                         *)
(* Safe says of one file what must hold whenever its request may be cut    *)
(* off: the current content is in the cloud, or the staged copy is used,   *)
(* has it and is protected.  It is stated of the values of the variables,  *)
(* so that it can be stated of several sets A of contents that are         *)
(* current.  Duty is what a request has to keep to in each of its steps.   *)
(***************************************************************************)
EXTENDS Staging, TLAPS

\* The cleaner and changes in place, which do not pin, exclude each other; and
\* when writes to the directory may fail, nothing else does.
Orderly ==
    \A c \in Modes : c.staging =>
        /\ c.clean => c.kinds \cap {"append", "overwrite"} = {}
        /\ "stage" \in c.faults => c.faults = {"stage"}

InPlace == {"append", "overwrite"}
Labels ==
    {"pin", "open", "fill", "mark", "putStaged", "modify", "putModified", "cloud", "putCloud",
     "deleteMeta", "deleteChunks", "deleteStaged", "unlock"}
Kinds == {"write", "empty", "append", "overwrite", "delete"}
OpRecords ==
    [pc : Labels \cup {"idle"}, kind : Kinds \cup {"none"}, f : Files \cup {Nil}, d : Data,
     m : Metas \cup {Nil}, t : Nat, ok : BOOLEAN]
BgRecords ==
    [pc : {"idle", "check", "lock", "read", "write", "put", "end"}, f : Files \cup {Nil}, v : Int,
     m : Metas \cup {Nil}, d : Data]

STypeOK ==
    /\ mode \in Modes /\ now \in Nat \ {0} /\ writes \in Nat /\ faults \in Nat
    /\ meta \in [Files -> Metas \cup {Nil}] /\ staged \in [Files -> Copies \cup {Nil}]
    /\ pending \subseteq Files \X Int /\ rest \subseteq Files \X Int /\ comp \subseteq Files \X Int
    /\ op \in [Procs -> OpRecords] /\ bg \in BgRecords
    /\ allowed \in [Files -> SUBSET Data]

Holds(p, f) == op[p].pc # "idle" /\ op[p].f = f
BgLocked == {"read", "write", "put", "end"}
BgHolds(f) == bg.pc \in BgLocked /\ bg.f = f
Unheld(f) == ~BgHolds(f) /\ \A p \in Procs : ~Holds(p, f)

\* A file that was cut off while it was filled stays locked.
SLockInv ==
    /\ \A p \in Procs : (op[p].pc = "idle" <=> op[p] = Idle) /\ (op[p].pc # "idle" => op[p].f \in Files)
    /\ (bg.pc = "idle" <=> bg = NoKey) /\ (bg.pc # "idle" => bg.f \in Files)
    /\ \A p \in Procs, f \in Files : Holds(p, f) =>
          f \in locked /\ ~BgHolds(f) /\ \A q \in Procs \ {p} : ~Holds(q, f)
    /\ \A f \in Files : BgHolds(f) => f \in locked
    /\ \A f \in Files : Torn \in allowed[f] => f \in locked /\ Unheld(f)

Timely(m, s, n, c) ==
    m # Nil =>
      /\ m.mtime <= n /\ m.smtime <= n
      /\ m.coded => Recent(m) /\ m.ssize # -1
      /\ Recent(m) => c.staging
      /\ s # Nil => s.mtime >= m.smtime

\* The size in the metadata, if there is one, does not cut the staged copy.
Sized(m, s) == m.ssize = -1 \/ ~(m.ssize < s.size)

HasKey(f, K) == \E k \in K : k[1] = f

Safe(f, m, s, P, K, c, A) ==
    /\ m = Nil => Nil \in A
    /\ m # Nil =>
         /\ m.cloud \in A \/ (Recent(m) /\ s # Nil /\ (f \in P \/ ~c.clean))
         /\ Recent(m) /\ s # Nil => s.data \in A /\ (Sized(m, s) \/ Torn \in A)
         /\ m.smtime > m.mtime => s # Nil /\ f \in P /\ HasKey(f, K)
         /\ Recent(m) /\ ~c.clean => s # Nil

\* A write to the directory has failed, and the write to the cloud is under way.
Exposed(o, c) == o.pc \in {"cloud", "putCloud"} /\ c.staging /\ "stage" \in c.faults

Writing(o, m) == o.kind = "write" /\ o.m = (IF m = Nil THEN Fresh ELSE m) /\ o.m.mtime <= o.t
Filled(o, s, P) == o.f \in P /\ s # Nil /\ s.data = o.d /\ s.size = o.d /\ s.mtime >= o.t
Modified(o, m) == o.kind \in InPlace /\ m # Nil /\ Recent(m)
Modifying(o, m) == Modified(o, m) /\ o.m = m

Duty(o, m, s, P, K, c, n, A) ==
    /\ o.d \in A /\ o.t \in 1 .. n /\ o.kind \in c.kinds /\ o.m \in Metas
    /\ o.kind \in InPlace \cup {"write"} => o.d \in Nat
    /\ o.ok => o.pc = "unlock" /\ Safe(o.f, m, s, P, K, c, {o.d})
    /\ o.pc \notin Midway /\ ~Exposed(o, c) => Safe(o.f, m, s, P, K, c, A)
    /\ o.pc \in Midway => c.staging /\ Safe(o.f, m, s, P, K, c, A \cup {Torn})
    /\ o.pc = "pin" => Writing(o, m)
    /\ o.pc = "open" => Writing(o, m) /\ o.f \in P
    /\ o.pc = "fill" => Writing(o, m) /\ o.f \in P /\ s # Nil
    /\ o.pc = "mark" => \/ Writing(o, m) /\ Filled(o, s, P)
                        \/ Modified(o, m) /\ s # Nil /\ s.data = o.d /\ Sized(m, s)
    /\ o.pc = "putStaged" => Writing(o, m) /\ Filled(o, s, P) /\ HasKey(o.f, K)
    /\ o.pc = "modify" => Modifying(o, m)
    /\ o.pc = "putModified" =>
         /\ Modifying(o, m) /\ s # Nil /\ s.data = o.d
         /\ IF o.kind = "append" THEN s.size = o.d ELSE Sized(m, s)
    /\ o.pc = "deleteMeta" => o.d = Nil
    /\ o.pc \in {"deleteChunks", "deleteStaged"} => o.d = Nil /\ m = Nil

Listed == pending \cup comp

FileOK(f) ==
    /\ Timely(meta[f], staged[f], now, mode)
    /\ (\A p \in Procs : ~Holds(p, f)) => Safe(f, meta[f], staged[f], pinned, Listed, mode, allowed[f])

OpOK(p) ==
    op[p].pc # "idle" =>
        Duty(op[p], meta[op[p].f], staged[op[p].f], pinned, Listed, mode, now, allowed[op[p].f])

BgOK ==
    /\ bg.pc \in {"read", "write", "put"} => bg.m \in Metas /\ bg.m = meta[bg.f]
    /\ bg.pc \in {"write", "put"} => bg.m.coded /\ bg.d \in allowed[bg.f]
    /\ bg.pc = "end" => meta[bg.f] # Nil /\ meta[bg.f].cloud \in allowed[bg.f] /\ meta[bg.f].smtime = 0

SInv ==
    /\ STypeOK /\ SLockInv /\ BgOK
    /\ \A f \in Files : FileOK(f)
    /\ \A p \in Procs : OpOK(p)

\* Values of different kinds differ.
LEMMA Apart == Nil # Torn /\ Nil \notin Nat /\ Nil \notin Metas /\ Nil \notin Copies /\ Torn \notin Nat
  BY StagingAssumption, Zenon

\* No request, and no file to write back.
LEMMA IdleType == Idle \in OpRecords /\ Idle.pc = "idle" /\ NoKey \in BgRecords /\ NoKey.pc = "idle"
  BY DEF Idle, OpRecords, NoKey, BgRecords, Data

\* The metadata of a new file.
LEMMA FreshType == Fresh \in Metas /\ Fresh.mtime = 0 /\ Fresh.smtime = 0
  BY DEF Fresh, Metas, Data

\* Safe needs no less than it says of pins and keys, and allows more contents.
LEMMA SafeMore ==
  ASSUME NEW f, NEW m, NEW s, NEW P, NEW K, NEW c, NEW A, NEW P2, NEW K2, NEW A2,
         Safe(f, m, s, P, K, c, A), f \in P => f \in P2, HasKey(f, K) => HasKey(f, K2), A \subseteq A2
  PROVE  Safe(f, m, s, P2, K2, c, A2)
  BY Zenon DEF Safe

\* A request can do with more pins and keys, and with more time.
LEMMA DutyMore ==
  ASSUME NEW o, NEW m, NEW s, NEW P, NEW K, NEW c, NEW n \in Nat, NEW A, NEW P2, NEW K2, NEW n2 \in Nat,
         Duty(o, m, s, P, K, c, n, A), o.f \in P => o.f \in P2, HasKey(o.f, K) => HasKey(o.f, K2), n <= n2
  PROVE  Duty(o, m, s, P2, K2, c, n2, A)
  <1>1. \A B : Safe(o.f, m, s, P, K, c, B) => Safe(o.f, m, s, P2, K2, c, B)
    BY SafeMore, Zenon
  <1>2. o.t \in 1 .. n2
    BY DEF Duty
  <1>3. Filled(o, s, P) => Filled(o, s, P2)
    BY Zenon DEF Filled
  <1> QED BY <1>1, <1>2, <1>3, ZenonT(30) DEF Duty

\* What happens to one file does not change another.
Apartly(f) ==
    \A g \in Files \ {f} :
        /\ meta'[g] = meta[g] /\ staged'[g] = staged[g] /\ allowed'[g] = allowed[g]
        /\ g \in pinned => g \in pinned'
        /\ HasKey(g, Listed) => HasKey(g, Listed')

\* A step on a file that changes no other, as the files and requests that are
\* not at it see it.
LEMMA OthersOK ==
  ASSUME SInv, NEW f, Apartly(f), mode' = mode, now' = now, NEW g \in Files \ {f}
  PROVE  /\ Timely(meta'[g], staged'[g], now', mode')
         /\ Safe(g, meta[g], staged[g], pinned, Listed, mode, allowed[g])
              => Safe(g, meta'[g], staged'[g], pinned', Listed', mode', allowed'[g])
         /\ \A o : o.f = g /\ Duty(o, meta[g], staged[g], pinned, Listed, mode, now, allowed[g])
              => Duty(o, meta'[g], staged'[g], pinned', Listed', mode', now', allowed'[g])
  <1>1. /\ meta'[g] = meta[g] /\ staged'[g] = staged[g] /\ allowed'[g] = allowed[g]
        /\ g \in pinned => g \in pinned'
        /\ HasKey(g, Listed) => HasKey(g, Listed')
    BY Zenon DEF Apartly
  <1>2. Timely(meta[g], staged[g], now, mode) /\ now \in Nat
    BY Zenon DEF SInv, FileOK, STypeOK
  <1>3. now <= now'
    BY <1>2
  <1>4. ASSUME Safe(g, meta[g], staged[g], pinned, Listed, mode, allowed[g])
        PROVE  Safe(g, meta[g], staged[g], pinned', Listed', mode, allowed[g])
    BY <1>1, <1>4, SafeMore, ZenonT(30)
  <1>5. ASSUME NEW o, o.f = g, Duty(o, meta[g], staged[g], pinned, Listed, mode, now, allowed[g])
        PROVE  Duty(o, meta[g], staged[g], pinned', Listed', mode, now', allowed[g])
    BY <1>1, <1>2, <1>3, <1>5, DutyMore, ZenonT(30)
  <1> QED BY <1>1, <1>2, <1>4, <1>5, Zenon

\* A step of the request of p, which is at its file f.
LEMMA RequestStep ==
  ASSUME SInv, STypeOK', NEW p \in Procs, op[p].pc # "idle", NEW f \in Files, f = op[p].f, Apartly(f),
         NEW o, op' = [op EXCEPT ![p] = o], mode' = mode, now' = now, bg' = bg,
         o = Idle \/ (o.pc # "idle" /\ o.f = f /\ locked' = locked),
         o = Idle => locked' = locked \ {f} /\ Safe(f, meta'[f], staged'[f], pinned', Listed', mode, allowed'[f]),
         o # Idle => Duty(o, meta'[f], staged'[f], pinned', Listed', mode, now, allowed'[f]),
         Timely(meta'[f], staged'[f], now, mode), Torn \notin allowed'[f]
  PROVE  SInv'
  <1>1. op'[p] = o /\ \A q \in Procs \ {p} : op'[q] = op[q]
    BY Zenon DEF SInv, STypeOK
  <1>2. \A q \in Procs \ {p}, g \in Files : (Holds(q, g)' <=> Holds(q, g))
    BY <1>1, Zenon DEF Holds
  <1>3. Holds(p, f) /\ \A g \in Files \ {f} : ~Holds(p, g)
    BY Zenon DEF Holds
  <1>4. \A g \in Files : BgHolds(g)' <=> BgHolds(g)
    BY Zenon DEF BgHolds
  <1>5. \A g \in Files \ {f} : ~Holds(p, g)'
    BY <1>1, IdleType, Zenon DEF Holds
  <1>6. ~BgHolds(f) /\ \A q \in Procs \ {p} : ~Holds(q, f)
    BY <1>3, Zenon DEF SInv, SLockInv
  <1>7. Holds(p, f)' <=> o # Idle
    BY <1>1, IdleType, Zenon DEF Holds
  <1>8. SLockInv'
    <2>1. \A q \in Procs : (op'[q].pc = "idle" <=> op'[q] = Idle) /\ (op'[q].pc # "idle" => op'[q].f \in Files)
      BY <1>1, IdleType, Zenon DEF SInv, SLockInv
    <2>2. (bg'.pc = "idle" <=> bg' = NoKey) /\ (bg'.pc # "idle" => bg'.f \in Files)
      BY Zenon DEF SInv, SLockInv
    <2>3. locked' = locked \/ (o = Idle /\ locked' = locked \ {f})
      BY Zenon
    <2>4. ASSUME NEW q \in Procs, NEW g \in Files, Holds(q, g)'
          PROVE  g \in locked' /\ ~BgHolds(g)' /\ \A r \in Procs \ {q} : ~Holds(r, g)'
      <3>1. CASE g = f
        <4>1. q = p /\ o # Idle
          BY <1>2, <1>6, <1>7, <2>4, <3>1, Zenon
        <4>2. f \in locked
          BY <1>3, Zenon DEF SInv, SLockInv
        <4> QED BY <1>2, <1>4, <1>6, <2>3, <3>1, <4>1, <4>2, Zenon
      <3>2. CASE g # f
        <4>1. q # p /\ Holds(q, g)
          BY <1>2, <1>5, <2>4, <3>2, Zenon
        <4>2. g \in locked /\ ~BgHolds(g) /\ \A r \in Procs \ {q} : ~Holds(r, g)
          BY <4>1, Zenon DEF SInv, SLockInv
        <4>3. \A r \in Procs \ {q} : ~Holds(r, g)'
          BY <1>2, <1>5, <3>2, <4>2, Zenon
        <4> QED BY <1>4, <2>3, <3>2, <4>2, <4>3, Zenon
      <3> QED BY <3>1, <3>2, Zenon
    <2>5. ASSUME NEW g \in Files, BgHolds(g)' PROVE g \in locked'
      <3>1. BgHolds(g) /\ g # f /\ g \in locked
        BY <1>4, <1>6, <2>5, Zenon DEF SInv, SLockInv
      <3> QED BY <2>3, <3>1, Zenon
    <2>6. ASSUME NEW g \in Files, Torn \in allowed'[g] PROVE g \in locked' /\ Unheld(g)'
      <3>1. g # f /\ Torn \in allowed[g]
        BY <2>6, Zenon DEF Apartly
      <3>2. g \in locked /\ ~BgHolds(g) /\ \A q \in Procs : ~Holds(q, g)
        BY <3>1, Zenon DEF SInv, SLockInv, Unheld
      <3>3. ~BgHolds(g)' /\ \A q \in Procs : ~Holds(q, g)'
        BY <1>2, <1>4, <1>5, <3>1, <3>2, Zenon
      <3> QED BY <2>3, <3>1, <3>2, <3>3, Zenon DEF Unheld
    <2> QED BY <2>1, <2>2, <2>4, <2>5, <2>6, Zenon DEF SLockInv
  <1>9. BgOK'
    <2>1. bg.pc \in BgLocked => bg.f \in Files \ {f}
      <3>1. bg.pc \in BgLocked => bg.f \in Files
        BY IdleType, Zenon DEF SInv, SLockInv, BgLocked
      <3> QED BY <1>6, <3>1, Zenon DEF BgHolds
    <2>2. bg.pc \in BgLocked => meta'[bg.f] = meta[bg.f] /\ allowed'[bg.f] = allowed[bg.f]
      BY <2>1, Zenon DEF Apartly
    <2> QED BY <2>2, ZenonT(30) DEF BgOK, BgLocked, SInv
  <1>10. ASSUME NEW g \in Files PROVE FileOK(g)'
    <2>1. CASE g = f
      BY <1>7, <2>1, Zenon DEF FileOK
    <2>2. CASE g # f
      <3>1. (\A q \in Procs : ~Holds(q, g)') => \A q \in Procs : ~Holds(q, g)
        BY <1>2, <1>3, <2>2, Zenon
      <3>2. (\A q \in Procs : ~Holds(q, g)') => Safe(g, meta[g], staged[g], pinned, Listed, mode, allowed[g])
        BY <3>1, Zenon DEF SInv, FileOK
      <3> QED BY <2>2, <3>2, OthersOK, Zenon DEF FileOK
    <2> QED BY <2>1, <2>2, Zenon
  <1>11. ASSUME NEW q \in Procs PROVE OpOK(q)'
    <2>1. CASE q = p
      BY <1>1, <2>1, IdleType, Zenon DEF OpOK
    <2>2. CASE q # p /\ op[q].pc # "idle"
      <3>1. op[q].f \in Files \ {f}
        BY <1>6, <2>2, Zenon DEF SInv, SLockInv, Holds
      <3>2. Duty(op[q], meta[op[q].f], staged[op[q].f], pinned, Listed, mode, now, allowed[op[q].f])
        BY <2>2, Zenon DEF SInv, OpOK
      <3>3. op'[q] = op[q]
        BY <1>1, <2>2, Zenon
      <3> QED BY <3>1, <3>2, <3>3, OthersOK, Zenon DEF OpOK
    <2>3. CASE q # p /\ op[q].pc = "idle"
      BY <1>1, <2>3, Zenon DEF OpOK
    <2> QED BY <2>1, <2>2, <2>3, Zenon
  <1> QED BY <1>8, <1>9, <1>10, <1>11, Zenon DEF SInv

\* What is known of a request that is under way.
LEMMA AtWork ==
  ASSUME SInv, NEW p \in Procs, op[p].pc # "idle"
  PROVE  /\ op[p] \in OpRecords /\ op[p].f \in Files /\ Torn \notin allowed[op[p].f]
         /\ Duty(op[p], meta[op[p].f], staged[op[p].f], pinned, Listed, mode, now, allowed[op[p].f])
         /\ Timely(meta[op[p].f], staged[op[p].f], now, mode)
         /\ meta[op[p].f] \in Metas \cup {Nil} /\ staged[op[p].f] \in Copies \cup {Nil} /\ now \in Nat \ {0}
         /\ op[p].pc # "unlock" => ~op[p].ok
  <1>1. op[p] \in OpRecords /\ op[p].f \in Files /\ Holds(p, op[p].f)
    BY Zenon DEF SInv, STypeOK, SLockInv, Holds
  <1>2. Torn \notin allowed[op[p].f]
    BY <1>1, Zenon DEF SInv, SLockInv, Unheld
  <1>3. Duty(op[p], meta[op[p].f], staged[op[p].f], pinned, Listed, mode, now, allowed[op[p].f])
    BY Zenon DEF SInv, OpOK
  <1>4. op[p].pc # "unlock" => ~op[p].ok
    BY <1>3, Zenon DEF Duty
  <1>5. Timely(meta[op[p].f], staged[op[p].f], now, mode)
    BY <1>1, Zenon DEF SInv, FileOK
  <1> QED BY <1>1, <1>2, <1>3, <1>4, <1>5, Zenon DEF SInv, STypeOK

\* The record of a request that goes on to l.
Onward(p, o, l, ok) ==
    /\ o \in OpRecords /\ op' = [op EXCEPT ![p] = o] /\ o # Idle /\ o.pc = l /\ o.ok = ok
    /\ o.f = op[p].f /\ o.kind = op[p].kind /\ o.d = op[p].d /\ o.m = op[p].m /\ o.t = op[p].t

\* A request that goes on to label l.
LEMMA Going ==
  ASSUME SInv, NEW p \in Procs, op[p].pc # "idle", NEW l \in Labels, Goto(p, l)
  PROVE  \E o : Onward(p, o, l, op[p].ok)
  <1> DEFINE o == [op[p] EXCEPT !.pc = l]
  <1>1. op[p] \in OpRecords
    BY AtWork, Zenon
  <1>2. /\ o \in OpRecords /\ o.pc = l
        /\ o.f = op[p].f /\ o.kind = op[p].kind /\ o.d = op[p].d /\ o.m = op[p].m /\ o.t = op[p].t /\ o.ok = op[p].ok
    BY <1>1, Zenon DEF OpRecords
  <1>3. op' = [op EXCEPT ![p] = o]
    BY ZenonT(30) DEF Goto
  <1>4. l # "idle"
    BY Zenon DEF Labels
  <1> HIDE DEF o
  <1> QED BY <1>2, <1>3, <1>4, IdleType, ZenonT(30) DEF Onward

\* So has one that has its result and only unlocks.
LEMMA Finishing ==
  ASSUME SInv, NEW p \in Procs, op[p].pc # "idle", NEW r \in BOOLEAN, Finish(p, r)
  PROVE  \E o : Onward(p, o, "unlock", r)
  <1> DEFINE o == [op[p] EXCEPT !.pc = "unlock", !.ok = r]
  <1>1. op[p] \in OpRecords
    BY AtWork, Zenon
  <1>2. /\ o \in OpRecords /\ o.pc = "unlock"
        /\ o.f = op[p].f /\ o.kind = op[p].kind /\ o.d = op[p].d /\ o.m = op[p].m /\ o.t = op[p].t
    BY <1>1, ZenonT(30) DEF OpRecords, Labels
  <1>3. o.ok = r
    BY <1>1, ZenonT(30) DEF OpRecords
  <1>4. op' = [op EXCEPT ![p] = o]
    BY ZenonT(30) DEF Finish
  <1> HIDE DEF o
  <1> QED BY <1>2, <1>3, <1>4, IdleType, Zenon DEF Onward

\* The variables that no request writes, or writes in passing.
Passing ==
    /\ UNCHANGED <<mode, now, rest, bg, writes, allowed>> /\ faults' \in Nat

\* A step of a request, up to what is special to it.
LEMMA OnwardStep ==
  ASSUME SInv, NEW p \in Procs, op[p].pc # "idle", NEW o, NEW l, NEW r, Onward(p, o, l, r), l # "idle", Passing,
         NEW f, f = op[p].f, Apartly(f), UNCHANGED locked,
         meta' \in [Files -> Metas \cup {Nil}], staged' \in [Files -> Copies \cup {Nil}],
         pending' \subseteq Files \X Int, comp' \subseteq Files \X Int,
         Duty(o, meta'[f], staged'[f], pinned', Listed', mode, now, allowed[f]),
         Timely(meta'[f], staged'[f], now, mode)
  PROVE  SInv'
  <1>1. f \in Files /\ Torn \notin allowed[f]
    BY AtWork, Zenon
  <1>2. op' = [op EXCEPT ![p] = o] /\ o \in OpRecords /\ o # Idle /\ o.pc # "idle" /\ o.f = f
    BY Zenon DEF Onward
  <1>3. op' \in [Procs -> OpRecords]
    BY <1>2, Zenon DEF SInv, STypeOK
  <1>4. STypeOK'
    BY <1>3, ZenonT(30) DEF SInv, STypeOK, Passing
  <1>5. mode' = mode /\ now' = now /\ bg' = bg /\ allowed' = allowed
    BY Zenon DEF Passing
  <1>6. Duty(o, meta'[f], staged'[f], pinned', Listed', mode, now, allowed'[f])
    BY <1>5, Zenon
  <1>7. Torn \notin allowed'[f]
    BY <1>1, <1>5, Zenon
  <1> QED BY <1>1, <1>2, <1>4, <1>5, <1>6, <1>7, RequestStep, ZenonT(30)

\* Pinning the file before it is written.
LEMMA PinKeeps ==
  ASSUME SInv, NEW p \in Procs, Pin(p), unhandled' = {}
  PROVE  SInv'
  <1> DEFINE f == op[p].f
  <1>1. op[p].pc = "pin" /\ op[p].pc # "idle" /\ Goto(p, "open") /\ pinned' = pinned \cup {f}
    BY Zenon DEF Pin, pinFile, Unhandled
  <1>2. UNCHANGED <<mode, now, rest, bg, writes, allowed, meta, staged, pending, comp, locked, faults>>
    BY Zenon DEF Pin, Keep, redis, Fine, Unhandled
  <1>3. PICK o : Onward(p, o, "open", op[p].ok)
    BY <1>1, Going, Zenon DEF Labels
  <1>4. /\ Duty(op[p], meta[f], staged[f], pinned, Listed, mode, now, allowed[f]) /\ ~op[p].ok
        /\ Timely(meta[f], staged[f], now, mode)
    BY <1>1, AtWork, Zenon
  <1>5. Listed' = Listed /\ Passing /\ Apartly(f)
    BY <1>1, <1>2, Zenon DEF Listed, Passing, Apartly, SInv, STypeOK
  <1>6. Safe(f, meta[f], staged[f], pinned', Listed, mode, allowed[f])
    <2>1. Safe(f, meta[f], staged[f], pinned, Listed, mode, allowed[f])
      BY <1>1, <1>4, Zenon DEF Duty, Exposed, Midway
    <2> QED BY <1>1, <2>1, SafeMore
  <1>7. Duty(o, meta[f], staged[f], pinned', Listed, mode, now, allowed[f])
    BY <1>1, <1>3, <1>4, <1>6, Zenon DEF Duty, Onward, Writing, Midway
  <1> HIDE DEF f
  <1>8. /\ meta' \in [Files -> Metas \cup {Nil}] /\ staged' \in [Files -> Copies \cup {Nil}]
        /\ pending' \subseteq Files \X Int /\ comp' \subseteq Files \X Int
    BY <1>2, Zenon DEF SInv, STypeOK
  <1> QED BY <1>1, <1>2, <1>3, <1>4, <1>5, <1>7, <1>8, OnwardStep, ZenonT(30) DEF f

\* Types, one by one.
LEMMA Typed ==
  ASSUME SInv
  PROVE  /\ meta \in [Files -> Metas \cup {Nil}] /\ staged \in [Files -> Copies \cup {Nil}]
         /\ pending \subseteq Files \X Int /\ comp \subseteq Files \X Int /\ faults \in Nat
  BY Zenon DEF SInv, STypeOK

\* What Orderly says of the configuration at hand.
LEMMA ModeOK ==
  ASSUME SInv, Orderly
  PROVE  mode.staging =>
           /\ mode.kinds \cap InPlace # {} => ~mode.clean
           /\ "stage" \in mode.faults => mode.faults = {"stage"}
  BY Zenon DEF SInv, STypeOK, Orderly, InPlace

\* A staged file put in place of another.
LEMMA Replaced ==
  ASSUME staged \in [Files -> Copies \cup {Nil}], NEW f \in Files, NEW s \in Copies \cup {Nil},
         staged' = [staged EXCEPT ![f] = s]
  PROVE  /\ staged' \in [Files -> Copies \cup {Nil}] /\ staged'[f] = s
         /\ \A g \in Files \ {f} : staged'[g] = staged[g]
  BY Zenon

\* The staged file is truncated, or the write to the staging area fails.
LEMMA OpenKeeps ==
  ASSUME SInv, NEW p \in Procs, Open(p)
  PROVE  SInv'
  <1> DEFINE f == op[p].f
             m == meta[f]
             A == allowed[f]
  <1>1. op[p].pc = "open" /\ op[p].pc # "idle"
    BY Zenon DEF Open
  <1>2. UNCHANGED <<mode, now, rest, bg, writes, allowed, meta, pending, comp, locked>> /\ Listed' = Listed
    BY Zenon DEF Open, Keep, redis, Listed
  <1>3. /\ Duty(op[p], m, staged[f], pinned, Listed, mode, now, A) /\ ~op[p].ok /\ f \in Files
        /\ Timely(m, staged[f], now, mode) /\ now \in Nat /\ m \in Metas \cup {Nil}
    BY <1>1, AtWork, Zenon
  <1>4. Safe(f, m, staged[f], pinned, Listed, mode, A) /\ f \in pinned /\ Writing(op[p], m)
    BY <1>1, <1>3, Zenon DEF Duty, Exposed, Midway
  <1> HIDE DEF f, m, A
  <1>5. CASE mode.staging /\ openTruncated(op[p].f) /\ Goto(p, "fill") /\ UNCHANGED <<pinned, faults>>
    <2> DEFINE s == [data |-> Torn, mtime |-> now, size |-> 0]
    <2>1. s \in Copies /\ s # Nil /\ s.data = Torn /\ s.mtime = now
      BY <1>3, Apart DEF Copies, Data
    <2>2. staged' = [staged EXCEPT ![f] = s]
      BY <1>5, Zenon DEF openTruncated, f
    <2> HIDE DEF s
    <2>3. /\ staged' \in [Files -> Copies \cup {Nil}] /\ staged'[f] = s
          /\ \A g \in Files \ {f} : staged'[g] = staged[g]
      BY <1>3, <2>1, <2>2, Typed, Replaced, Zenon
    <2>4. Passing /\ Apartly(f)
      BY <1>2, <1>5, <2>3, Typed, Zenon DEF Passing, Apartly
    <2>5. PICK o : Onward(p, o, "fill", op[p].ok)
      BY <1>1, <1>5, Going, Zenon DEF Labels
    <2>6. Safe(f, m, s, pinned, Listed, mode, A \cup {Torn})
      BY <1>4, <2>1, Zenon DEF Safe
    <2>7. Timely(m, s, now, mode)
      BY <1>3, <2>1, Zenon DEF Timely
    <2>8. Duty(o, m, s, pinned, Listed, mode, now, A)
      BY <1>3, <1>4, <1>5, <2>1, <2>5, <2>6, Zenon DEF Duty, Onward, Writing, Midway, f
    <2>9. meta'[f] = m /\ allowed[f] = A /\ pinned' = pinned
      BY <1>2, <1>5, Zenon DEF m, A
    <2>10. Duty(o, meta'[f], staged'[f], pinned', Listed', mode, now, allowed[f]) /\ Timely(meta'[f], staged'[f], now, mode)
      BY <1>2, <2>3, <2>7, <2>8, <2>9, Zenon
    <2> QED BY <1>1, <1>2, <2>3, <2>4, <2>5, <2>10, Typed, OnwardStep, Zenon DEF f
  <1>6. CASE /\ mode.staging => Fault("stage")
             /\ ~mode.staging => UNCHANGED faults
             /\ failedWrite(op[p].f) /\ unpinFile(op[p].f) /\ Goto(p, "cloud")
    <2>1. /\ staged' \in [Files -> Copies \cup {Nil}] /\ staged'[f] \in {staged[f], Nil}
          /\ \A g \in Files \ {f} : staged'[g] = staged[g]
      BY <1>3, <1>6, Typed, Zenon DEF failedWrite, f
    <2>2. pinned' = pinned \ {f} /\ faults' \in Nat
      BY <1>6, Typed DEF unpinFile, f, Fault
    <2>3. Passing /\ Apartly(f)
      BY <1>2, <2>1, <2>2, Zenon DEF Passing, Apartly
    <2>4. PICK o : Onward(p, o, "cloud", op[p].ok)
      BY <1>1, <1>6, Going, Zenon DEF Labels
    <2>5. Timely(m, staged'[f], now, mode)
      BY <1>3, <2>1, Zenon DEF Timely
    <2>6. ~Exposed(o, mode) => ~mode.staging
      BY <1>6, <2>4, Zenon DEF Exposed, Onward, Fault
    <2>7. ~mode.staging => Safe(f, m, staged'[f], pinned', Listed, mode, A)
      <3>1. ~mode.staging /\ m # Nil => ~Recent(m)
        BY <1>3, Zenon DEF Timely
      <3>2. m # Nil /\ ~Recent(m) => ~(m.smtime > m.mtime)
        BY <1>3 DEF Recent, Metas
      <3> QED BY <1>4, <3>1, <3>2, Zenon DEF Safe
    <2>8. Duty(o, m, staged'[f], pinned', Listed, mode, now, A)
      BY <1>3, <2>4, <2>6, <2>7, Zenon DEF Duty, Onward, Midway, f
    <2>9. meta'[f] = m /\ allowed[f] = A
      BY <1>2, Zenon DEF m, A
    <2>10. Duty(o, meta'[f], staged'[f], pinned', Listed', mode, now, allowed[f]) /\ Timely(meta'[f], staged'[f], now, mode)
      BY <1>2, <2>5, <2>8, <2>9, Zenon
    <2> QED BY <1>1, <1>2, <2>1, <2>3, <2>4, <2>10, Typed, OnwardStep, Zenon DEF f
  <1> QED BY <1>5, <1>6, Zenon DEF Open

\* The staged file has all its content.
LEMMA FillKeeps ==
  ASSUME SInv, NEW p \in Procs, Fill(p), unhandled' = {}
  PROVE  SInv'
  <1> DEFINE f == op[p].f
             m == meta[f]
             A == allowed[f]
             s == [data |-> op[p].d, mtime |-> now, size |-> op[p].d]
  <1>1. op[p].pc = "fill" /\ op[p].pc # "idle" /\ staged' = [staged EXCEPT ![f] = s] /\ Goto(p, "mark")
    BY Zenon DEF Fill, writeFile, partialWrite, Unhandled
  <1>2. /\ UNCHANGED <<mode, now, rest, bg, writes, allowed, meta, pending, comp, locked, pinned, faults>>
        /\ Listed' = Listed
    BY Zenon DEF Fill, Keep, redis, Listed, Fine, partialWrite, Unhandled
  <1>3. /\ Duty(op[p], m, staged[f], pinned, Listed, mode, now, A) /\ ~op[p].ok /\ f \in Files
        /\ Timely(m, staged[f], now, mode) /\ now \in Nat /\ m \in Metas \cup {Nil} /\ op[p] \in OpRecords
    BY <1>1, AtWork, Zenon
  <1>4. /\ Safe(f, m, staged[f], pinned, Listed, mode, A \cup {Torn})
        /\ f \in pinned /\ Writing(op[p], m) /\ mode.staging /\ op[p].d \in A /\ op[p].t \in 1 .. now
        /\ op[p].d \in Nat
    BY <1>1, <1>3, Zenon DEF Duty, Midway, Writing
  <1>5. s \in Copies /\ s # Nil /\ s.data = op[p].d /\ s.size = op[p].d /\ s.mtime = now
    BY <1>3, <1>4, Apart DEF Copies, OpRecords
  <1> HIDE DEF f, m, A, s
  <1>6. /\ staged' \in [Files -> Copies \cup {Nil}] /\ staged'[f] = s
        /\ \A g \in Files \ {f} : staged'[g] = staged[g]
    BY <1>1, <1>3, <1>5, Typed, Replaced, Zenon
  <1>7. Passing /\ Apartly(f)
    BY <1>2, <1>6, Typed, Zenon DEF Passing, Apartly
  <1>8. PICK o : Onward(p, o, "mark", op[p].ok)
    BY <1>1, Going, Zenon DEF Labels
  <1>9. Safe(f, m, s, pinned, Listed, mode, A \cup {Torn})
    BY <1>4, <1>5, Apart, Zenon DEF Safe
  <1>10. Timely(m, s, now, mode)
    BY <1>3, <1>5, Zenon DEF Timely
  <1>11. Duty(o, m, s, pinned, Listed, mode, now, A)
    <2>1. Writing(o, m) /\ Filled(o, s, pinned)
      BY <1>4, <1>5, <1>8 DEF Writing, Filled, Onward, f
    <2> QED BY <1>3, <1>4, <1>8, <1>9, <2>1, Zenon DEF Duty, Onward, Midway, f
  <1>12. meta'[f] = m /\ allowed[f] = A
    BY <1>2, Zenon DEF m, A
  <1>13. Duty(o, meta'[f], staged'[f], pinned', Listed', mode, now, allowed[f]) /\ Timely(meta'[f], staged'[f], now, mode)
    BY <1>2, <1>6, <1>10, <1>11, <1>12, Zenon
  <1> QED BY <1>1, <1>2, <1>6, <1>7, <1>8, <1>13, Typed, OnwardStep, Zenon DEF f

\* A file that is put on the list is on it, and no other leaves it.
LEMMA HasKeyMore ==
  ASSUME NEW f, NEW K, NEW k, k[1] = f
  PROVE  HasKey(f, K \cup {k}) /\ \A g : HasKey(g, K) => HasKey(g, K \cup {k})
  BY Zenon DEF HasKey

\* The key under which a request lists its file.
LEMMA KeyType ==
  ASSUME SInv, NEW p \in Procs, op[p].pc # "idle"
  PROVE  Key(p) \in Files \X Int /\ Key(p)[1] = op[p].f
  <1>1. op[p].m \in Metas /\ op[p].f \in Files
    BY AtWork, ZenonT(30) DEF Duty
  <1> QED BY <1>1 DEF Key, Metas

\* The file is listed; a change in place is acknowledged.
LEMMA MarkKeeps ==
  ASSUME SInv, Orderly, NEW p \in Procs, Mark(p), unhandled' = {}
  PROVE  SInv'
  <1> DEFINE f == op[p].f
             m == meta[f]
             s == staged[f]
             A == allowed[f]
  <1>1. op[p].pc = "mark" /\ op[p].pc # "idle" /\ pending' = pending \cup {Key(p)}
    BY Zenon DEF Mark, markFileAsPendingWriteToCloud, Unhandled
  <1>2. UNCHANGED <<mode, now, rest, bg, writes, allowed, meta, comp, locked, pinned, staged, faults>>
    BY Zenon DEF Mark, Keep, Fine, Unhandled
  <1>3. /\ Duty(op[p], m, s, pinned, Listed, mode, now, A) /\ ~op[p].ok /\ f \in Files
        /\ Timely(m, s, now, mode) /\ now \in Nat /\ m \in Metas \cup {Nil} /\ op[p] \in OpRecords
    BY <1>1, AtWork, Zenon
  <1>4. Listed' = Listed \cup {Key(p)} /\ Key(p)[1] = f /\ Key(p) \in Files \X Int
    BY <1>1, <1>2, KeyType, Zenon DEF Listed
  <1>5. HasKey(f, Listed') /\ \A g : HasKey(g, Listed) => HasKey(g, Listed')
    BY <1>4, HasKeyMore, Zenon
  <1>6. /\ Safe(f, m, s, pinned, Listed, mode, A \cup {Torn}) /\ mode.staging /\ op[p].d \in A
        /\ \/ Writing(op[p], m) /\ Filled(op[p], s, pinned)
           \/ Modified(op[p], m) /\ s # Nil /\ s.data = op[p].d /\ Sized(m, s)
    BY <1>1, <1>3, Zenon DEF Duty, Midway
  <1>7. Safe(f, m, s, pinned, Listed', mode, A \cup {Torn})
    BY <1>5, <1>6, SafeMore
  <1>8. Passing /\ Apartly(f) /\ pending' \subseteq Files \X Int
    BY <1>1, <1>2, <1>4, <1>5, Typed, Zenon DEF Passing, Apartly
  <1>9. meta'[f] = m /\ staged'[f] = s /\ allowed[f] = A /\ pinned' = pinned
    BY <1>2, Zenon
  <1> HIDE DEF f, m, s, A
  <1>10. CASE op[p].kind = "write"
    <2>1. PICK o : Onward(p, o, "putStaged", op[p].ok)
      BY <1>1, <1>10, Going, Zenon DEF Labels, Mark
    <2>2. Writing(o, m) /\ Filled(o, s, pinned)
      BY <1>6, <1>10, <2>1, Zenon DEF Writing, Filled, Modified, InPlace, Onward, f
    <2>3. Duty(o, m, s, pinned, Listed', mode, now, A)
      BY <1>3, <1>5, <1>6, <1>7, <2>1, <2>2, Zenon DEF Duty, Onward, Midway, f
    <2> QED BY <1>1, <1>2, <1>3, <1>8, <1>9, <2>1, <2>3, Typed, OnwardStep, Zenon DEF f
  <1>11. CASE op[p].kind # "write"
    <2>1. PICK o : Onward(p, o, "unlock", TRUE)
      BY <1>1, <1>11, Finishing, ZenonT(30) DEF Mark
    <2>2. Modified(op[p], m) /\ s # Nil /\ s.data = op[p].d /\ Sized(m, s)
      BY <1>6, <1>11, Zenon DEF Writing
    <2>3. op[p].kind \in mode.kinds \cap InPlace
      BY <1>3, <2>2, Zenon DEF Duty, Modified
    <2>4. ~mode.clean
      BY <1>6, <2>3, ModeOK, Zenon
    <2>5. Safe(f, m, s, pinned, Listed', mode, {op[p].d})
      BY <1>7, <2>2, <2>4, Zenon DEF Safe, Modified
    <2>a. Safe(f, m, s, pinned, Listed', mode, A)
      BY <1>6, <2>5, SafeMore
    <2>6. Duty(o, m, s, pinned, Listed', mode, now, A)
      BY <1>3, <2>1, <2>5, <2>a, Zenon DEF Duty, Onward, Midway, f
    <2> QED BY <1>1, <1>2, <1>3, <1>8, <1>9, <2>1, <2>6, Typed, OnwardStep, ZenonT(30) DEF f
  <1> QED BY <1>10, <1>11, Zenon

\* A change in place, in the staging area or to the cloud copy.
LEMMA ModifyKeeps ==
  ASSUME SInv, Orderly, NEW p \in Procs, ModifyStaged(p), unhandled' = {}
  PROVE  SInv'
  <1> DEFINE f == op[p].f
             m == meta[f]
             A == allowed[f]
  <1>1. op[p].pc = "modify" /\ op[p].pc # "idle"
    BY Zenon DEF ModifyStaged
  <1>2. UNCHANGED <<mode, now, rest, bg, writes, allowed, meta, pending, comp, locked, pinned>> /\ Listed' = Listed
    BY Zenon DEF ModifyStaged, Keep, redis, Listed
  <1>3. /\ Duty(op[p], m, staged[f], pinned, Listed, mode, now, A) /\ ~op[p].ok /\ f \in Files /\ Torn \notin A
        /\ Timely(m, staged[f], now, mode) /\ now \in Nat /\ m \in Metas \cup {Nil} /\ op[p] \in OpRecords
        /\ staged[f] \in Copies \cup {Nil}
    BY <1>1, AtWork, Zenon
  <1>4. /\ Safe(f, m, staged[f], pinned, Listed, mode, A) /\ Modifying(op[p], m) /\ op[p].d \in A
        /\ op[p].d \in Nat
    BY <1>1, <1>3, Zenon DEF Duty, Exposed, Midway, Modifying, Modified
  <1>5. meta'[f] = m /\ allowed[f] = A /\ pinned' = pinned
    BY <1>2, Zenon
  <1>6. CASE mode.staging /\ modifyFile(op[p].f, op[p].d, op[p].kind) /\ Goto(p, "putModified") /\ Fine
    <2> DEFINE z == IF op[p].kind = "append" THEN op[p].d ELSE staged[f].size
               s == [data |-> op[p].d, mtime |-> now, size |-> z]
    <2>2. op[p].kind \in mode.kinds \cap InPlace
      BY <1>3, <1>4, Zenon DEF Duty, Modifying, Modified
    <2>3. ~mode.clean
      BY <1>6, <2>2, ModeOK, Zenon
    <2>4. staged[f] # Nil /\ staged[f].data # Torn /\ Sized(m, staged[f]) /\ staged[f] \in Copies
      BY <1>3, <1>4, <2>3, Zenon DEF Safe, Modifying, Modified
    <2>5. staged' = [staged EXCEPT ![f] = s]
      BY <1>6, <2>4, Zenon DEF modifyFile, writeFile
    <2>a. z \in Nat
      BY <1>4, <2>4, Zenon DEF Copies
    <2>b. IF op[p].kind = "append" THEN z = op[p].d ELSE z = staged[f].size
      BY Zenon
    <2> HIDE DEF z
    <2>1. s \in Copies /\ s # Nil /\ s.data = op[p].d /\ s.mtime = now /\ s.size = z
      BY <1>3, <2>a, Apart DEF Copies, OpRecords
    <2>c. IF op[p].kind = "append" THEN s.size = op[p].d ELSE Sized(m, s)
      BY <2>1, <2>4, <2>b, Zenon DEF Sized
    <2> HIDE DEF s, f, m, A
    <2>6. /\ staged' \in [Files -> Copies \cup {Nil}] /\ staged'[f] = s
          /\ \A g \in Files \ {f} : staged'[g] = staged[g]
      BY <1>3, <2>1, <2>5, Typed, Replaced, Zenon
    <2>7. Passing /\ Apartly(f)
      BY <1>2, <1>6, <2>6, Typed, Zenon DEF Passing, Apartly, Fine
    <2>8. PICK o : Onward(p, o, "putModified", op[p].ok)
      BY <1>1, <1>6, Going, Zenon DEF Labels
    <2>9. Safe(f, m, s, pinned, Listed, mode, A \cup {Torn})
      BY <1>4, <2>1, <2>3, Zenon DEF Safe, Modifying, Modified
    <2>10. Timely(m, s, now, mode)
      BY <1>3, <2>1, Zenon DEF Timely
    <2>11. Modifying(o, m)
      BY <1>4, <2>8, Zenon DEF Modifying, Modified, Onward
    <2>12. Duty(o, m, s, pinned, Listed, mode, now, A)
      BY <1>3, <1>6, <2>1, <2>8, <2>9, <2>11, <2>c, Zenon DEF Duty, Onward, Midway, f
    <2>13. Duty(o, meta'[f], staged'[f], pinned', Listed', mode, now, allowed[f]) /\ Timely(meta'[f], staged'[f], now, mode)
      BY <1>2, <1>5, <2>6, <2>10, <2>12, Zenon
    <2> QED BY <1>1, <1>2, <2>6, <2>7, <2>8, <2>13, Typed, OnwardStep, Zenon DEF f
  <1>7. CASE /\ mode.staging => Fault("stage")
             /\ ~mode.staging => UNCHANGED faults
             /\ UNCHANGED <<staged, unhandled>>
             /\ IF op[p].m.smtime > op[p].m.mtime THEN Finish(p, FALSE) ELSE Goto(p, "cloud")
    <2>1. faults' \in Nat
      BY <1>7, Typed DEF Fault
    <2>2. Passing /\ Apartly(f)
      BY <1>2, <1>7, <2>1, Zenon DEF Passing, Apartly
    <2>3. PICK o, l : Onward(p, o, l, FALSE) /\ l \in {"unlock", "cloud"}
      <3>1. CASE op[p].m.smtime > op[p].m.mtime
        BY <1>1, <1>7, <3>1, Finishing, ZenonT(30)
      <3>2. CASE ~(op[p].m.smtime > op[p].m.mtime)
        <4>1. Goto(p, "cloud") /\ op[p].ok = FALSE
          BY <1>3, <1>7, <3>2, ZenonT(30) DEF OpRecords
        <4>2. \E o : Onward(p, o, "cloud", op[p].ok)
          BY <1>1, <4>1, Going, Zenon DEF Labels
        <4> QED BY <4>1, <4>2, ZenonT(30)
      <3> QED BY <3>1, <3>2, ZenonT(30)
    <2> HIDE DEF f, m, A
    <2>4. Duty(o, m, staged[f], pinned, Listed, mode, now, A)
      BY <1>3, <1>4, <2>3, Zenon DEF Duty, Onward, Midway, f
    <2>5. Duty(o, meta'[f], staged'[f], pinned', Listed', mode, now, allowed[f]) /\ Timely(meta'[f], staged'[f], now, mode)
      BY <1>2, <1>3, <1>5, <1>7, <2>4, Zenon
    <2> QED BY <1>1, <1>2, <1>7, <2>2, <2>3, <2>5, Typed, OnwardStep, ZenonT(30) DEF f
  <1> QED BY <1>6, <1>7, ZenonT(30) DEF ModifyStaged, partialWrite, Unhandled

\* The stripes of the file, written to the cloud.
LEMMA CloudKeeps ==
  ASSUME SInv, Orderly, NEW p \in Procs, WriteCloud(p)
  PROVE  SInv'
  <1> DEFINE f == op[p].f
             m == meta[f]
             s == staged[f]
             A == allowed[f]
  <1>1. op[p].pc = "cloud" /\ op[p].pc # "idle"
    BY Zenon DEF WriteCloud
  <1>2. /\ UNCHANGED <<mode, now, rest, bg, writes, allowed, meta, staged, pending, comp, locked, pinned>>
        /\ Listed' = Listed
    BY Zenon DEF WriteCloud, Keep, redis, Listed
  <1>3. /\ Duty(op[p], m, s, pinned, Listed, mode, now, A) /\ ~op[p].ok /\ op[p] \in OpRecords
        /\ Timely(m, s, now, mode)
    BY <1>1, AtWork, Zenon
  <1>4. faults' \in Nat
    <2>1. faults' = faults \/ faults' = faults + 1
      BY Zenon DEF WriteCloud, Fault
    <2> QED BY <2>1, Typed
  <1>5. Passing /\ Apartly(f) /\ op[p].ok = FALSE
    BY <1>2, <1>3, <1>4, Zenon DEF Passing, Apartly, OpRecords
  <1>6. PICK o, l : Onward(p, o, l, FALSE) /\ (l = "putCloud" \/ (l = "unlock" /\ Fault("cloud")))
    <2>1. CASE Goto(p, "putCloud")
      <3>1. \E o : Onward(p, o, "putCloud", op[p].ok)
        BY <1>1, <2>1, Going, Zenon DEF Labels
      <3>2. PICK o : Onward(p, o, "putCloud", FALSE)
        BY <1>5, <3>1, ZenonT(30)
      <3> QED BY <3>2, Zenon
    <2>2. CASE Fault("cloud") /\ Finish(p, FALSE)
      BY <1>1, <2>2, Finishing, ZenonT(30)
    <2> QED BY <2>1, <2>2, ZenonT(30) DEF WriteCloud
  <1>7. l = "unlock" => ~Exposed(op[p], mode)
    BY <1>6, ModeOK DEF Exposed, Fault
  <1> HIDE DEF f, m, s, A
  <1>8. Duty(o, m, s, pinned, Listed, mode, now, A)
    BY <1>1, <1>3, <1>6, <1>7, Zenon DEF Duty, Onward, Exposed, Midway, f
  <1>9. Duty(o, meta'[f], staged'[f], pinned', Listed', mode, now, allowed[f]) /\ Timely(meta'[f], staged'[f], now, mode)
    BY <1>2, <1>3, <1>8, Zenon DEF m, s, A
  <1> QED BY <1>1, <1>2, <1>5, <1>6, <1>9, Typed, OnwardStep, ZenonT(30) DEF f

\* The metadata that requests write.
LEMMA CloudMetaType ==
  ASSUME NEW v \in Int, NEW t \in Nat, NEW d \in Data, NEW n, n = CloudMeta(v, t, d)
  PROVE  n \in Metas /\ n # Nil /\ n.mtime = t /\ n.smtime = 0 /\ ~n.coded /\ n.cloud = d /\ n.ssize = -1
  <1>0. -1 \in Int
    OBVIOUS
  <1>1. n \in Metas /\ n.mtime = t /\ n.smtime = 0 /\ n.cloud = d /\ n.ssize = -1
    BY <1>0, ZenonT(30) DEF CloudMeta, Fresh, Metas
  <1>2. ~n.coded
    BY ZenonT(30) DEF CloudMeta, Fresh
  <1>3. n # Nil
    BY <1>1, Apart, Zenon
  <1> QED BY <1>1, <1>2, <1>3, Zenon

\* The metadata of a write to the staging area.
LEMMA StagedMetaType ==
  ASSUME NEW m \in Metas, NEW t \in Nat, NEW d \in Nat
  PROVE  LET n == StagedMeta(m, t, d)
         IN  n \in Metas /\ n # Nil /\ n.mtime = m.mtime /\ n.smtime = t /\ n.ssize = d
  <1> DEFINE n == StagedMeta(m, t, d)
  <1>1. n \in Metas /\ n.mtime = m.mtime /\ n.smtime = t /\ n.ssize = d
    <2> DEFINE v == IF m.ver = -1 THEN 0 ELSE m.ver
    <2>1. v \in Int /\ d \in Int
      BY DEF Metas
    <2>2. n = [m EXCEPT !.ver = v, !.smtime = t, !.ssize = d, !.coded = TRUE]
      BY Zenon DEF StagedMeta
    <2> HIDE DEF v, n
    <2> QED BY <2>1, <2>2, ZenonT(30) DEF Metas
  <1> HIDE DEF n
  <1>2. n # Nil
    BY <1>1, Apart, Zenon
  <1> QED BY <1>1, <1>2, Zenon DEF n

\* Metadata put in place of other metadata.
LEMMA MetaPut ==
  ASSUME meta \in [Files -> Metas \cup {Nil}], NEW f \in Files, NEW m \in Metas \cup {Nil},
         meta' = [meta EXCEPT ![f] = m]
  PROVE  /\ meta' \in [Files -> Metas \cup {Nil}] /\ meta'[f] = m
         /\ \A g \in Files \ {f} : meta'[g] = meta[g]
  BY Zenon

\* The request is not exposed when an update of metadata fails, or one of the cloud.
LEMMA NotExposed ==
  ASSUME SInv, Orderly, NEW p \in Procs, Fault("meta") \/ Fault("cloud") \/ Fault("crash")
  PROVE  ~Exposed(op[p], mode) /\ faults' \in Nat /\ faults' # faults
  <1>1. /\ "meta" \in mode.faults \/ "cloud" \in mode.faults \/ "crash" \in mode.faults
        /\ faults' = faults + 1
    BY Zenon DEF Fault
  <1>2. ~Exposed(op[p], mode)
    BY <1>1, ModeOK DEF Exposed
  <1> QED BY <1>1, <1>2, Typed

\* A request whose metadata cannot be written is answered with an error, if it
\* does not go on.
LEMMA PutFailed ==
  ASSUME SInv, Orderly, NEW p \in Procs, PutMeta(p), Fault("meta"), UNCHANGED meta, op[p].pc = "putCloud"
  PROVE  SInv'
  <1> DEFINE f == op[p].f
             m == meta[f]
             s == staged[f]
             A == allowed[f]
             r == faults' = faults
  <1>1. op[p].pc = "putCloud" /\ op[p].pc # "idle" /\ Finish(p, r)
    BY Zenon DEF PutMeta
  <1>2. /\ UNCHANGED <<mode, now, rest, bg, writes, allowed, meta, staged, pending, comp, locked, pinned>>
        /\ Listed' = Listed
    BY Zenon DEF PutMeta, Keep, Listed
  <1>3. /\ Duty(op[p], m, s, pinned, Listed, mode, now, A) /\ ~op[p].ok /\ f \in Files
        /\ Timely(m, s, now, mode)
    BY <1>1, AtWork, Zenon
  <1>4. ~Exposed(op[p], mode) /\ faults' \in Nat /\ r \in BOOLEAN /\ ~r
    BY NotExposed, Zenon
  <1>5. PICK o : Onward(p, o, "unlock", r)
    BY <1>1, <1>4, Finishing, ZenonT(30)
  <1>6. Passing /\ Apartly(f)
    BY <1>2, <1>4, Zenon DEF Passing, Apartly
  <1> HIDE DEF f, m, s, A, r
  <1>7. Duty(o, m, s, pinned, Listed, mode, now, A)
    BY <1>1, <1>3, <1>4, <1>5, Zenon DEF Duty, Onward, Midway, f
  <1>8. Duty(o, meta'[f], staged'[f], pinned', Listed', mode, now, allowed[f]) /\ Timely(meta'[f], staged'[f], now, mode)
    BY <1>2, <1>3, <1>7, Zenon DEF m, s, A
  <1> QED BY <1>1, <1>2, <1>5, <1>6, <1>8, Typed, OnwardStep, Zenon DEF f

\* A request whose metadata are written is acknowledged: n has what it wrote.
LEMMA PutDone ==
  ASSUME SInv, NEW p \in Procs, PutMeta(p), op[p].pc # "putModified", UNCHANGED faults,
         NEW n \in Metas, meta' = [meta EXCEPT ![op[p].f] = n], Timely(n, staged[op[p].f], now, mode),
         Safe(op[p].f, n, staged[op[p].f], pinned, Listed, mode, {op[p].d})
  PROVE  SInv'
  <1> DEFINE f == op[p].f
             s == staged[f]
             A == allowed[f]
             r == faults' = faults
  <1>1. op[p].pc \in {"putStaged", "putCloud"} /\ op[p].pc # "idle" /\ Finish(p, r)
    BY Zenon DEF PutMeta
  <1>2. /\ UNCHANGED <<mode, now, rest, bg, writes, allowed, staged, pending, comp, locked, pinned>>
        /\ Listed' = Listed
    BY Zenon DEF PutMeta, Keep, Listed
  <1>3. /\ Duty(op[p], meta[f], s, pinned, Listed, mode, now, A) /\ f \in Files
    BY <1>1, AtWork, Zenon
  <1>4. r \in BOOLEAN /\ r
    BY Zenon
  <1>5. PICK o : Onward(p, o, "unlock", r)
    BY <1>1, <1>4, Finishing, ZenonT(30)
  <1>6. /\ meta' \in [Files -> Metas \cup {Nil}] /\ meta'[f] = n
        /\ \A g \in Files \ {f} : meta'[g] = meta[g]
    BY <1>3, MetaPut, Typed, Zenon
  <1>7. Passing /\ Apartly(f)
    BY <1>2, <1>6, Typed, Zenon DEF Passing, Apartly
  <1>8. op[p].d \in A
    BY <1>3, Zenon DEF Duty
  <1>9. Safe(f, n, s, pinned, Listed, mode, A)
    BY <1>8, SafeMore
  <1>10. Timely(n, s, now, mode) /\ Safe(f, n, s, pinned, Listed, mode, {op[p].d})
    BY Zenon
  <1> HIDE DEF f, s, A, r
  <1>11. Duty(o, n, s, pinned, Listed, mode, now, A)
    BY <1>3, <1>5, <1>9, <1>10, Zenon DEF Duty, Onward, Midway, f
  <1>12. Duty(o, meta'[f], staged'[f], pinned', Listed', mode, now, allowed[f]) /\ Timely(meta'[f], staged'[f], now, mode)
    BY <1>2, <1>6, <1>10, <1>11, Zenon DEF s, A
  <1> QED BY <1>1, <1>2, <1>5, <1>6, <1>7, <1>12, Typed, OnwardStep, Zenon DEF f

\* The metadata is written, or the write to Redis fails.
LEMMA PutKeeps ==
  ASSUME SInv, Orderly, NEW p \in Procs, PutMeta(p), unhandled' = {}
  PROVE  SInv'
  <1> DEFINE f == op[p].f
             m == meta[f]
             s == staged[f]
             A == allowed[f]
  <1>1. /\ op[p].pc \in {"putStaged", "putModified", "putCloud"} /\ op[p].pc # "idle"
        /\ UNCHANGED <<mode, now, rest, bg, writes, allowed, staged, pending, comp, locked, pinned>> /\ Listed' = Listed
    BY Zenon DEF PutMeta, Keep, Listed
  <1>2. \/ meta' = [meta EXCEPT ![f] = NewMeta(p)] /\ UNCHANGED faults
        \/ Fault("meta") /\ UNCHANGED meta /\ op[p].pc = "putCloud"
    BY Zenon DEF PutMeta, Fine, Unhandled
  <1>3. /\ Duty(op[p], m, s, pinned, Listed, mode, now, A) /\ ~op[p].ok /\ f \in Files
        /\ Timely(m, s, now, mode) /\ now \in Nat \ {0} /\ m \in Metas \cup {Nil} /\ op[p] \in OpRecords
        /\ s \in Copies \cup {Nil}
    BY <1>1, AtWork, Zenon
  <1>4. op[p].m \in Metas /\ op[p].t \in 1 .. now /\ op[p].t \in Nat /\ op[p].d \in Data /\ op[p].m.ver \in Int
    BY <1>3, Zenon DEF Duty, OpRecords, Metas
  <1>5. CASE op[p].pc = "putModified"
    <2> DEFINE n == NewMeta(p)
    <2>1. /\ Modifying(op[p], m) /\ mode.staging /\ Safe(f, m, s, pinned, Listed, mode, A \cup {Torn})
          /\ s # Nil /\ s.data = op[p].d /\ op[p].d \in Nat
          /\ IF op[p].kind = "append" THEN s.size = op[p].d ELSE Sized(m, s)
      BY <1>3, <1>5, Zenon DEF Duty, Midway, Modifying, Modified
    <2>a. n = IF op[p].kind = "append" THEN [m EXCEPT !.ssize = op[p].d] ELSE m
      BY <1>5, <2>1, Zenon DEF NewMeta, Modifying
    <2> HIDE DEF n
    <2>b. m \in Metas /\ op[p].d \in Int
      BY <1>3, <2>1 DEF Modifying, Modified
    <2>2. /\ n \in Metas /\ n.mtime = m.mtime /\ n.smtime = m.smtime /\ n.coded = m.coded /\ n.cloud = m.cloud
          /\ n.ssize = IF op[p].kind = "append" THEN op[p].d ELSE m.ssize
      BY <2>a, <2>b, ZenonT(30) DEF Metas
    <2>c. n # Nil /\ (Recent(n) <=> Recent(m))
      BY <2>2, Apart, Zenon DEF Recent
    <2>d. Sized(n, s) /\ (n.ssize = -1 => m.ssize = -1)
      BY <2>1, <2>2, <2>b DEF Sized, Metas
    <2>3. /\ meta' \in [Files -> Metas \cup {Nil}] /\ meta'[f] = n
          /\ \A g \in Files \ {f} : meta'[g] = meta[g]
      BY <1>2, <1>3, <1>5, <2>2, MetaPut, Typed, Zenon DEF n
    <2>4. faults' \in Nat
      BY <1>2, Typed, NotExposed, Zenon
    <2>5. Passing /\ Apartly(f)
      BY <1>1, <2>3, <2>4, Zenon DEF Passing, Apartly
    <2>6. PICK o : Onward(p, o, "mark", op[p].ok)
      BY <1>1, <1>5, Going, Zenon DEF Labels, PutMeta
    <2> HIDE DEF f, m, s, A
    <2>7. Modified(o, n)
      BY <2>1, <2>6, <2>c, Zenon DEF Modifying, Modified, Onward
    <2>e. Safe(f, n, s, pinned, Listed, mode, A \cup {Torn})
      BY <2>1, <2>2, <2>c, <2>d, Zenon DEF Safe, Modifying, Modified
    <2>f. Timely(n, s, now, mode)
      BY <1>3, <2>1, <2>2, <2>c, <2>d, Zenon DEF Timely, Modifying, Modified
    <2>8. Duty(o, n, s, pinned, Listed, mode, now, A)
      BY <1>3, <2>1, <2>6, <2>7, <2>d, <2>e, Zenon DEF Duty, Onward, Midway, f
    <2>9. Duty(o, meta'[f], staged'[f], pinned', Listed', mode, now, allowed[f]) /\ Timely(meta'[f], staged'[f], now, mode)
      BY <1>1, <2>3, <2>8, <2>f, Zenon DEF s, A
    <2> QED BY <1>1, <2>3, <2>5, <2>6, <2>9, Typed, OnwardStep, Zenon DEF f
  <1>6. CASE op[p].pc = "putCloud" /\ Fault("meta") /\ UNCHANGED meta
    BY <1>6, PutFailed, Zenon
  <1>7. CASE op[p].pc = "putStaged" /\ meta' = [meta EXCEPT ![f] = NewMeta(p)] /\ UNCHANGED faults
    <2> DEFINE n == StagedMeta(op[p].m, op[p].t, op[p].d)
    <2>1. NewMeta(p) = n
      BY <1>7, Zenon DEF NewMeta
    <2>3. /\ Writing(op[p], m) /\ Filled(op[p], s, pinned) /\ HasKey(f, Listed) /\ mode.staging
          /\ op[p].d \in Nat
      BY <1>3, <1>7, Zenon DEF Duty, Midway, Writing
    <2>2. n \in Metas /\ n # Nil /\ n.mtime = op[p].m.mtime /\ n.smtime = op[p].t /\ n.ssize = op[p].d
      BY <1>4, <2>3, StagedMetaType, ZenonT(30)
    <2> HIDE DEF n
    <2>4. Recent(n)
      BY <1>4, <2>2, <2>3, ZenonT(30) DEF Recent, Writing, Metas
    <2>5. Timely(n, s, now, mode)
      BY <1>3, <1>4, <2>2, <2>3, <2>4 DEF Timely, Writing, Filled, Metas
    <2>a. Sized(n, s)
      BY <2>2, <2>3 DEF Sized, Filled
    <2>6. Safe(f, n, s, pinned, Listed, mode, {op[p].d})
      BY <2>2, <2>3, <2>4, <2>a, Zenon DEF Safe, Filled
    <2> QED BY <1>7, <2>1, <2>2, <2>5, <2>6, PutDone, ZenonT(30)
  <1>8. CASE op[p].pc = "putCloud" /\ meta' = [meta EXCEPT ![f] = NewMeta(p)] /\ UNCHANGED faults
    <2>1. PICK v, x, d, n : NewMeta(p) = n /\ n = CloudMeta(v, x, d) /\ v \in Int /\ x \in 1 .. now /\ d = op[p].d
      <3>1. CASE op[p].kind \in {"append", "overwrite"}
        <4>1. NewMeta(p) = CloudMeta(op[p].m.ver, now, op[p].d)
          BY <1>8, <3>1, Zenon DEF NewMeta
        <4>2. now \in 1 .. now
          BY <1>3
        <4> QED BY <1>4, <4>1, <4>2, Zenon
      <3>2. CASE op[p].kind \notin {"append", "overwrite"}
        <4>1. NewMeta(p) = CloudMeta(op[p].m.ver + 1, op[p].t, op[p].d)
          BY <1>8, <3>2, Zenon DEF NewMeta
        <4>2. op[p].m.ver + 1 \in Int
          BY <1>4
        <4> QED BY <1>4, <4>1, <4>2, Zenon
      <3> QED BY <3>1, <3>2, Zenon
    <2>2. n \in Metas /\ n # Nil /\ n.mtime = x /\ n.smtime = 0 /\ ~n.coded /\ n.cloud = op[p].d
      <3>1. x \in Nat /\ v \in Int /\ d \in Data
        BY <1>3, <1>4, <2>1
      <3>2. n = CloudMeta(v, x, d) /\ d = op[p].d
        BY <2>1, Zenon
      <3>3. n \in Metas /\ n # Nil /\ n.mtime = x /\ n.smtime = 0 /\ ~n.coded /\ n.cloud = d
        BY <3>1, <3>2, CloudMetaType, SMTT(30)
      <3> QED BY <3>2, <3>3, Zenon
    <2>3. ~Recent(n) /\ ~(n.smtime > n.mtime)
      BY <1>3, <2>1, <2>2, SMTT(30) DEF Recent
    <2>4. Timely(n, s, now, mode)
      BY <1>3, <2>1, <2>2, <2>3 DEF Timely, Copies
    <2>5. Safe(f, n, s, pinned, Listed, mode, {op[p].d})
      BY <2>2, <2>3, Zenon DEF Safe
    <2> QED BY <1>8, <2>1, <2>2, <2>4, <2>5, PutDone, ZenonT(30)
  <1> QED BY <1>1, <1>2, <1>5, <1>6, <1>7, <1>8, Zenon

\* A request to delete a file: the metadata, what the cloud has, the staged copy.
LEMMA DeleteMetaKeeps ==
  ASSUME SInv, Orderly, NEW p \in Procs, DeleteMeta(p)
  PROVE  SInv'
  <1> DEFINE f == op[p].f
             m == meta[f]
             s == staged[f]
             A == allowed[f]
  <1>1. op[p].pc = "deleteMeta" /\ op[p].pc # "idle"
    BY Zenon DEF DeleteMeta
  <1>2. /\ UNCHANGED <<mode, now, rest, bg, writes, allowed, staged, pending, comp, locked, pinned>>
        /\ Listed' = Listed
    BY Zenon DEF DeleteMeta, Keep, Listed
  <1>3. /\ Duty(op[p], m, s, pinned, Listed, mode, now, A) /\ ~op[p].ok /\ f \in Files /\ op[p] \in OpRecords
        /\ Timely(m, s, now, mode)
    BY <1>1, AtWork, Zenon
  <1>4. op[p].d = Nil /\ Nil \in A /\ Safe(f, m, s, pinned, Listed, mode, A) /\ op[p].ok = FALSE
    BY <1>1, <1>3, Zenon DEF Duty, Exposed, OpRecords, Midway
  <1>5. CASE meta' = [meta EXCEPT ![f] = Nil] /\ UNCHANGED faults /\ Goto(p, IF op[p].m.cloud = Nil THEN "deleteStaged" ELSE "deleteChunks")
    <2>1. PICK l \in {"deleteStaged", "deleteChunks"} : Goto(p, l)
      BY <1>5, Zenon
    <2>2. PICK o : Onward(p, o, l, op[p].ok)
      BY <1>1, <2>1, Going, Zenon DEF Labels
    <2>3. /\ meta' \in [Files -> Metas \cup {Nil}] /\ meta'[f] = Nil
          /\ \A g \in Files \ {f} : meta'[g] = meta[g]
      BY <1>3, <1>5, MetaPut, Typed, Zenon
    <2>4. Passing /\ Apartly(f)
      BY <1>2, <1>5, <2>3, Typed, Zenon DEF Passing, Apartly
    <2> HIDE DEF f, m, s, A
    <2>5. Safe(f, Nil, s, pinned, Listed, mode, A) /\ Timely(Nil, s, now, mode)
      BY <1>4, Zenon DEF Safe, Timely
    <2>6. Duty(o, Nil, s, pinned, Listed, mode, now, A)
      BY <1>3, <1>4, <2>1, <2>2, <2>5, Zenon DEF Duty, Onward, Midway, f
    <2>7. Duty(o, meta'[f], staged'[f], pinned', Listed', mode, now, allowed[f]) /\ Timely(meta'[f], staged'[f], now, mode)
      BY <1>2, <2>3, <2>5, <2>6, Zenon DEF s, A
    <2> QED BY <1>1, <1>2, <2>1, <2>2, <2>3, <2>4, <2>7, Typed, OnwardStep, Zenon DEF f
  <1>6. CASE Fault("meta") /\ Finish(p, FALSE) /\ UNCHANGED meta
    <2>1. faults' \in Nat
      BY <1>6, NotExposed, Zenon
    <2>2. Passing /\ Apartly(f)
      BY <1>2, <1>6, <2>1, Zenon DEF Passing, Apartly
    <2>3. PICK o : Onward(p, o, "unlock", FALSE)
      BY <1>1, <1>6, Finishing, ZenonT(30)
    <2> HIDE DEF f, m, s, A
    <2>4. Duty(o, m, s, pinned, Listed, mode, now, A)
      BY <1>3, <1>4, <2>3, Zenon DEF Duty, Onward, Midway, f
    <2>5. Duty(o, meta'[f], staged'[f], pinned', Listed', mode, now, allowed[f]) /\ Timely(meta'[f], staged'[f], now, mode)
      BY <1>2, <1>3, <1>6, <2>4, Zenon DEF m, s, A
    <2> QED BY <1>1, <1>2, <1>6, <2>2, <2>3, <2>5, Typed, OnwardStep, ZenonT(30) DEF f
  <1> QED BY <1>5, <1>6, ZenonT(30) DEF DeleteMeta

\* A key of one file taken off the list leaves the others listed.
LEMMA HasKeyLess ==
  ASSUME NEW g, NEW K, NEW k, k[1] # g, HasKey(g, K)
  PROVE  HasKey(g, K \ {k})
  BY Zenon DEF HasKey

\* The chunks go, and the file leaves the list.
LEMMA DeleteChunksKeeps ==
  ASSUME SInv, Orderly, NEW p \in Procs, DeleteChunks(p)
  PROVE  SInv'
  <1> DEFINE f == op[p].f
             s == staged[f]
             A == allowed[f]
  <1>1. op[p].pc = "deleteChunks" /\ op[p].pc # "idle"
    BY Zenon DEF DeleteChunks
  <1>2. UNCHANGED <<mode, now, rest, bg, writes, allowed, staged, meta, locked, pinned>>
    BY Zenon DEF DeleteChunks, Keep
  <1>3. /\ Duty(op[p], meta[f], s, pinned, Listed, mode, now, A) /\ ~op[p].ok /\ f \in Files /\ op[p] \in OpRecords
        /\ Key(p) \in Files \X Int /\ Key(p)[1] = f
    BY <1>1, AtWork, KeyType, Zenon
  <1>4. op[p].d = Nil /\ Nil \in A /\ meta[f] = Nil /\ op[p].ok = FALSE
    BY <1>1, <1>3, Zenon DEF Duty, OpRecords
  <1>5. /\ pending' \subseteq Files \X Int /\ comp' \subseteq Files \X Int
        /\ Listed' = Listed \/ Listed' = Listed \ {Key(p)}
    BY Typed, ZenonT(30) DEF DeleteChunks, markFileAsWrittenToCloud, Listed
  <1>6. \A g \in Files \ {f} : HasKey(g, Listed) => HasKey(g, Listed')
    <2>1. \A g \in Files \ {f} : HasKey(g, Listed) => HasKey(g, Listed \ {Key(p)})
      BY <1>3, HasKeyLess, Zenon
    <2> QED BY <1>5, <2>1, Zenon
  <1>7. faults' \in Nat
    BY NotExposed, Typed, ZenonT(30) DEF DeleteChunks
  <1>8. Passing /\ Apartly(f)
    BY <1>2, <1>6, <1>7, Zenon DEF Passing, Apartly
  <1>9. PICK o, l : Onward(p, o, l, FALSE) /\ l \in {"unlock", "deleteStaged"}
    <2>1. CASE Goto(p, "deleteStaged")
      <3>1. \E o : Onward(p, o, "deleteStaged", op[p].ok)
        BY <1>1, <2>1, Going, Zenon DEF Labels
      <3> QED BY <1>4, <3>1, ZenonT(30)
    <2>2. CASE Finish(p, FALSE)
      BY <1>1, <2>2, Finishing, ZenonT(30)
    <2> QED BY <2>1, <2>2, ZenonT(30) DEF DeleteChunks
  <1> HIDE DEF f, s, A
  <1>10. Safe(f, Nil, s, pinned, Listed', mode, A) /\ Timely(Nil, s, now, mode)
    BY <1>4, Zenon DEF Safe, Timely
  <1>11. Duty(o, Nil, s, pinned, Listed', mode, now, A)
    BY <1>3, <1>4, <1>9, <1>10, Zenon DEF Duty, Onward, Midway, f
  <1>12. Duty(o, meta'[f], staged'[f], pinned', Listed', mode, now, allowed[f]) /\ Timely(meta'[f], staged'[f], now, mode)
    BY <1>2, <1>4, <1>10, <1>11, Zenon DEF s, A
  <1> QED BY <1>1, <1>2, <1>5, <1>8, <1>9, <1>12, Typed, OnwardStep, ZenonT(30) DEF f

\* The staged copy goes, and the request has succeeded.
LEMMA DeleteStagedKeeps ==
  ASSUME SInv, NEW p \in Procs, DeleteStaged(p)
  PROVE  SInv'
  <1> DEFINE f == op[p].f
             A == allowed[f]
  <1>1. op[p].pc = "deleteStaged" /\ op[p].pc # "idle" /\ Finish(p, TRUE)
    BY ZenonT(30) DEF DeleteStaged
  <1>2. /\ UNCHANGED <<mode, now, rest, bg, writes, allowed, meta, pending, comp, locked, faults>> /\ Listed' = Listed
        /\ staged' = [staged EXCEPT ![f] = Nil] /\ pinned' = pinned \ {f}
    BY Zenon DEF DeleteStaged, Keep, deleteFile, redis, Listed, Fine
  <1>3. Duty(op[p], meta[f], staged[f], pinned, Listed, mode, now, A) /\ f \in Files
    BY <1>1, AtWork, Zenon
  <1>4. op[p].d = Nil /\ Nil \in A /\ meta[f] = Nil
    BY <1>1, <1>3, Zenon DEF Duty
  <1>5. /\ staged' \in [Files -> Copies \cup {Nil}] /\ \A g \in Files \ {f} : staged'[g] = staged[g]
    BY <1>2, <1>3, Replaced, Typed, Zenon
  <1>6. Passing /\ Apartly(f)
    BY <1>2, <1>5, Typed, Zenon DEF Passing, Apartly
  <1>7. PICK o : Onward(p, o, "unlock", TRUE)
    BY <1>1, Finishing, ZenonT(30)
  <1> HIDE DEF f, A
  <1>8. /\ Safe(f, Nil, staged'[f], pinned', Listed, mode, A) /\ Safe(f, Nil, staged'[f], pinned', Listed, mode, {Nil})
        /\ Timely(Nil, staged'[f], now, mode)
    BY <1>4, Zenon DEF Safe, Timely
  <1>9. Duty(o, Nil, staged'[f], pinned', Listed, mode, now, A)
    BY <1>3, <1>4, <1>7, <1>8, Zenon DEF Duty, Onward, Midway, f
  <1>10. Duty(o, meta'[f], staged'[f], pinned', Listed', mode, now, allowed[f]) /\ Timely(meta'[f], staged'[f], now, mode)
    BY <1>2, <1>4, <1>8, <1>9, Zenon DEF A
  <1> QED BY <1>1, <1>2, <1>5, <1>6, <1>7, <1>10, Typed, OnwardStep, ZenonT(30) DEF f

\* The end of a request.
LEMMA UnlockKeeps ==
  ASSUME SInv, NEW p \in Procs, Unlock(p)
  PROVE  SInv'
  <1> DEFINE f == op[p].f
             m == meta[f]
             s == staged[f]
             A == allowed[f]
  <1>1. op[p].pc = "unlock" /\ op[p].pc # "idle" /\ op' = [op EXCEPT ![p] = Idle] /\ locked' = locked \ {f}
    BY Zenon DEF Unlock
  <1>2. /\ UNCHANGED <<mode, now, rest, bg, writes, meta, staged, pending, comp, pinned, faults>> /\ Listed' = Listed
        /\ allowed' = IF op[p].ok THEN [allowed EXCEPT ![f] = {op[p].d}] ELSE allowed
    BY Zenon DEF Unlock, Keep, Listed, Fine
  <1>3. /\ Duty(op[p], m, s, pinned, Listed, mode, now, A) /\ f \in Files /\ op[p] \in OpRecords
        /\ Timely(m, s, now, mode) /\ Torn \notin A
    BY <1>1, AtWork, Zenon
  <1>4. op[p].d \in Data /\ op[p].d \in A /\ allowed \in [Files -> SUBSET Data]
    BY <1>3, Zenon DEF OpRecords, SInv, STypeOK, Duty
  <1>5. /\ allowed' \in [Files -> SUBSET Data] /\ (\A g \in Files \ {f} : allowed'[g] = allowed[g])
        /\ allowed'[f] = IF op[p].ok THEN {op[p].d} ELSE A
    BY <1>2, <1>3, <1>4, Zenon
  <1>6. Apartly(f)
    BY <1>2, <1>5, Zenon DEF Apartly
  <1>7. op' \in [Procs -> OpRecords]
    BY <1>1, IdleType, Zenon DEF SInv, STypeOK
  <1>8. STypeOK'
    BY <1>2, <1>5, <1>7, ZenonT(30) DEF SInv, STypeOK
  <1>9. Safe(f, m, s, pinned, Listed, mode, allowed'[f]) /\ Torn \notin allowed'[f]
    BY <1>1, <1>3, <1>4, <1>5, Zenon DEF Duty, Exposed, Midway
  <1>10. Safe(f, meta'[f], staged'[f], pinned', Listed', mode, allowed'[f]) /\ Timely(meta'[f], staged'[f], now, mode)
    BY <1>2, <1>3, <1>9, Zenon
  <1>11. mode' = mode /\ now' = now /\ bg' = bg
    BY <1>2, Zenon
  <1> HIDE DEF f, m, s, A
  <1> QED BY <1>1, <1>3, <1>6, <1>8, <1>9, <1>10, <1>11, RequestStep, ZenonT(30) DEF f

\* The steps of a request.
LEMMA StepKeeps ==
  ASSUME SInv, Orderly, NEW p \in Procs, Step(p), unhandled' = {}
  PROVE  SInv'
  BY PinKeeps, OpenKeeps, FillKeeps, MarkKeeps, ModifyKeeps, CloudKeeps, PutKeeps, DeleteMetaKeeps,
     DeleteChunksKeeps, DeleteStagedKeeps, UnlockKeeps, Zenon DEF Step

-----------------------------------------------------------------------------
\* The start of a request: nobody is at its file, and the file is not torn.
LEMMA LockKeeps ==
  ASSUME SInv, NEW p \in Procs, NEW f \in Files, NEW kind \in Kinds, NEW d \in Data, d # Torn,
         NEW first \in {"pin", "putCloud", "modify", "cloud", "deleteMeta"}, Lock(p, f, kind, d, first),
         first = "pin" => kind = "write",
         first = "modify" => kind \in InPlace /\ meta[f] # Nil /\ Recent(meta[f]),
         first = "deleteMeta" => d = Nil, kind \in InPlace \cup {"write"} => d \in Nat
  PROVE  SInv'
  <1> DEFINE o == [pc |-> first, kind |-> kind, f |-> f, d |-> d, m |-> Old(f), t |-> now, ok |-> FALSE]
             m == meta[f]
             s == staged[f]
  <1>1. /\ op[p] = Idle /\ f \notin locked /\ locked' = locked \cup {f} /\ op' = [op EXCEPT ![p] = o] /\ kind \in mode.kinds
        /\ writes' = writes + 1 /\ allowed' = [allowed EXCEPT ![f] = @ \cup {d}]
    BY ZenonT(30) DEF Lock
  <1>2. UNCHANGED <<mode, now, meta, pending, rest, comp, staged, pinned, bg, faults>> /\ Listed' = Listed
    BY Zenon DEF Lock, Listed, Fine
  <1>3. Old(f) \in Metas /\ now \in Nat \ {0} /\ Timely(m, s, now, mode) /\ m \in Metas \cup {Nil}
    BY FreshType, Zenon DEF SInv, STypeOK, Old, FileOK
  <1>4. /\ o \in OpRecords /\ o.pc = first /\ o.kind = kind /\ o.f = f /\ o.d = d /\ o.m = Old(f) /\ o.t = now
        /\ ~o.ok /\ first # "idle"
    BY <1>3, Zenon DEF OpRecords, Labels
  <1> HIDE DEF o
  <1>5. o # Idle
    BY <1>4, IdleType, Zenon
  <1>6. ~BgHolds(f) /\ (\A q \in Procs : ~Holds(q, f)) /\ Torn \notin allowed[f]
    BY <1>1, Zenon DEF SInv, SLockInv
  <1>7. op'[p] = o /\ \A q \in Procs \ {p} : op'[q] = op[q]
    BY <1>1, Zenon DEF SInv, STypeOK
  <1>8. /\ allowed' \in [Files -> SUBSET Data] /\ allowed'[f] = allowed[f] \cup {d}
        /\ \A g \in Files \ {f} : allowed'[g] = allowed[g]
    BY <1>1, Zenon DEF SInv, STypeOK
  <1>9. Apartly(f)
    BY <1>2, <1>8, Zenon DEF Apartly
  <1>10. STypeOK'
    <2>1. op' \in [Procs -> OpRecords] /\ writes' \in Nat
      BY <1>1, <1>4 DEF SInv, STypeOK
    <2> QED BY <1>2, <1>8, <2>1, ZenonT(30) DEF SInv, STypeOK
  <1>11. Safe(f, m, s, pinned, Listed, mode, allowed'[f])
    <2>1. Safe(f, m, s, pinned, Listed, mode, allowed[f])
      BY <1>6, Zenon DEF SInv, FileOK
    <2> QED BY <1>8, <2>1, SafeMore, Zenon
  <1>12. Duty(o, m, s, pinned, Listed, mode, now, allowed'[f])
    <2> HIDE DEF m, s
    <2>1. first = "pin" => Writing(o, m)
      BY <1>3, <1>4, FreshType DEF Writing, Old, Timely, m
    <2>2. first = "modify" => Modifying(o, m)
      BY <1>4, Zenon DEF Modifying, Modified, Old, m
    <2> QED BY <1>1, <1>3, <1>4, <1>8, <1>11, <2>1, <2>2, SMTT(30) DEF Duty, Midway
  <1>13. \A q \in Procs \ {p}, g \in Files : Holds(q, g)' <=> Holds(q, g)
    BY <1>7, Zenon DEF Holds
  <1>14. \A g \in Files : (Holds(p, g)' <=> g = f) /\ ~Holds(p, g) /\ (BgHolds(g)' <=> BgHolds(g))
    BY <1>1, <1>2, <1>4, <1>7, IdleType, Zenon DEF Holds, BgHolds
  <1>15. SLockInv'
    <2>1. \A q \in Procs : (op'[q].pc = "idle" <=> op'[q] = Idle) /\ (op'[q].pc # "idle" => op'[q].f \in Files)
      BY <1>4, <1>5, <1>7, ZenonT(30) DEF SInv, SLockInv
    <2>2. (bg'.pc = "idle" <=> bg' = NoKey) /\ (bg'.pc # "idle" => bg'.f \in Files)
      BY <1>2, Zenon DEF SInv, SLockInv
    <2>3. ASSUME NEW q \in Procs, NEW g \in Files, Holds(q, g)'
          PROVE  g \in locked' /\ ~BgHolds(g)' /\ \A r \in Procs \ {q} : ~Holds(r, g)'
      <3>1. CASE g = f
        BY <1>1, <1>6, <1>13, <1>14, <2>3, <3>1, Zenon
      <3>2. CASE g # f
        <4>1. q # p /\ Holds(q, g)
          BY <1>13, <1>14, <2>3, <3>2, Zenon
        <4>2. g \in locked /\ ~BgHolds(g) /\ \A r \in Procs \ {q} : ~Holds(r, g)
          BY <4>1, Zenon DEF SInv, SLockInv
        <4> QED BY <1>1, <1>13, <1>14, <3>2, <4>2, Zenon
      <3> QED BY <3>1, <3>2, Zenon
    <2>4. \A g \in Files : BgHolds(g)' => g \in locked'
      BY <1>1, <1>14, Zenon DEF SInv, SLockInv
    <2>5. ASSUME NEW g \in Files, Torn \in allowed'[g] PROVE g \in locked' /\ Unheld(g)'
      <3>1. g # f /\ Torn \in allowed[g]
        BY <1>6, <1>8, <2>5, Zenon
      <3>2. g \in locked /\ ~BgHolds(g) /\ \A q \in Procs : ~Holds(q, g)
        BY <3>1, Zenon DEF SInv, SLockInv, Unheld
      <3>3. ~BgHolds(g)' /\ \A q \in Procs : ~Holds(q, g)'
        BY <1>13, <1>14, <3>1, <3>2, Zenon
      <3>4. g \in locked'
        BY <1>1, <3>2, Zenon
      <3> QED BY <3>3, <3>4, Zenon DEF Unheld
    <2> QED BY <2>1, <2>2, <2>3, <2>4, <2>5, Zenon DEF SLockInv
  <1>16. BgOK'
    <2>1. bg.pc \in BgLocked => bg.f \in Files
      BY IdleType, Zenon DEF SInv, SLockInv, BgLocked
    <2>2. bg.pc \in BgLocked => allowed'[bg.f] = allowed[bg.f]
      BY <1>6, <1>8, <2>1, Zenon DEF BgHolds
    <2> QED BY <1>2, <2>2, ZenonT(30) DEF BgOK, BgLocked, SInv
  <1>17. mode' = mode /\ now' = now /\ meta'[f] = m /\ staged'[f] = s /\ pinned' = pinned /\ Listed' = Listed
    BY <1>2, Zenon
  <1>18. ASSUME NEW g \in Files PROVE FileOK(g)'
    <2>1. CASE g = f
      BY <1>3, <1>14, <1>17, <2>1, Zenon DEF FileOK
    <2>2. CASE g # f
      <3>1. (\A q \in Procs : ~Holds(q, g)') => Safe(g, meta[g], staged[g], pinned, Listed, mode, allowed[g])
        BY <1>13, <1>14, <2>2, Zenon DEF SInv, FileOK
      <3>2. mode' = mode /\ now' = now /\ g \in Files \ {f}
        BY <1>17, <2>2, Zenon
      <3> QED BY <1>9, <3>1, <3>2, OthersOK, Zenon DEF FileOK
    <2> QED BY <2>1, <2>2, Zenon
  <1>19. ASSUME NEW q \in Procs PROVE OpOK(q)'
    <2>1. CASE q = p
      BY <1>4, <1>7, <1>12, <1>17, <2>1, Zenon DEF OpOK
    <2>2. CASE q # p /\ op[q].pc # "idle"
      <3>1. op[q].f \in Files \ {f}
        BY <1>6, <2>2, Zenon DEF SInv, SLockInv, Holds
      <3>2. Duty(op[q], meta[op[q].f], staged[op[q].f], pinned, Listed, mode, now, allowed[op[q].f])
        BY <2>2, Zenon DEF SInv, OpOK
      <3>3. op'[q] = op[q] /\ mode' = mode /\ now' = now
        BY <1>7, <1>17, <2>2, Zenon
      <3> QED BY <1>9, <3>1, <3>2, <3>3, OthersOK, Zenon DEF OpOK
    <2>3. CASE q # p /\ op[q].pc = "idle"
      BY <1>7, <2>3, Zenon DEF OpOK
    <2> QED BY <2>1, <2>2, <2>3, Zenon
  <1> QED BY <1>10, <1>15, <1>16, <1>18, <1>19, Zenon DEF SInv

\* The requests there are.
LEMMA BeginKeeps ==
  ASSUME SInv, NEW p \in Procs, NEW f \in Files, Begin(p, f)
  PROVE  SInv'
  <1>1. writes + 1 \in Data /\ writes + 1 # Torn /\ Nil \in Data /\ Nil # Torn /\ writes + 1 \in Nat
    BY Apart DEF SInv, STypeOK, Data
  <1>2. CASE Lock(p, f, "write", writes + 1, "pin")
    BY <1>1, <1>2, LockKeeps, Zenon DEF Kinds
  <1>3. CASE Lock(p, f, "empty", Nil, "putCloud")
    BY <1>1, <1>3, LockKeeps, Zenon DEF Kinds, InPlace
  <1>4. ASSUME NEW kind \in InPlace, meta[f] # Nil,
               Lock(p, f, kind, writes + 1, IF Recent(meta[f]) THEN "modify" ELSE "cloud")
        PROVE  SInv'
    <2>1. kind \in Kinds
      BY Zenon DEF InPlace, Kinds
    <2>2. CASE Recent(meta[f])
      BY <1>1, <1>4, <2>1, <2>2, LockKeeps, Zenon
    <2>3. CASE ~Recent(meta[f])
      BY <1>1, <1>4, <2>1, <2>3, LockKeeps, Zenon
    <2> QED BY <2>2, <2>3, Zenon
  <1>5. CASE Lock(p, f, "delete", Nil, "deleteMeta")
    BY <1>1, <1>5, LockKeeps, Zenon DEF Kinds, InPlace
  <1> QED BY <1>2, <1>3, <1>4, <1>5, Zenon DEF Begin, InPlace

-----------------------------------------------------------------------------
\* What the write-back thread may do to the lock and to the content of f.
BgLocks(f) ==
    \/ locked' = locked /\ (BgHolds(f)' => BgHolds(f))
    \/ locked' = locked \cup {f} /\ f \notin locked
    \/ locked' = locked \ {f} /\ BgHolds(f) /\ bg' = NoKey
BgWrites(f) ==
    \/ /\ meta'[f] = meta[f] /\ staged'[f] = staged[f]
       /\ f \in pinned => f \in pinned'
       /\ HasKey(f, Listed) => HasKey(f, Listed')
    \/ /\ BgHolds(f) /\ Timely(meta'[f], staged'[f], now, mode)
       /\ Safe(f, meta'[f], staged'[f], pinned', Listed', mode, allowed[f])
BgAt(f) ==
    /\ bg'.pc = "idle" <=> bg' = NoKey
    /\ bg.pc # "idle" => bg.f = f
    /\ bg'.pc # "idle" => bg'.f = f

\* A step of the write-back thread, which is at the file f or comes to it.
LEMMA WriteBackStep ==
  ASSUME SInv, STypeOK', NEW f \in Files, Apartly(f), op' = op, mode' = mode, now' = now, allowed' = allowed, BgOK',
         BgAt(f), BgLocks(f), BgWrites(f)
  PROVE  SInv'
  <1>0. op' = op /\ mode' = mode /\ now' = now /\ allowed' = allowed
    BY Zenon
  <1>1. \A p \in Procs, g \in Files : Holds(p, g)' <=> Holds(p, g)
    BY Zenon DEF Holds
  <1>2. \A g \in Files \ {f} : ~BgHolds(g) /\ ~BgHolds(g)'
    BY IdleType, Zenon DEF BgAt, BgHolds, BgLocked
  <1>3. BgHolds(f) => f \in locked /\ \A p \in Procs : ~Holds(p, f)
    BY Zenon DEF SInv, SLockInv
  <1>4. BgHolds(f)' => f \in locked' /\ \A p \in Procs : ~Holds(p, f)
    <2>1. CASE BgHolds(f)
      BY <1>3, <2>1, IdleType, Zenon DEF BgLocks, BgHolds, BgLocked
    <2>2. CASE locked' = locked \cup {f} /\ f \notin locked
      BY <2>2, Zenon DEF SInv, SLockInv
    <2> QED BY <2>1, <2>2, Zenon DEF BgLocks, BgHolds, BgLocked
  <1>5. \A g \in Files : g \in locked => g \in locked' \/ (g = f /\ BgHolds(f))
    BY Zenon DEF BgLocks
  <1>6. SLockInv'
    <2>1. \A p \in Procs : (op'[p].pc = "idle" <=> op'[p] = Idle) /\ (op'[p].pc # "idle" => op'[p].f \in Files)
      BY Zenon DEF SInv, SLockInv
    <2>2. ASSUME NEW p \in Procs, NEW g \in Files, Holds(p, g)'
          PROVE  g \in locked' /\ ~BgHolds(g)' /\ \A r \in Procs \ {p} : ~Holds(r, g)'
      <3>1. Holds(p, g)
        BY <1>1, <2>2, Zenon
      <3>2. g \in locked /\ ~BgHolds(g) /\ \A r \in Procs \ {p} : ~Holds(r, g)
        BY <3>1, Zenon DEF SInv, SLockInv
      <3>3. ~BgHolds(g)' /\ g \in locked'
        BY <1>2, <1>4, <1>5, <3>1, <3>2, Zenon
      <3> QED BY <1>1, <3>2, <3>3, Zenon
    <2>3. \A g \in Files : BgHolds(g)' => g \in locked'
      BY <1>2, <1>4, Zenon
    <2>4. ASSUME NEW g \in Files, Torn \in allowed'[g] PROVE g \in locked' /\ Unheld(g)'
      <3>1. g \in locked /\ ~BgHolds(g) /\ \A p \in Procs : ~Holds(p, g)
        BY <2>4, Zenon DEF SInv, SLockInv, Unheld
      <3>2. g \in locked' /\ ~BgHolds(g)'
        BY <1>2, <1>5, <3>1, IdleType, Zenon DEF BgLocks, BgHolds, BgLocked
      <3> QED BY <1>1, <3>1, <3>2, Zenon DEF Unheld
    <2>5. (bg'.pc = "idle" <=> bg' = NoKey) /\ (bg'.pc # "idle" => bg'.f \in Files)
      BY Zenon DEF BgAt
    <2> QED BY <2>1, <2>2, <2>3, <2>4, <2>5, Zenon DEF SLockInv
  <1>7. Timely(meta[f], staged[f], now, mode) /\ now \in Nat /\ now <= now
    BY DEF SInv, FileOK, STypeOK
  <1>8. ASSUME meta'[f] = meta[f], staged'[f] = staged[f], f \in pinned => f \in pinned',
               HasKey(f, Listed) => HasKey(f, Listed')
        PROVE  /\ Timely(meta'[f], staged'[f], now, mode)
               /\ \A A : Safe(f, meta[f], staged[f], pinned, Listed, mode, A)
                            => Safe(f, meta'[f], staged'[f], pinned', Listed', mode, A)
               /\ \A o, A : o.f = f /\ Duty(o, meta[f], staged[f], pinned, Listed, mode, now, A)
                            => Duty(o, meta'[f], staged'[f], pinned', Listed', mode, now, A)
    <2>1. ASSUME NEW A, Safe(f, meta[f], staged[f], pinned, Listed, mode, A)
          PROVE  Safe(f, meta[f], staged[f], pinned', Listed', mode, A)
      BY <1>8, <2>1, SafeMore, Zenon
    <2>2. ASSUME NEW o, NEW A, o.f = f, Duty(o, meta[f], staged[f], pinned, Listed, mode, now, A)
          PROVE  Duty(o, meta[f], staged[f], pinned', Listed', mode, now, A)
      BY <1>7, <1>8, <2>2, DutyMore, Zenon
    <2> QED BY <1>7, <1>8, <2>1, <2>2, Zenon
  <1>9. ASSUME NEW g \in Files PROVE FileOK(g)'
    <2>0. (\A q \in Procs : ~Holds(q, g)') => Safe(g, meta[g], staged[g], pinned, Listed, mode, allowed[g])
      BY <1>1, Zenon DEF SInv, FileOK
    <2>1. CASE g = f
      <3>1. /\ Timely(meta'[f], staged'[f], now, mode)
            /\ Safe(f, meta[f], staged[f], pinned, Listed, mode, allowed[f])
                 => Safe(f, meta'[f], staged'[f], pinned', Listed', mode, allowed[f])
        BY <1>8, Zenon DEF BgWrites
      <3> QED BY <1>0, <2>0, <2>1, <3>1, Zenon DEF FileOK
    <2>2. CASE g # f
      <3>1. mode' = mode /\ now' = now /\ g \in Files \ {f}
        BY <1>0, <2>2, Zenon
      <3> QED BY <2>0, <3>1, OthersOK, Zenon DEF FileOK
    <2> QED BY <2>1, <2>2, Zenon
  <1>10. ASSUME NEW q \in Procs PROVE OpOK(q)'
    <2>1. CASE op[q].pc = "idle"
      BY <2>1, Zenon DEF OpOK
    <2>2. CASE op[q].pc # "idle"
      <3>1. op[q].f \in Files /\ Holds(q, op[q].f)
        BY <2>2, Zenon DEF SInv, SLockInv, Holds
      <3>2. Duty(op[q], meta[op[q].f], staged[op[q].f], pinned, Listed, mode, now, allowed[op[q].f])
        BY <2>2, Zenon DEF SInv, OpOK
      <3>3. CASE op[q].f = f
        <4>1. Duty(op[q], meta'[f], staged'[f], pinned', Listed', mode, now, allowed[f])
          <5>1. ~BgHolds(f)
            BY <1>3, <3>1, <3>3, Zenon
          <5>2. Duty(op[q], meta[f], staged[f], pinned, Listed, mode, now, allowed[f])
            BY <3>2, <3>3, Zenon
          <5> QED BY <1>8, <3>3, <5>1, <5>2, Zenon DEF BgWrites
        <4> QED BY <1>0, <3>3, <4>1, Zenon DEF OpOK
      <3>4. CASE op[q].f # f
        <4>1. op'[q] = op[q] /\ mode' = mode /\ now' = now /\ op[q].f \in Files \ {f}
          BY <1>0, <3>1, <3>4, Zenon
        <4> QED BY <3>2, <4>1, OthersOK, Zenon DEF OpOK
      <3> QED BY <3>3, <3>4, Zenon
    <2> QED BY <2>1, <2>2, Zenon
  <1> QED BY <1>6, <1>9, <1>10, Zenon DEF SInv

\* What is known of the file that the write-back thread is at.
LEMMA BgFacts ==
  ASSUME SInv, bg.pc # "idle"
  PROVE  /\ bg \in BgRecords /\ bg.f \in Files /\ bg.v \in Int
         /\ Timely(meta[bg.f], staged[bg.f], now, mode) /\ now \in Nat
         /\ meta[bg.f] \in Metas \cup {Nil} /\ staged[bg.f] \in Copies \cup {Nil}
         /\ bg.pc \in BgLocked =>
              BgHolds(bg.f) /\ Safe(bg.f, meta[bg.f], staged[bg.f], pinned, Listed, mode, allowed[bg.f])
  <1>1. bg \in BgRecords /\ bg.f \in Files /\ bg.v \in Int
    BY Zenon DEF SInv, STypeOK, SLockInv, BgRecords
  <1>2. Timely(meta[bg.f], staged[bg.f], now, mode)
    BY <1>1, Zenon DEF SInv, FileOK
  <1>3. ASSUME bg.pc \in BgLocked
        PROVE  BgHolds(bg.f) /\ Safe(bg.f, meta[bg.f], staged[bg.f], pinned, Listed, mode, allowed[bg.f])
    <2>1. BgHolds(bg.f)
      BY <1>3, Zenon DEF BgHolds
    <2>2. \A p \in Procs : ~Holds(p, bg.f)
      BY <1>1, <2>1, Zenon DEF SInv, SLockInv
    <2> QED BY <1>1, <2>1, <2>2, Zenon DEF SInv, FileOK
  <1> QED BY <1>1, <1>2, <1>3, Zenon DEF SInv, STypeOK

\* The file goes back to the list.
LEMMA GiveUpKeeps ==
  ASSUME SInv, bg.pc # "idle", GiveUp, unhandled' = {}, KeepBg, faults' \in Nat,
         \/ locked' = locked
         \/ locked' = locked \ {bg.f} /\ bg.pc \in BgLocked
  PROVE  SInv'
  <1> DEFINE f == bg.f
             k == <<bg.f, bg.v>>
  <1>1. /\ UNCHANGED <<mode, now, rest, staged, op, allowed, writes, comp, meta, pinned>> /\ bg' = NoKey
        /\ pending' = pending \cup {k}
    BY Zenon DEF GiveUp, KeepBg, markFileAsPendingWriteToCloud
  <1>2. f \in Files /\ k \in Files \X Int /\ k[1] = f /\ (bg.pc \in BgLocked => BgHolds(f))
    BY BgFacts, Zenon
  <1>3. Listed' = Listed \cup {k}
    BY <1>1, Zenon DEF Listed
  <1>4. HasKey(f, Listed') /\ \A g : HasKey(g, Listed) => HasKey(g, Listed')
    BY <1>2, <1>3, HasKeyMore, Zenon
  <1>5. Apartly(f)
    BY <1>1, <1>4, Zenon DEF Apartly
  <1>6. STypeOK'
    <2>1. pending' \subseteq Files \X Int /\ bg' \in BgRecords
      BY <1>1, <1>2, Typed, IdleType, Zenon
    <2> QED BY <1>1, <2>1, ZenonT(30) DEF SInv, STypeOK
  <1>7. bg'.pc = "idle" /\ BgOK' /\ ~BgHolds(f)'
    BY <1>1, IdleType, Zenon DEF BgOK, BgHolds, BgLocked
  <1>8. op' = op /\ mode' = mode /\ now' = now /\ allowed' = allowed
    BY <1>1, Zenon
  <1>9. BgAt(f) /\ BgLocks(f) /\ BgWrites(f)
    BY <1>1, <1>2, <1>4, <1>7, IdleType, Zenon DEF BgAt, BgLocks, BgWrites
  <1> HIDE DEF f, k
  <1> QED BY <1>2, <1>5, <1>6, <1>7, <1>8, <1>9, WriteBackStep, Zenon

\* A step of the write-back thread that changes nothing of the files but the lock.
LEMMA BgOnlyKeeps ==
  ASSUME SInv, bg.pc # "idle", UNCHANGED <<mode, now, rest, staged, op, allowed, writes, comp, meta, pinned, pending>>,
         faults' \in Nat, BgOK', bg' \in BgRecords, bg'.pc # "idle", bg'.f = bg.f,
         \/ locked' = locked /\ (bg'.pc \in BgLocked => bg.pc \in BgLocked)
         \/ locked' = locked \cup {bg.f} /\ bg.f \notin locked
  PROVE  SInv'
  <1> DEFINE f == bg.f
  <1>1. f \in Files
    BY BgFacts, Zenon
  <1>2. Listed' = Listed
    BY Zenon DEF Listed
  <1>3. Apartly(f)
    BY <1>2, Zenon DEF Apartly
  <1>4. STypeOK'
    BY ZenonT(30) DEF SInv, STypeOK
  <1>5. BgHolds(f)' /\ (bg'.pc \in BgLocked => bg.pc \in BgLocked) => BgHolds(f)
    BY Zenon DEF BgHolds
  <1>6. bg' # NoKey
    BY IdleType, Zenon
  <1>7. BgAt(f) /\ BgLocks(f) /\ BgWrites(f)
    BY <1>2, <1>5, <1>6, Zenon DEF BgAt, BgLocks, BgWrites
  <1>8. op' = op /\ mode' = mode /\ now' = now /\ allowed' = allowed
    BY Zenon
  <1> HIDE DEF f
  <1> QED BY <1>1, <1>3, <1>4, <1>7, <1>8, WriteBackStep, Zenon

\* Taking the next file off the list.
LEMMA ScanKeeps ==
  ASSUME SInv, getFilesPendingWriteToCloud
  PROVE  SInv'
  <1> DEFINE left == IF rest = {} /\ ended THEN pending ELSE rest
  <1>1. bg = NoKey /\ UNCHANGED <<mode, now, meta, locked, staged, pinned, op, allowed, writes, faults>>
    BY ZenonT(30) DEF getFilesPendingWriteToCloud, Fine
  <1>2. left \subseteq Files \X Int
    BY Zenon DEF SInv, STypeOK
  <1>3. \/ UNCHANGED <<pending, rest, comp, bg>>
        \/ \E k \in left :
              /\ rest' = left \ {k}
              /\ \/ UNCHANGED <<pending, comp, bg>>
                 \/ /\ k \in pending /\ pending' = pending \ {k} /\ comp' = comp \cup {k}
                    /\ bg' = [NoKey EXCEPT !.pc = "check", !.f = k[1], !.v = k[2]]
    BY ZenonT(30) DEF getFilesPendingWriteToCloud
  <1> HIDE DEF left
  <1>4. CASE UNCHANGED <<pending, comp, bg>> /\ rest' \subseteq Files \X Int
    <2>1. STypeOK'
      BY <1>1, <1>4, ZenonT(30) DEF SInv, STypeOK
    <2>2. UNCHANGED <<mode, now, meta, locked, staged, pinned, op, allowed, pending, comp, bg>> /\ Listed' = Listed
      BY <1>1, <1>4, ZenonT(30) DEF Listed
    <2>3. SLockInv' /\ BgOK' /\ (\A f \in Files : FileOK(f)') /\ (\A p \in Procs : OpOK(p)')
      BY <2>2 DEF SInv, SLockInv, Unheld, Holds, BgHolds, BgOK, FileOK, OpOK
    <2> QED BY <2>1, <2>3, Zenon DEF SInv
  <1>5. ASSUME NEW k \in left, rest' = left \ {k}, k \in pending, pending' = pending \ {k}, comp' = comp \cup {k},
               bg' = [NoKey EXCEPT !.pc = "check", !.f = k[1], !.v = k[2]]
        PROVE  SInv'
    <2> DEFINE f == k[1]
    <2>1. f \in Files /\ k[2] \in Int /\ k \in Files \X Int
      BY <1>2, <1>5, Zenon
    <2>2. bg' \in BgRecords /\ bg'.pc = "check" /\ bg'.f = f /\ bg' # NoKey
      BY <1>5, <2>1, IdleType, ZenonT(30) DEF NoKey, BgRecords, Data
    <2>3. Listed' = Listed
      BY <1>5, Zenon DEF Listed
    <2>4. Apartly(f)
      BY <1>1, <2>3, Zenon DEF Apartly
    <2>5. STypeOK'
      <3>1. rest' \subseteq Files \X Int /\ pending' \subseteq Files \X Int /\ comp' \subseteq Files \X Int
        BY <1>2, <1>5, <2>1, Typed, Zenon
      <3> QED BY <1>1, <2>2, <3>1, ZenonT(30) DEF SInv, STypeOK
    <2>6. BgOK'
      BY <2>2, Zenon DEF BgOK
    <2>7. BgAt(f) /\ BgLocks(f) /\ BgWrites(f)
      BY <1>1, <2>2, <2>3, IdleType, Zenon DEF BgAt, BgLocks, BgWrites, BgHolds, BgLocked
    <2>8. op' = op /\ mode' = mode /\ now' = now /\ allowed' = allowed
      BY <1>1, Zenon
    <2> HIDE DEF f
    <2> QED BY <2>1, <2>4, <2>5, <2>6, <2>7, <2>8, WriteBackStep, Zenon
  <1>6. CASE UNCHANGED <<pending, rest, comp, bg>>
    BY <1>4, <1>6, Zenon DEF SInv, STypeOK
  <1>7. ASSUME NEW k \in left, rest' = left \ {k}, UNCHANGED <<pending, comp, bg>> PROVE SInv'
    BY <1>2, <1>4, <1>7, Zenon
  <1> QED BY <1>3, <1>5, <1>6, <1>7, Zenon

\* Looking at the file, and locking it.
LEMMA CheckKeeps ==
  ASSUME SInv, WriteBackCheck \/ WriteBackLock, unhandled' = {}
  PROVE  SInv'
  <1>1. bg.pc \in {"check", "lock"} /\ bg.pc # "idle" /\ KeepBg /\ UNCHANGED faults /\ faults' \in Nat
    BY Typed, Zenon DEF WriteBackCheck, WriteBackLock
  <1>2. CASE GiveUp /\ locked' = locked
    BY <1>1, <1>2, GiveUpKeeps, Zenon
  <1>3. CASE ~(GiveUp /\ locked' = locked)
    <2>1. UNCHANGED <<meta, pending, comp, pinned>>
      BY <1>3, Zenon DEF WriteBackCheck, WriteBackLock
    <2>2. UNCHANGED <<mode, now, rest, staged, op, allowed, writes, comp, meta, pinned, pending>>
      BY <1>1, <2>1, Zenon DEF KeepBg
    <2>3. bg \in BgRecords /\ bg.f \in Files /\ meta[bg.f] \in Metas \cup {Nil}
      BY <1>1, BgFacts, Zenon
    <2>4. CASE WriteBackCheck
      <3>1. bg' = [bg EXCEPT !.pc = "lock"] /\ locked' = locked
        BY <1>3, <2>4, Zenon DEF WriteBackCheck
      <3>2. bg' \in BgRecords /\ bg'.pc = "lock" /\ bg'.f = bg.f
        BY <2>3, <3>1, Zenon DEF BgRecords
      <3>3. BgOK' /\ bg'.pc \notin BgLocked /\ bg'.pc # "idle"
        BY <3>2, Zenon DEF BgOK, BgLocked
      <3> QED BY <1>1, <2>2, <3>1, <3>2, <3>3, BgOnlyKeeps, Zenon
    <2>5. CASE WriteBackLock
      <3>1. /\ bg.f \notin locked /\ meta[bg.f] # Nil /\ locked' = locked \cup {bg.f}
            /\ bg' = [bg EXCEPT !.pc = "read", !.m = meta[bg.f]]
        BY <1>3, <2>5, Zenon DEF WriteBackLock
      <3>2. bg' \in BgRecords /\ bg'.pc = "read" /\ bg'.f = bg.f /\ bg'.m = meta[bg.f] /\ meta[bg.f] \in Metas
        BY <2>3, <3>1, ZenonT(30) DEF BgRecords
      <3>3. BgOK' /\ bg'.pc # "idle"
        BY <2>2, <3>2, Zenon DEF BgOK
      <3> QED BY <1>1, <2>2, <3>1, <3>2, <3>3, BgOnlyKeeps, Zenon
    <2> QED BY <2>4, <2>5, Zenon
  <1> QED BY <1>2, <1>3, Zenon

\* Reading the staged file and writing it to the cloud, under the lock.
LEMMA ReadKeeps ==
  ASSUME SInv, WriteBackRead \/ WriteBackStripes, unhandled' = {}
  PROVE  SInv'
  <1> DEFINE f == bg.f
             m == meta[f]
             s == staged[f]
             A == allowed[f]
  <1>1. bg.pc \in {"read", "write"} /\ bg.pc # "idle" /\ bg.pc \in BgLocked /\ KeepBg
    BY Zenon DEF WriteBackRead, WriteBackStripes, BgLocked
  <1>2. faults' \in Nat
    <2>1. faults' = faults \/ faults' = faults + 1
      BY Zenon DEF WriteBackRead, WriteBackStripes, Fault, Fine
    <2> QED BY <2>1, Typed
  <1>3. /\ bg \in BgRecords /\ f \in Files /\ Timely(m, s, now, mode) /\ s \in Copies \cup {Nil}
        /\ Safe(f, m, s, pinned, Listed, mode, A)
    BY <1>1, BgFacts, Zenon
  <1>4. bg.m \in Metas /\ bg.m = m
    BY <1>1, Zenon DEF SInv, BgOK
  <1>5. CASE GiveUp /\ locked' = locked \ {bg.f}
    BY <1>1, <1>2, <1>5, GiveUpKeeps, Zenon
  <1>6. CASE ~(GiveUp /\ locked' = locked \ {bg.f})
    <2>1. UNCHANGED <<meta, locked, pending, comp, pinned>>
      BY <1>6, Zenon DEF WriteBackRead, WriteBackStripes
    <2>2. UNCHANGED <<mode, now, rest, staged, op, allowed, writes, comp, meta, pinned, pending>>
      BY <1>1, <2>1, Zenon DEF KeepBg
    <2>3. CASE WriteBackRead
      <3>1. bg.m.coded /\ s # Nil
        BY <1>6, <2>3, Zenon DEF WriteBackRead
      <3>3. Recent(m) /\ m # Nil /\ m.ssize # -1
        BY <1>3, <1>4, <3>1, Apart, Zenon DEF Timely
      <3>a. Torn \notin A
        BY <1>1, <1>3, Zenon DEF SInv, SLockInv, Unheld, BgHolds
      <3>4. s.data \in A /\ s.data \in Data /\ UpTo(bg.m.ssize, s) = s.data
        BY <1>3, <1>4, <3>1, <3>3, <3>a, Zenon DEF Safe, Copies, UpTo, Sized
      <3>2. bg' = [bg EXCEPT !.pc = "write", !.d = s.data]
        BY <1>6, <2>3, <3>4, Zenon DEF WriteBackRead
      <3>5. bg' \in BgRecords /\ bg'.pc = "write" /\ bg'.f = f /\ bg'.m = bg.m /\ bg'.d = s.data
        BY <1>3, <3>2, <3>4, ZenonT(30) DEF BgRecords
      <3>6. meta'[f] = m /\ allowed'[f] = A
        BY <2>2, Zenon
      <3>7. BgOK' /\ bg'.pc \in BgLocked /\ bg'.pc # "idle"
        BY <1>4, <3>1, <3>4, <3>5, <3>6, ZenonT(30) DEF BgOK, BgLocked
      <3> QED BY <1>1, <1>2, <2>1, <2>2, <3>5, <3>7, BgOnlyKeeps, Zenon
    <2>4. CASE WriteBackStripes
      <3>1. bg.pc = "write" /\ bg' = [bg EXCEPT !.pc = "put"]
        BY <1>6, <2>4, Zenon DEF WriteBackStripes
      <3>2. bg' \in BgRecords /\ bg'.pc = "put" /\ bg'.f = f /\ bg'.m = bg.m /\ bg'.d = bg.d
        BY <1>3, <3>1, Zenon DEF BgRecords
      <3>3. meta'[f] = m /\ allowed'[f] = A /\ bg.d \in A
        BY <2>2, <3>1, Zenon DEF SInv, BgOK
      <3>4. bg.m.coded
        BY <3>1, Zenon DEF SInv, BgOK
      <3>5. BgOK' /\ bg'.pc \in BgLocked /\ bg'.pc # "idle"
        BY <1>4, <3>2, <3>3, <3>4, ZenonT(30) DEF BgOK, BgLocked
      <3> QED BY <1>1, <1>2, <2>1, <2>2, <3>2, <3>5, BgOnlyKeeps, Zenon
    <2> QED BY <2>3, <2>4, Zenon
  <1> QED BY <1>5, <1>6, Zenon

\* The metadata of a file that has been written back: the cloud has the content
\* that the staged copy has, and the staged copy is no longer needed.
LEMMA WriteBackPutKeeps ==
  ASSUME SInv, WriteBackPutMeta, unhandled' = {}
  PROVE  SInv'
  <1> DEFINE f == bg.f
             m == meta[f]
             s == staged[f]
             A == allowed[f]
  <1>1. bg.pc = "put" /\ bg.pc # "idle" /\ bg.pc \in BgLocked /\ KeepBg
    BY Zenon DEF WriteBackPutMeta, BgLocked
  <1>2. /\ bg \in BgRecords /\ f \in Files /\ Timely(m, s, now, mode) /\ s \in Copies \cup {Nil} /\ BgHolds(f)
        /\ Safe(f, m, s, pinned, Listed, mode, A) /\ now \in Nat
    BY <1>1, BgFacts, Zenon
  <1>3. bg.m \in Metas /\ bg.m = m /\ bg.d \in A
    BY <1>1, Zenon DEF SInv, BgOK
  <1>4. m.coded
    BY <1>1, <1>3, Zenon DEF SInv, BgOK
  <1>5. Recent(m) /\ m # Nil /\ mode.staging
    BY <1>2, <1>3, <1>4, Apart, Zenon DEF Timely
  <1>6. CASE Fault("meta") /\ GiveUp /\ locked' = locked \ {bg.f}
    <2>1. faults' \in Nat
      BY <1>6, Typed DEF Fault
    <2> QED BY <1>1, <1>6, <2>1, GiveUpKeeps, Zenon
  <1>7. CASE /\ meta' = [meta EXCEPT ![f] = WriteBackMeta(bg.m, bg.d)] /\ bg' = [bg EXCEPT !.pc = "end"]
             /\ UNCHANGED <<locked, pending, comp, pinned>> /\ Fine
    <2>1. m.ver + 1 \in Int /\ m.mtime \in Nat /\ bg.d \in Data
      BY <1>2, <1>3 DEF Metas, BgRecords
    <2>2. PICK n : meta' = [meta EXCEPT ![f] = n] /\ n = CloudMeta(m.ver + 1, m.mtime, bg.d)
      BY <1>3, <1>7, Zenon DEF WriteBackMeta
    <2>3. /\ n \in Metas /\ n # Nil /\ n.mtime = m.mtime /\ n.smtime = 0 /\ ~n.coded /\ n.cloud = bg.d
          /\ n.ssize = -1
      BY <2>1, <2>2, CloudMetaType
    <2>4. /\ meta' \in [Files -> Metas \cup {Nil}] /\ meta'[f] = n
          /\ \A g \in Files \ {f} : meta'[g] = meta[g]
      BY <1>2, <2>2, <2>3, MetaPut, Typed, Zenon
    <2>5. UNCHANGED <<mode, now, rest, staged, op, allowed, writes, comp, pinned, pending, locked, faults>> /\ Listed' = Listed
      BY <1>1, <1>7, Zenon DEF KeepBg, Listed, Fine
    <2>6. bg' \in BgRecords /\ bg'.pc = "end" /\ bg'.f = f
      BY <1>2, <1>7, Zenon DEF BgRecords
    <2> HIDE DEF f, m, s, A
    <2>7. Timely(n, s, now, mode)
      BY <1>2, <1>3, <1>5, <2>3 DEF Timely, Copies, Metas
    <2>8. Safe(f, n, s, pinned, Listed, mode, A)
      BY <1>2, <1>3, <1>5, <2>1, <2>3 DEF Safe, Sized
    <2>9. meta'[f] = n /\ staged'[f] = s /\ allowed'[f] = A /\ allowed[f] = A /\ bg.f = f
      BY <2>4, <2>5, Zenon DEF s, A, f
    <2>10. BgOK'
      BY <1>3, <2>3, <2>6, <2>9, Zenon DEF BgOK
    <2>11. Apartly(f)
      BY <2>4, <2>5, Zenon DEF Apartly
    <2>12. STypeOK'
      BY <2>4, <2>5, <2>6, ZenonT(30) DEF SInv, STypeOK
    <2>13. BgAt(f) /\ BgLocks(f)
      BY <1>2, <2>5, <2>6, <2>9, IdleType, Zenon DEF BgAt, BgLocks
    <2>14. BgWrites(f)
      BY <1>2, <2>5, <2>7, <2>8, <2>9, Zenon DEF BgWrites
    <2>15. op' = op /\ mode' = mode /\ now' = now /\ allowed' = allowed
      BY <2>5, Zenon
    <2> QED BY <1>2, <2>10, <2>11, <2>12, <2>13, <2>14, <2>15, WriteBackStep, Zenon
  <1> QED BY <1>6, <1>7, Zenon DEF WriteBackPutMeta

\* The written file is unpinned, unlocked and off the list: the cloud has its content.
LEMMA WriteBackEndKeeps ==
  ASSUME SInv, WriteBackEnd
  PROVE  SInv'
  <1> DEFINE f == bg.f
             k == <<bg.f, bg.v>>
             m == meta[f]
             s == staged[f]
             A == allowed[f]
  <1>1. bg.pc = "end" /\ bg.pc # "idle" /\ bg.pc \in BgLocked
    BY Zenon DEF WriteBackEnd, BgLocked
  <1>2. /\ UNCHANGED <<mode, now, rest, staged, op, allowed, writes, meta, faults, pending>>
        /\ comp' = comp \ {k} /\ pinned' = pinned \ {f} /\ locked' = locked \ {f} /\ bg' = NoKey
    BY Zenon DEF WriteBackEnd, KeepBg, markFileAsWrittenToCloud, unpinFile, Fine
  <1>3. /\ f \in Files /\ Timely(m, s, now, mode) /\ BgHolds(f) /\ Safe(f, m, s, pinned, Listed, mode, A)
        /\ m \in Metas \cup {Nil}
    BY <1>1, BgFacts, Zenon
  <1>4. m # Nil /\ m.cloud \in A /\ m.smtime = 0
    BY <1>1, Zenon DEF SInv, BgOK
  <1>5. ~(m.smtime > m.mtime)
    BY <1>3, <1>4 DEF Metas
  <1>6. Listed \ {k} \subseteq Listed'
    BY <1>2, Zenon DEF Listed
  <1>7. \A g \in Files \ {f} : HasKey(g, Listed) => HasKey(g, Listed')
    <2>1. \A g \in Files \ {f} : HasKey(g, Listed) => HasKey(g, Listed \ {k})
      BY HasKeyLess, Zenon
    <2> QED BY <1>6, <2>1, Zenon DEF HasKey
  <1>8. Apartly(f)
    BY <1>2, <1>7, Zenon DEF Apartly
  <1>9. STypeOK'
    <2>1. comp' \subseteq Files \X Int /\ bg' \in BgRecords
      BY <1>2, Typed, IdleType, Zenon
    <2> QED BY <1>2, <2>1, ZenonT(30) DEF SInv, STypeOK
  <1>10. BgOK'
    BY <1>2, IdleType, Zenon DEF BgOK
  <1>11. BgAt(f) /\ BgLocks(f)
    BY <1>2, <1>3, IdleType, Zenon DEF BgAt, BgLocks
  <1> HIDE DEF f, m, s, A, k
  <1>12. Safe(f, m, s, pinned', Listed', mode, A)
    BY <1>3, <1>4, <1>5, Zenon DEF Safe
  <1>13. BgWrites(f)
    BY <1>2, <1>3, <1>12, Zenon DEF BgWrites, m, s, A
  <1>14. op' = op /\ mode' = mode /\ now' = now /\ allowed' = allowed
    BY <1>2, Zenon
  <1> QED BY <1>3, <1>8, <1>9, <1>10, <1>11, <1>13, <1>14, WriteBackStep, Zenon

-----------------------------------------------------------------------------
\* The cleaner takes what is not pinned: nobody needs it.
LEMMA CleanKeeps ==
  ASSUME SInv, Orderly, NEW f \in Files, cleanIdleFiles(f)
  PROVE  SInv'
  <1> DEFINE m == meta[f]
             s == staged[f]
  <1>1. /\ UNCHANGED <<mode, now, meta, locked, pending, rest, comp, op, bg, allowed, writes, faults>>
        /\ mode.clean /\ f \notin pinned /\ pinned' = pinned /\ staged' = [staged EXCEPT ![f] = Nil] /\ Listed' = Listed
    BY Zenon DEF cleanIdleFiles, Cleanable, deleteFile, redis, Listed
  <1>2. /\ staged' \in [Files -> Copies \cup {Nil}] /\ staged'[f] = Nil
        /\ \A g \in Files \ {f} : staged'[g] = staged[g]
    BY <1>1, Replaced, Typed, Zenon
  <1>3. Apartly(f)
    BY <1>1, <1>2, Zenon DEF Apartly
  <1>4. STypeOK'
    BY <1>1, <1>2, ZenonT(30) DEF SInv, STypeOK
  <1>5. SLockInv' /\ BgOK'
    BY <1>1 DEF SInv, SLockInv, Unheld, Holds, BgHolds, BgOK
  <1>6. mode' = mode /\ now' = now /\ op' = op /\ meta' = meta /\ allowed' = allowed /\ pinned' = pinned
    BY <1>1, Zenon
  <1>7. Timely(m, s, now, mode) /\ Timely(m, Nil, now, mode)
    BY Zenon DEF SInv, FileOK, Timely
  <1> HIDE DEF m, s
  <1>8. \A A : Safe(f, m, s, pinned, Listed, mode, A) => Safe(f, m, Nil, pinned, Listed, mode, A)
    BY <1>1, Zenon DEF Safe
  <1>9. ASSUME NEW o, NEW A, o.f = f, Duty(o, m, s, pinned, Listed, mode, now, A)
        PROVE  Duty(o, m, Nil, pinned, Listed, mode, now, A)
    <2>1. ~(mode.staging /\ Modified(o, m)) /\ ~(mode.staging /\ Modifying(o, m))
      BY <1>1, <1>9, ModeOK, Zenon DEF Modifying, Modified, Duty
    <2>2. ~Filled(o, s, pinned)
      BY <1>1, <1>9, Zenon DEF Filled
    <2> QED BY <1>1, <1>8, <1>9, <2>1, <2>2, Zenon DEF Duty, Midway
  <1>10. ASSUME NEW g \in Files PROVE FileOK(g)'
    <2>0. (\A q \in Procs : ~Holds(q, g)') => Safe(g, meta[g], staged[g], pinned, Listed, mode, allowed[g])
      BY <1>1, Zenon DEF SInv, FileOK, Holds
    <2>1. CASE g = f
      <3>1. (\A q \in Procs : ~Holds(q, f)') => Safe(f, m, Nil, pinned, Listed, mode, allowed[f])
        BY <1>8, <2>0, <2>1, Zenon DEF m, s
      <3> QED BY <1>1, <1>2, <1>7, <2>1, <3>1, Zenon DEF FileOK, m
    <2>2. CASE g # f
      <3>1. mode' = mode /\ now' = now /\ g \in Files \ {f}
        BY <1>6, <2>2, Zenon
      <3> QED BY <1>3, <2>0, <3>1, OthersOK, Zenon DEF FileOK
    <2> QED BY <2>1, <2>2, Zenon
  <1>11. ASSUME NEW q \in Procs PROVE OpOK(q)'
    <2>1. CASE op[q].pc = "idle"
      BY <1>6, <2>1, Zenon DEF OpOK
    <2>2. CASE op[q].pc # "idle"
      <3>1. op[q].f \in Files
        BY <2>2, Zenon DEF SInv, SLockInv
      <3>2. Duty(op[q], meta[op[q].f], staged[op[q].f], pinned, Listed, mode, now, allowed[op[q].f])
        BY <2>2, Zenon DEF SInv, OpOK
      <3>3. CASE op[q].f = f
        <4>1. Duty(op[q], m, s, pinned, Listed, mode, now, allowed[f])
          BY <3>2, <3>3, Zenon DEF m, s
        <4>2. Duty(op[q], m, Nil, pinned, Listed, mode, now, allowed[f])
          BY <1>9, <3>3, <4>1, Zenon
        <4> QED BY <1>1, <1>2, <3>3, <4>2, Zenon DEF OpOK, m
      <3>4. CASE op[q].f # f
        <4>1. op'[q] = op[q] /\ mode' = mode /\ now' = now /\ op[q].f \in Files \ {f}
          BY <1>6, <3>1, <3>4, Zenon
        <4> QED BY <1>3, <3>2, <4>1, OthersOK, Zenon DEF OpOK
      <3> QED BY <3>3, <3>4, Zenon
    <2> QED BY <2>1, <2>2, Zenon
  <1> QED BY <1>4, <1>5, <1>10, <1>11, Zenon DEF SInv

\* Time passes.
LEMMA TickKeeps ==
  ASSUME SInv, Tick
  PROVE  SInv'
  <1>1. /\ UNCHANGED <<mode, meta, locked, pending, rest, comp, staged, pinned, op, bg, allowed, writes, faults>>
        /\ now' = now + 1 /\ Listed' = Listed
    BY Zenon DEF Tick, redis, Listed
  <1>2. now \in Nat \ {0} /\ now' \in Nat \ {0} /\ now <= now'
    BY <1>1 DEF SInv, STypeOK
  <1>3. STypeOK'
    BY <1>1, <1>2, ZenonT(30) DEF SInv, STypeOK
  <1>4. SLockInv' /\ BgOK'
    BY <1>1 DEF SInv, SLockInv, Unheld, Holds, BgHolds, BgOK
  <1>5. ASSUME NEW f \in Files PROVE FileOK(f)'
    <2>1. Timely(meta[f], staged[f], now, mode) /\ meta[f] \in Metas \cup {Nil}
      BY Zenon DEF SInv, FileOK, STypeOK
    <2>2. Timely(meta[f], staged[f], now', mode)
      BY <1>2, <2>1 DEF Timely, Metas
    <2>3. (\A p \in Procs : ~Holds(p, f)') => Safe(f, meta[f], staged[f], pinned, Listed, mode, allowed[f])
      BY <1>1, Zenon DEF SInv, FileOK, Holds
    <2> QED BY <1>1, <2>2, <2>3, Zenon DEF FileOK
  <1>6. ASSUME NEW p \in Procs PROVE OpOK(p)'
    <2>1. ASSUME op[p].pc # "idle"
          PROVE  Duty(op[p], meta[op[p].f], staged[op[p].f], pinned, Listed, mode, now', allowed[op[p].f])
      <3>1. Duty(op[p], meta[op[p].f], staged[op[p].f], pinned, Listed, mode, now, allowed[op[p].f])
        BY <2>1, AtWork, Zenon
      <3> QED BY <1>2, <3>1, DutyMore
    <2> QED BY <1>1, <2>1, Zenon DEF OpOK
  <1> QED BY <1>3, <1>4, <1>5, <1>6, Zenon DEF SInv

\* The proxy dies: what a request of a file had reached is Safe, also when the
\* staged file was being changed, since then a torn copy may be seen.
LEMMA CrashKeeps ==
  ASSUME SInv, Orderly, Crash
  PROVE  SInv'
  <1>1. /\ UNCHANGED <<mode, now, meta, locked, pending, rest, comp, staged, pinned, writes>> /\ Listed' = Listed
        /\ op' = [p \in Procs |-> Idle] /\ bg' = NoKey /\ Fault("crash")
    BY Zenon DEF Crash, redis, Listed
  <1>2. allowed' \in [Files -> SUBSET Data] /\ \A f \in Files : allowed[f] \subseteq allowed'[f]
    BY Zenon DEF Crash, SInv, STypeOK, Data
  <1>3. ASSUME NEW f \in Files, Torn \in allowed'[f], Torn \notin allowed[f]
        PROVE  \E p \in Procs : op[p].f = f /\ op[p].pc \in Midway
    BY <1>3, Zenon DEF Crash
  <1>4. ASSUME NEW f \in Files, NEW p \in Procs, op[p].f = f, op[p].pc \in Midway PROVE Torn \in allowed'[f]
    <2>1. allowed'[f] = allowed[f] \cup {Torn : q \in {r \in Procs : op[r].f = f /\ op[r].pc \in Midway}}
      BY Zenon DEF Crash
    <2> QED BY <1>4, <2>1, Zenon
  <1>5. STypeOK'
    <2>1. op' \in [Procs -> OpRecords] /\ bg' \in BgRecords
      BY <1>1, IdleType, Zenon
    <2>2. faults' \in Nat
      BY <1>1, Typed DEF Fault
    <2> QED BY <1>1, <1>2, <2>1, <2>2, ZenonT(30) DEF SInv, STypeOK
  <1>6. \A p \in Procs : op'[p] = Idle
    BY <1>1, Zenon
  <1>7. \A f \in Files : ~BgHolds(f)' /\ \A p \in Procs : ~Holds(p, f)'
    BY <1>1, <1>6, IdleType, Zenon DEF Holds, BgHolds, BgLocked
  <1>8. SLockInv'
    <2>1. ASSUME NEW f \in Files, Torn \in allowed'[f] PROVE f \in locked'
      <3>1. CASE Torn \in allowed[f]
        BY <1>1, <3>1, ZenonT(30) DEF SInv, SLockInv
      <3>2. CASE Torn \notin allowed[f]
        <4>1. PICK p \in Procs : op[p].f = f /\ op[p].pc \in Midway
          BY <1>3, <2>1, <3>2, Zenon
        <4> QED BY <1>1, <4>1, Zenon DEF SInv, SLockInv, Holds, Midway
      <3> QED BY <3>1, <3>2, Zenon
    <2>2. \A p \in Procs : (op'[p].pc = "idle" <=> op'[p] = Idle) /\ (op'[p].pc # "idle" => op'[p].f \in Files)
      BY <1>6, IdleType, Zenon
    <2>3. (bg'.pc = "idle" <=> bg' = NoKey) /\ (bg'.pc # "idle" => bg'.f \in Files)
      BY <1>1, IdleType, Zenon
    <2> QED BY <1>7, <2>1, <2>2, <2>3, Zenon DEF SLockInv, Unheld
  <1>9. BgOK'
    BY <1>1, IdleType, Zenon DEF BgOK
  <1>10. ASSUME NEW f \in Files PROVE FileOK(f)'
    <2>1. Timely(meta[f], staged[f], now, mode)
      BY Zenon DEF SInv, FileOK
    <2>2. Safe(f, meta[f], staged[f], pinned, Listed, mode, allowed'[f])
      <3>1. CASE \A p \in Procs : ~Holds(p, f)
        <4>1. Safe(f, meta[f], staged[f], pinned, Listed, mode, allowed[f])
          BY <3>1, Zenon DEF SInv, FileOK
        <4> QED BY <1>2, <4>1, SafeMore, ZenonT(30)
      <3>2. ASSUME NEW p \in Procs, Holds(p, f) PROVE Safe(f, meta[f], staged[f], pinned, Listed, mode, allowed'[f])
        <4>1. op[p].f = f /\ Duty(op[p], meta[f], staged[f], pinned, Listed, mode, now, allowed[f])
          BY <3>2, AtWork, Zenon DEF Holds
        <4>2. CASE op[p].pc \in Midway
          <5>1. Safe(f, meta[f], staged[f], pinned, Listed, mode, allowed[f] \cup {Torn})
            BY <4>1, <4>2, Zenon DEF Duty
          <5>2. allowed[f] \cup {Torn} \subseteq allowed'[f]
            BY <1>2, <1>4, <4>1, <4>2, Zenon
          <5> QED BY <5>1, <5>2, SafeMore, ZenonT(30)
        <4>3. CASE op[p].pc \notin Midway
          <5>1. ~Exposed(op[p], mode)
            BY <1>1, NotExposed, Zenon
          <5>2. Safe(f, meta[f], staged[f], pinned, Listed, mode, allowed[f])
            BY <4>1, <4>3, <5>1, Zenon DEF Duty
          <5> QED BY <1>2, <5>2, SafeMore, ZenonT(30)
        <4> QED BY <4>2, <4>3, Zenon
      <3> QED BY <3>1, <3>2, Zenon
    <2> QED BY <1>1, <2>1, <2>2, Zenon DEF FileOK
  <1>11. \A p \in Procs : OpOK(p)'
    BY <1>6, IdleType, Zenon DEF OpOK
  <1> QED BY <1>5, <1>8, <1>9, <1>10, <1>11, Zenon DEF SInv

\* SInv holds at the start.
LEMMA SInvInit == Init => SInv
  <1> SUFFICES ASSUME Init PROVE SInv
    BY Zenon
  <1>1. STypeOK
    <2>1. op \in [Procs -> OpRecords] /\ bg \in BgRecords
      BY IdleType, Zenon DEF Init
    <2> QED BY <2>1 DEF Init, STypeOK, Data
  <1>2. \A p \in Procs : op[p] = Idle
    BY Zenon DEF Init
  <1>3. bg = NoKey /\ \A f \in Files : allowed[f] = {Nil} /\ meta[f] = Nil
    BY Zenon DEF Init
  <1>4. \A f \in Files : ~BgHolds(f) /\ \A p \in Procs : ~Holds(p, f)
    BY <1>2, <1>3, IdleType, Zenon DEF Holds, BgHolds, BgLocked
  <1>5. SLockInv
    BY <1>2, <1>3, <1>4, IdleType, Apart, SMTT(30) DEF SLockInv
  <1>6. BgOK /\ \A p \in Procs : OpOK(p)
    BY <1>2, <1>3, IdleType, Zenon DEF BgOK, OpOK
  <1>7. \A f \in Files : FileOK(f)
    BY <1>3, Zenon DEF FileOK, Timely, Safe
  <1> QED BY <1>1, <1>5, <1>6, <1>7, Zenon DEF SInv

\* Every step keeps SInv, unless a failure is left unhandled.
LEMMA SInvNext ==
  ASSUME Orderly
  PROVE  SInv /\ [Next]_vars /\ unhandled' = {} => SInv'
  <1> SUFFICES ASSUME SInv, [Next]_vars, unhandled' = {} PROVE SInv'
    BY Zenon
  <1>1. ASSUME bgwriteFileToCloud PROVE SInv'
    BY <1>1, CheckKeeps, ReadKeeps, WriteBackPutKeeps, WriteBackEndKeeps, Zenon DEF bgwriteFileToCloud
  <1>2. CASE UNCHANGED vars
    <2>1. UNCHANGED <<mode, now, meta, locked, pending, rest, comp, staged, pinned, op, bg, allowed, writes, faults>>
          /\ Listed' = Listed
      BY <1>2, Zenon DEF vars, redis, Listed
    <2>2. STypeOK'
      BY <2>1, ZenonT(30) DEF SInv, STypeOK
    <2>a. \A f \in Files : (BgHolds(f)' <=> BgHolds(f)) /\ \A p \in Procs : Holds(p, f)' <=> Holds(p, f)
      BY <2>1, Zenon DEF Holds, BgHolds
    <2>b. \A f \in Files : Unheld(f)' <=> Unheld(f)
      BY <2>1, Zenon DEF Unheld, Holds, BgHolds
    <2>c. SLockInv /\ BgOK /\ \A f \in Files : FileOK(f)
      BY Zenon DEF SInv
    <2>3. SLockInv' /\ BgOK'
      <3>1. SLockInv'
        BY <2>1, <2>a, <2>b, <2>c, ZenonT(30) DEF SLockInv
      <3>2. BgOK'
        BY <2>1, <2>c, Zenon DEF BgOK
      <3> QED BY <3>1, <3>2
    <2>4. \A f \in Files : FileOK(f)'
      BY <2>1, <2>a, <2>c, Zenon DEF FileOK
    <2>5. \A p \in Procs : OpOK(p)'
      BY <2>1, ZenonT(30) DEF SInv, OpOK
    <2> QED BY <2>2, <2>3, <2>4, <2>5, Zenon DEF SInv
  <1> QED BY <1>1, <1>2, BeginKeeps, StepKeeps, ScanKeeps, CleanKeeps, TickKeeps, CrashKeeps, Zenon DEF Next

\* What is known of a file that no request is at.
LEMMA AtRest ==
  ASSUME SInv, NEW f \in Files, ~Busy(f)
  PROVE  /\ Safe(f, meta[f], staged[f], pinned, Listed, mode, allowed[f])
         /\ Timely(meta[f], staged[f], now, mode)
  <1>1. \A p \in Procs : ~Holds(p, f)
    BY Zenon DEF Busy, Holds
  <1> QED BY <1>1, Zenon DEF SInv, FileOK

\* The history variable records that a failure was not handled, and keeps that.
LEMMA UnhandledGrows == [Next]_vars => unhandled \subseteq unhandled'
  <1>1. ASSUME NEW p \in Procs, Step(p) PROVE unhandled \subseteq unhandled'
    <2>1. CASE Pin(p) \/ Open(p) \/ Fill(p) \/ Mark(p)
      BY <2>1, Zenon DEF Pin, Open, Fill, Mark, Fine, Unhandled, partialWrite
    <2>2. CASE ModifyStaged(p) \/ WriteCloud(p) \/ PutMeta(p)
      BY <2>2, Zenon DEF ModifyStaged, WriteCloud, PutMeta, Fine, Unhandled, partialWrite
    <2>3. CASE DeleteMeta(p) \/ DeleteChunks(p) \/ DeleteStaged(p) \/ Unlock(p)
      BY <2>3, Zenon DEF DeleteMeta, DeleteChunks, DeleteStaged, Unlock, Fine
    <2> QED BY <1>1, <2>1, <2>2, <2>3, Zenon DEF Step
  <1>2. ASSUME bgwriteFileToCloud PROVE unhandled \subseteq unhandled'
    <2>1. CASE WriteBackCheck \/ WriteBackLock \/ WriteBackRead
      BY <2>1, Zenon DEF WriteBackCheck, WriteBackLock, WriteBackRead, GiveUp
    <2>2. CASE WriteBackStripes \/ WriteBackPutMeta \/ WriteBackEnd
      BY <2>2, Zenon DEF WriteBackStripes, WriteBackPutMeta, WriteBackEnd, GiveUp, Fine
    <2> QED BY <1>2, <2>1, <2>2, Zenon DEF bgwriteFileToCloud
  <1>3. ASSUME NEW p \in Procs, NEW f \in Files, Begin(p, f) PROVE unhandled \subseteq unhandled'
    BY <1>3, Zenon DEF Begin, Lock, Fine
  <1>4. ASSUME getFilesPendingWriteToCloud \/ Tick \/ Crash \/ \E f \in Files : cleanIdleFiles(f)
        PROVE  unhandled \subseteq unhandled'
    BY <1>4, Zenon DEF getFilesPendingWriteToCloud, Tick, Crash, cleanIdleFiles, Fine
  <1>5. UNCHANGED vars => unhandled \subseteq unhandled'
    BY Zenon DEF vars
  <1> QED BY <1>1, <1>2, <1>3, <1>4, <1>5, Zenon DEF Next

\* So SInv holds as long as no failure has been left unhandled.
LEMMA SInvAlways ==
  ASSUME Orderly
  PROVE  Spec => [](unhandled = {} => SInv)
  <1> DEFINE I == unhandled = {} => SInv
  <1>1. Init => I
    BY SInvInit, Zenon
  <1>2. I /\ [Next]_vars => I'
    <2> SUFFICES ASSUME I, [Next]_vars, unhandled' = {} PROVE SInv'
      BY Zenon
    <2>1. unhandled = {}
      BY UnhandledGrows, Zenon
    <2> QED BY <2>1, SInvNext, Zenon
  <1> HIDE DEF I
  <1>3. Spec => []I
    BY <1>1, <1>2, PTL DEF Spec
  <1> QED BY <1>3 DEF I

\* A read that no request overlaps gets what the last acknowledged request left, or
\* what one that failed or was cut off since may have left: for any number of files,
\* requests, faults and restarts, and however the write-back thread and the cleaner
\* interleave with them: ReadsCurrent, as long as every failure was handled.
THEOREM ReadsStayCurrent ==
  ASSUME Orderly
  PROVE  Spec => [](unhandled = {} => ReadsCurrent)
  <1>1. SInv => ReadsCurrent
    <2> SUFFICES ASSUME SInv, NEW f \in Files, NEW whole \in BOOLEAN, ~Busy(f), ~(whole /\ ReadsNothing(f))
                 PROVE  ReadResult(f, whole) \in allowed[f]
      BY Zenon DEF ReadsCurrent
    <2>1. /\ Safe(f, meta[f], staged[f], pinned, Listed, mode, allowed[f])
          /\ Timely(meta[f], staged[f], now, mode)
      BY AtRest, Zenon
    <2>2. CASE PicksStaged(f)
      <3>1. /\ meta[f] # Nil /\ Recent(meta[f]) /\ staged[f] # Nil
            /\ staged[f].data \in allowed[f]
            /\ Sized(meta[f], staged[f]) \/ Torn \in allowed[f]
        BY <2>1, <2>2, Zenon DEF PicksStaged, Safe
      <3>2. whole => UpTo(meta[f].ssize, staged[f]) \in allowed[f]
        BY <2>2, <3>1, Zenon DEF UpTo, Sized, ReadsNothing
      <3> QED BY <2>2, <3>1, <3>2, Zenon DEF ReadResult
    <2>3. CASE ~PicksStaged(f)
      BY <2>1, <2>3, Zenon DEF ReadResult, PicksStaged, Safe, Timely
    <2> QED BY <2>2, <2>3, Zenon
  <1> QED BY <1>1, SInvAlways, PTL

\* The only copy of what a client wrote is not lost: as long as it is the staged one
\* it is there, pinned against the cleaner, and listed to be written back: StagedKept,
\* as long as every failure was handled.
THEOREM StagedStayKept ==
  ASSUME Orderly
  PROVE  Spec => [](unhandled = {} => StagedKept)
  <1>1. SInv => StagedKept
    <2> SUFFICES ASSUME SInv, NEW f \in Files, ~Busy(f), OnlyStaged(f)
                 PROVE  staged[f] # Nil /\ f \in pinned /\ \E k \in pending \cup comp : k[1] = f
      BY Zenon DEF StagedKept
    <2>1. Safe(f, meta[f], staged[f], pinned, Listed, mode, allowed[f])
      BY AtRest, Zenon
    <2> QED BY <2>1, Zenon DEF OnlyStaged, Safe, HasKey, Listed
  <1> QED BY <1>1, SInvAlways, PTL

=============================================================================
