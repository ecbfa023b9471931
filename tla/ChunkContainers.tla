--------------------------- MODULE ChunkContainers ---------------------------
(***************************************************************************)
(* The containers of an agent: directories and the buckets of three object *)
(* stores, which keep earlier versions of a chunk in ways of their own.    *)
(*                                                                         *)
(* A chunk s in a container is its current payload s.cur and older ones by *)
(* version, s.old.  A call has outcomes: the chunk, or pair of chunks, it  *)
(* leaves behind, whether it returned true or false or threw, and the      *)
(* version it reports.  "okay" are those of a container that works, "fail" *)
(* the others that are possible if the disk or the object store fails,     *)
(* those that the code does not notice among them.                         *)
(***************************************************************************)
EXTENDS Integers

CONSTANTS
    Payloads,
    Partial,                \* a chunk that is cut short or damaged
    Garbage,                \* what chunks of different payloads decode to
    Nil                     \* no chunk, no checksum

VARIABLE verifyChunkChecksum    \* configured; it does not change

NoVersion == 0

Out(s, res, v) == [s |-> s, res |-> res, v |-> v]
Pair(s, t, res) == Out(<<s, t>>, res, NoVersion)
Got(p, res) == [p |-> p, res |-> res]

Latest(old) == IF old = {} THEN Nil ELSE (CHOOSE o \in old : \A p \in old : p[1] <= o[1])[2]

\* A blob that the service has not finished copying: it has no content so far.
Copying(p) == <<"copying", p>>
Copies == {Copying(p) : p \in Payloads \cup {Partial, Garbage}}
Content(s) == IF s.cur \in Copies THEN Partial ELSE s.cur

\* The checksum of the request stands for d; it is looked at only if configured.
Verified(p, d) == verifyChunkChecksum => p = d

Fetched(s, d, skip, none) ==
    IF s.cur = Nil THEN none
    ELSE IF skip \/ Verified(Content(s), d) THEN Got(Content(s), "ok") ELSE Got(Nil, "fail")

\* A copy followed by the deletion of the source, which leaves src.
ThenDelete(copies, src, res) ==
    {IF o.res = "ok" THEN Pair(src, o.s[2], res) ELSE o : o \in copies}

-----------------------------------------------------------------------------
(* FsContainer: an existing chunk file is renamed to one with the time now *)
(* before the new one is written and read back.  Writes are buffered, and  *)
(* nobody looks at the results of fflush, fsync and fclose: only with      *)
(* verification is a file noticed that was cut short by them.              *)

Unnoticed(outs) == IF verifyChunkChecksum THEN {} ELSE outs

FsPut(s, d, now) ==
    LET v == IF s.cur = Nil THEN NoVersion ELSE now
        moved == IF s.cur = Nil THEN s
                 ELSE [cur |-> Nil, old |-> {o \in s.old : o[1] # now} \cup {<<now, s.cur>>}]
    IN [okay |-> {Out([moved EXCEPT !.cur = d], "ok", v)},
        fail |-> {Out(x, "fail", v) : x \in {s, moved, [moved EXCEPT !.cur = Partial]}}
                    \cup Unnoticed({Out([moved EXCEPT !.cur = Partial], "ok", v)})]

FsGet(s, d, skip) ==
    [okay |-> {Fetched(s, d, skip, Got(Nil, "fail"))}, fail |-> {Got(Nil, "fail")}]

FsDelete(s) == [okay |-> {Out([s EXCEPT !.cur = Nil], "ok", NoVersion)}, fail |-> {Out(s, "ok", NoVersion)}]

\* The new file is opened also if there is nothing to copy.  One that is too
\* short, or cannot be verified, is deleted; e is the checksum that the request
\* has for the new chunk.
FsCopy(s, t, e) ==
    LET to(p) == [t EXCEPT !.cur = p]
        short == {Pair(s, to(Nil), "fail")}
    IN [okay |-> IF s.cur = Nil THEN {Pair(s, to(Partial), "fail")}
                 ELSE IF ~Verified(s.cur, e) THEN short
                 ELSE {Pair(s, to(s.cur), "ok")} \cup IF s.cur = Partial THEN short ELSE {},
        fail |-> {Pair(s, x, "fail") : x \in {t, to(Partial), to(Nil)}}
                    \cup Unnoticed({Pair(s, to(Partial), "ok")})]

\* A rename, undone if the chunk cannot be verified.  It is undone also if it
\* failed: a file that had the new name then takes the place of the source.
FsMove(s, t, e) ==
    LET gone == [s EXCEPT !.cur = Nil]
        moved == [t EXCEPT !.cur = s.cur]
        back == Pair(s, [t EXCEPT !.cur = Nil], "fail")
        swept == IF t.cur = Nil THEN {}
                 ELSE {Pair([s EXCEPT !.cur = t.cur], [t EXCEPT !.cur = Nil], "fail")}
    IN [okay |-> {IF s.cur = Nil THEN Pair(s, t, "fail")
                  ELSE IF Verified(s.cur, e) THEN Pair(gone, moved, "ok") ELSE back},
        fail |-> {Pair(s, t, "fail")} \cup IF s.cur = Nil THEN {} ELSE swept \cup {back, Pair(gone, moved, "fail")}]

\* Mutant: the result of the rename is not looked at.
FsRevertUnchecked(s, v) ==
    LET old == {o \in s.old : o[1] = v}
    IN [okay |-> {Out([cur |-> Latest(old), old |-> s.old \ old], "ok", v)}, fail |-> {Out(s, "fail", v)}]

\* The renamed file of version v takes its place again.
FsRevert(s, v) ==
    LET old == {o \in s.old : o[1] = v}
    IN [okay |-> {IF old = {} THEN Out(s, "fail", v)
                  ELSE Out([cur |-> Latest(old), old |-> s.old \ old], "ok", v)},
        fail |-> {Out(x, "fail", v) : x \in {s, [s EXCEPT !.cur = Nil]}}]

-----------------------------------------------------------------------------
(* AwsContainer: the bucket keeps all versions; v is one not used so far.  *)

AwsObject(s, p, v) == [cur |-> p, old |-> s.old \cup {<<v, p>>}]

AwsPut(s, d, v) ==
    [okay |-> {Out(AwsObject(s, d, v), "ok", v)},
     fail |-> {Out(x, "fail", NoVersion) : x \in {s, AwsObject(s, d, v), AwsObject(s, Partial, v)}}]

AwsGet(s, d, skip) ==
    [okay |-> {Fetched(s, d, skip, Got(Nil, "fail"))}, fail |-> {Got(Nil, "fail")}]

\* The response is not looked at.
AwsDelete(s, v) ==
    [okay |-> {Out(IF s.cur = Nil THEN s ELSE AwsObject(s, Nil, v), "ok", NoVersion)},
     fail |-> {Out(s, "ok", NoVersion)}]

\* A copy that cannot be verified is deleted.
AwsCopy(s, t, d, v) ==
    LET got == AwsObject(t, s.cur, v)
        gone == AwsObject(got, Nil, v + 1)
    IN [okay |-> {IF s.cur = Nil THEN Pair(s, t, "fail")
                  ELSE IF Verified(s.cur, d) THEN Pair(s, got, "ok") ELSE Pair(s, gone, "fail")},
        fail |-> {Pair(s, x, "fail") : x \in {t} \cup IF s.cur = Nil THEN {} ELSE {got, gone}}]

AwsMove(s, t, d, v) ==
    LET copies == AwsCopy(s, t, d, v)
    IN [okay |-> ThenDelete(copies.okay, AwsObject(s, Nil, v + 1), "ok"),
        fail |-> copies.fail \cup ThenDelete(copies.okay, s, "ok")]

\* The version that was put is removed.
AwsRevert(s, v) ==
    LET rest == {o \in s.old : o[1] # v}
    IN [okay |-> {Out([cur |-> Latest(rest), old |-> rest], "ok", v)}, fail |-> {Out(s, "fail", v)}]

-----------------------------------------------------------------------------
(* AzureContainer: a snapshot v of the existing blob is taken, which may   *)
(* fail, before the upload.  Calls that the service refuses throw.  A copy *)
(* is only started: the service may take its time to finish it.            *)

AzurePut(s, d, v) ==
    LET at == IF s.cur = Nil THEN NoVersion ELSE v
        snap == IF s.cur = Nil THEN s ELSE [s EXCEPT !.old = @ \cup {<<v, Content(s)>>}]
    IN [okay |-> {Out([snap EXCEPT !.cur = d], "ok", at)},
        fail |-> {Out([s EXCEPT !.cur = d], "ok", NoVersion), Out(s, "throw", NoVersion),
                  Out(snap, "throw", NoVersion), Out([snap EXCEPT !.cur = Partial], "fail", at)}]

AzureGet(s, d, skip) ==
    [okay |-> {Fetched(s, d, skip, Got(Nil, "throw"))}, fail |-> {Got(Nil, "throw")}]

\* The snapshots are deleted too.
AzureDelete(s) ==
    LET failed == Out(s, "throw", NoVersion)
    IN [okay |-> {IF s.cur = Nil THEN failed ELSE Out([cur |-> Nil, old |-> {}], "ok", NoVersion)},
        fail |-> {failed}]

\* What the new blob has when it is looked at: with verification one that is
\* not finished does not match, and is deleted.
AzureCopy(s, t, d) ==
    LET to(p) == [t EXCEPT !.cur = p]
        started == {to(Content(s)), to(Copying(Content(s)))}
        deleted == Pair(s, [cur |-> Nil, old |-> {}], "fail")
    IN [okay |-> IF s.cur = Nil THEN {Pair(s, t, "throw")}
                 ELSE {IF Verified(Content(x), d) THEN Pair(s, x, "ok") ELSE deleted : x \in started},
        fail |-> {Pair(s, x, "throw") : x \in {t} \cup IF s.cur = Nil THEN {} ELSE started}]

\* The source is deleted, whether or not the copy is finished.
AzureMove(s, t, d) ==
    LET copies == AzureCopy(s, t, d)
    IN [okay |-> ThenDelete(copies.okay, [cur |-> Nil, old |-> {}], "ok"),
        fail |-> copies.fail \cup ThenDelete(copies.okay, s, "throw")]

\* The snapshot is copied over the blob; without a version the blob over itself.
AzureRevert(s, v) ==
    LET old == {o \in s.old : o[1] = v}
        failed == Out(s, "fail", v)
    IN [okay |-> IF v = NoVersion THEN {Out(s, IF s.cur = Nil THEN "fail" ELSE "ok", v)}
                 ELSE IF old = {} THEN {failed}
                 ELSE {Out([s EXCEPT !.cur = p], "ok", v) : p \in {Latest(old), Copying(Latest(old))}},
        fail |-> {failed}]

-----------------------------------------------------------------------------
(* AliContainer: no versions.  A get that failed returns true.             *)

AliPut(s, d) ==
    [okay |-> {Out([s EXCEPT !.cur = d], "ok", NoVersion)},
     fail |-> {Out(s, "fail", NoVersion), Out([s EXCEPT !.cur = Partial], "fail", NoVersion)}]

AliGet(s, d, skip) == [okay |-> {Fetched(s, d, skip, Got(Nil, "ok"))}, fail |-> {Got(Nil, "ok")}]

AliDelete(s) == [okay |-> {Out([s EXCEPT !.cur = Nil], "ok", NoVersion)}, fail |-> {Out(s, "ok", NoVersion)}]

AliCopy(s, t, d) ==
    LET to(p) == [t EXCEPT !.cur = p]
    IN [okay |-> {IF s.cur = Nil THEN Pair(s, t, "fail")
                  ELSE IF Verified(s.cur, d) THEN Pair(s, to(s.cur), "ok") ELSE Pair(s, to(Nil), "fail")},
        fail |-> {Pair(s, x, "fail") : x \in {t} \cup IF s.cur = Nil THEN {} ELSE {to(s.cur), to(Nil)}}]

AliMove(s, t, d) ==
    LET copies == AliCopy(s, t, d)
    IN [okay |-> ThenDelete(copies.okay, [s EXCEPT !.cur = Nil], "ok"),
        fail |-> copies.fail \cup ThenDelete(copies.okay, s, "ok")]

AliRevert(s, v) == [okay |-> {Out(s, "fail", v)}, fail |-> {Out(s, "fail", v)}]

-----------------------------------------------------------------------------
(* Checks, the same for all types: of the size, and the checksum only if   *)
(* chunks are verified; and of the checksum in any case.                   *)

Has(s, d) ==
    [okay |-> IF Content(s) = Partial /\ ~verifyChunkChecksum THEN BOOLEAN
              ELSE {s.cur # Nil /\ Verified(Content(s), d)},
     fail |-> {FALSE}]

Verify(s, d) == [okay |-> {Content(s) = d}, fail |-> {FALSE}]

=============================================================================
