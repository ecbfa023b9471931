----------------------------- MODULE MCFileStore -----------------------------
(* Small instances of FileStore for TLC.                                   *)
EXTENDS FileStore, TLC

Symmetry ==
    Permutations(Flaky) \cup Permutations(Containers \ Flaky) \cup
    Permutations(Workers) \cup Permutations(Data)

\* Bound on the chunks that failed operations left behind.
CONSTANT MaxLeft
FewLeft ==
    \A f \in Names \ fileLock :
        Cardinality({x \in Keys : x[2] = f /\ store[x] # Nil} \ KeysOf(f, meta[f], Stored(meta[f]))) <= MaxLeft

=============================================================================
