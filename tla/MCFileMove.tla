------------------------------ MODULE MCFileMove ------------------------------
(* Small instances of FileMove for TLC.                                    *)
EXTENDS FileMove, TLC

MSymmetry ==
    Permutations(Flaky) \cup Permutations(Containers \ Flaky) \cup
    Permutations(Workers) \cup Permutations(Data) \cup Permutations(Names)

\* Bound on the chunks that failed operations left behind.
CONSTANT MaxLeft
MFewLeft ==
    \A f \in Names \ fileLock :
        Cardinality({x \in Keys : x[2] = f /\ store[x] # Nil} \ KeysOf(f, meta[f], Stored(meta[f]))) <= MaxLeft

=============================================================================
