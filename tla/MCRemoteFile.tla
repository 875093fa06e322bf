----------------------------- MODULE MCRemoteFile -----------------------------
(* Constants for checking RemoteFile on small instances.                    *)
EXTENDS RemoteFile, TLC

CONSTANTS c1, c2, w1, w2, f

OneFile == {f}
\* Five bytes: chunks of two bytes leave a last chunk of one.
FiveBytes == f :> 5

NoFaults == [kind \in FaultKinds |-> 0]
OneCrash == [NoFaults EXCEPT !["crash"] = 1]
FetchAndCrash == [OneCrash EXCEPT !["fetch"] = 1]
\* A bad answer, an unreadable chunk file, a deleted one and a crash; failing
\* writes are in the runs of the cache.
MixedFaults == [kind \in FaultKinds |-> IF kind = "store" THEN 0 ELSE 1]

AndX(offset, length) ==
    [file |-> f, offset |-> offset, length |-> length, readAhead |-> TRUE]
Legacy(offset, length) == [AndX(offset, length) EXCEPT !.readAhead = FALSE]

\* Reads of no byte inside a chunk, across chunks up to the end of one, at the
\* end of file; they prefetch the middle and the last chunk, and none.
ReadMix == {AndX(1, 0), AndX(1, 3), AndX(5, 1)}
SecondPart == {AndX(3, 2)}
\* A read that makes the middle chunk be prefetched, one from there to beyond
\* the end, and one at the end.
Spread == {AndX(1, 0), AndX(3, 9), Legacy(5, 1)}

NoKeys == {}
MiddleChunk == {<<f, 1>>}

Symmetry == Permutations(Clients) \cup Permutations(Workers)
===============================================================================
