----------------------------- MODULE MCChunkCache -----------------------------
(* Constants for checking ChunkCache on small instances.                    *)
EXTENDS ChunkCache, TLC

CONSTANTS t1, t2, f

\* One file of three bytes: with chunks of two bytes it has a full and a
\* partial chunk.
OneFile == {f}
OneFileSize == f :> 3

\* Fault budgets.
Faults(fetch, read, store, delete, crash) ==
    [fetch |-> fetch, read |-> read, store |-> store, delete |-> delete, crash |-> crash]
StoreFaults == Faults(1, 0, 1, 1, 1)
OneDeletion == Faults(0, 0, 0, 1, 0)

NoKeys == {}
FirstChunk == {<<f, 0>>}
===============================================================================
