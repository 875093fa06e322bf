------------------------------ MODULE ChunkCache ------------------------------
(***************************************************************************)
(* The persistent chunk cache (ps2smb/cache.py).  Threads call             *)
(* get_or_download for a chunk; a hit is read from disk without a lock, a   *)
(* miss is downloaded under the lock of that chunk, written to a temporary  *)
(* file, synced, renamed into place and marked present.  The process may    *)
(* be killed or lose power between any two steps; the next process scans    *)
(* the directory.  The bytes of a file are modelled by their own positions, *)
(* so that serving the wrong bytes can be told from serving the right ones. *)
(***************************************************************************)
EXTENDS Integers, Sequences, FiniteSets

CONSTANTS
    Threads,      \* SMB connection threads and prefetch workers
    Files,        \* file keys, one per URL (key_for)
    FileSize,     \* bytes of each remote file
    ChunkSizes,   \* chunk sizes a process may be started with (--chunk-mib)
    SlowKeys,     \* chunks whose HTTP transfer may hang for ever
    FaultBound    \* how often each kind of fault may occur in a behaviour

FaultKinds == {"fetch", "read", "store", "delete", "crash"}
Errors == {"RemoteFileError", "RequestException", "OSError"}

ASSUME FileSizeAssumption == FileSize \in [Files -> Nat \ {0}]
ASSUME ChunkSizesAssumption == ChunkSizes \subseteq Nat \ {0} /\ ChunkSizes # {}
ASSUME FaultBoundAssumption == FaultBound \in [FaultKinds -> Nat]
ASSUME FilesAssumption == Files # {}

\* A chunk is named by its file and its index; no chunk size gives a file
\* more chunks than it has bytes.
Keys == UNION {{f} \X (0 .. FileSize[f] - 1) : f \in Files}

VARIABLES
    up,          \* the server process is running
    chunkSize,   \* ChunkCache.chunk_size of the running process
    present,     \* ChunkCache._present: chunks this process knows to be on disk
    lock,        \* ChunkCache._locks: the threads holding each chunk's lock
    disk,        \* <chunk>.chunk files
    tmp,         \* <chunk>.chunk.tmp files
    pc,          \* where each thread is inside get_or_download
    key,         \* the chunk it was called for
    body,        \* the bytes fetch_range gave it
    outcome,     \* what its last call returned or raised
    faults       \* faults so far, by kind

vars == <<up, chunkSize, present, lock, disk, tmp, pc, key, body, outcome, faults>>

-----------------------------------------------------------------------------
\* Bytes, files and outcomes.

Min2(a, b) == IF a < b THEN a ELSE b

\* Bytes lo .. hi-1 of file f; byte i of f is <<f, i>>.
Bytes(f, lo, hi) == [j \in 1 .. (hi - lo) |-> <<f, lo + j - 1>>]

\* What the running process means by chunk k: _chunk_len bytes from k * chunk_size.
ChunkStart(k) == k[2] * chunkSize
InFile(k) == ChunkStart(k) < FileSize[k[1]]
ChunkLen(k) == IF InFile(k) THEN Min2(chunkSize, FileSize[k[1]] - ChunkStart(k)) ELSE 0
ChunkEnd(k) == ChunkStart(k) + ChunkLen(k)
ChunkOfSize(k, size) == Bytes(k[1], k[2] * size, Min2(k[2] * size + size, FileSize[k[1]]))
Chunk(k) == ChunkOfSize(k, chunkSize)

\* A file on disk: absent, torn (not all bytes written), cached (written but
\* still in the page cache) or synced.
NoFile == [state |-> "absent", data |-> <<>>]
Torn == [state |-> "torn", data |-> <<>>]
Exists(file) == file.state # "absent"
AfterPowerLoss(file) == IF file.state = "cached" THEN Torn ELSE file

NoOutcome == [kind |-> "none", data |-> <<>>]
Returned(data) == [kind |-> "data", data |-> data]
Raised(e) == [kind |-> e, data |-> <<>>]

Fault(kind) ==
    /\ faults[kind] < FaultBound[kind]
    /\ faults' = [faults EXCEPT ![kind] = @ + 1]

Goto(t, label) == pc' = [pc EXCEPT ![t] = label]
Return(t, value) == outcome' = [outcome EXCEPT ![t] = value]
Holds(t) == t \in lock[key[t]]

-----------------------------------------------------------------------------
(* get_or_download, step by step.  A thread reads the cache twice: before   *)
(* it holds the chunk's lock and after; ReadMissed tells the two apart.     *)

Call(t, k) ==
    /\ up
    /\ pc[t] = "idle"
    /\ Goto(t, "check")
    /\ key' = [key EXCEPT ![t] = k]
    /\ Return(t, NoOutcome)
    /\ UNCHANGED <<up, chunkSize, present, lock, disk, tmp, body, faults>>

ReadMissed(t) == Goto(t, IF Holds(t) THEN "fetch" ELSE "acquire")

\* read_chunk: has_chunk under the guard, then the file, then the answer.
HasChunk(t) ==
    /\ pc[t] = "check"
    /\ IF key[t] \in present THEN Goto(t, "read") ELSE ReadMissed(t)
    /\ UNCHANGED <<up, chunkSize, present, lock, disk, tmp, key, body, outcome, faults>>

ReadFile(t) ==
    /\ pc[t] = "read"
    /\ Exists(disk[key[t]])
    /\ Return(t, Returned(disk[key[t]].data))
    /\ Goto(t, IF Holds(t) THEN "release" ELSE "idle")
    /\ UNCHANGED <<up, chunkSize, present, lock, disk, tmp, key, body, faults>>

\* open() or read() raised OSError: the file is gone, or the system refused.
ReadFails(t) ==
    /\ pc[t] = "read"
    /\ IF Exists(disk[key[t]]) THEN Fault("read") ELSE UNCHANGED faults
    /\ Goto(t, "discard")
    /\ UNCHANGED <<up, chunkSize, present, lock, disk, tmp, key, body, outcome>>

\* Faulty variant: the call fails with the read.
DiscardRaises(t) ==
    /\ pc[t] = "discard"
    /\ present' = present \ {key[t]}
    /\ Return(t, Raised("OSError"))
    /\ Goto(t, IF Holds(t) THEN "release" ELSE "idle")
    /\ UNCHANGED <<up, chunkSize, lock, disk, tmp, key, body, faults>>

Discard(t) ==
    /\ pc[t] = "discard"
    /\ present' = present \ {key[t]}
    /\ ReadMissed(t)
    /\ UNCHANGED <<up, chunkSize, lock, disk, tmp, key, body, outcome, faults>>

\* Faulty variants: no lock at all, and one lock for a whole file.
NeverBlocked(k) == FALSE
FileBlocked(k) == \E j \in Keys : j[1] = k[1] /\ lock[j] # {}

\* One lock per chunk: what blocks chunk k is a holder of k's own lock.
Blocked(k) == lock[k] # {}

\* Faulty variant: the cache is not checked again under the lock.
AcquireNoRecheck(t) ==
    /\ pc[t] = "acquire"
    /\ lock[key[t]] = {}
    /\ lock' = [lock EXCEPT ![key[t]] = @ \cup {t}]
    /\ Goto(t, "fetch")
    /\ UNCHANGED <<up, chunkSize, present, disk, tmp, key, body, outcome, faults>>

Acquire(t) ==
    /\ pc[t] = "acquire"
    /\ ~Blocked(key[t])
    /\ lock' = [lock EXCEPT ![key[t]] = @ \cup {t}]
    /\ Goto(t, "check")
    /\ UNCHANGED <<up, chunkSize, present, disk, tmp, key, body, outcome, faults>>

\* fetch_range returned data; get_or_download accepts only the exact length.
AcceptsAny(t, data) == TRUE    \* faulty variant
Accepts(t, data) == Len(data) = ChunkLen(key[t])

FetchReturns(t, data) ==
    /\ pc[t] = "fetch"
    /\ IF Accepts(t, data)
         THEN /\ body' = [body EXCEPT ![t] = data]
              /\ Goto(t, "open")
              /\ UNCHANGED outcome
         ELSE /\ Return(t, Raised("OSError"))
              /\ Goto(t, "release")
              /\ UNCHANGED body
    /\ UNCHANGED <<up, chunkSize, present, lock, disk, tmp, key>>

\* fetch_range raised; the exception leaves the with block and frees the lock.
FetchRaises(t, e) ==
    /\ pc[t] = "fetch"
    /\ Return(t, Raised(e))
    /\ Goto(t, "release")
    /\ UNCHANGED <<up, chunkSize, present, lock, disk, tmp, key, body>>

\* store_chunk: truncate the temporary file, write and sync it, rename it.
OpenTmp(t) ==
    /\ pc[t] = "open"
    /\ tmp' = [tmp EXCEPT ![key[t]] = Torn]
    /\ Goto(t, "write")
    /\ UNCHANGED <<up, chunkSize, present, lock, disk, key, body, outcome, faults>>

\* flush and fsync: the bytes survive a power loss.
Unsynced(data) == [state |-> "cached", data |-> data]    \* faulty variant
Synced(data) == [state |-> "synced", data |-> data]

WriteAndSync(t) ==
    /\ pc[t] = "write"
    /\ tmp' = [tmp EXCEPT ![key[t]] = Synced(body[t])]
    /\ Goto(t, "replace")
    /\ UNCHANGED <<up, chunkSize, present, lock, disk, key, body, outcome, faults>>

Replace(t) ==
    /\ pc[t] = "replace"
    /\ disk' = [disk EXCEPT ![key[t]] = tmp[key[t]]]
    /\ tmp' = [tmp EXCEPT ![key[t]] = NoFile]
    /\ Goto(t, "mark")
    /\ UNCHANGED <<up, chunkSize, present, lock, key, body, outcome, faults>>

\* A full or failing disk raises OSError out of store_chunk; the temporary
\* file stays as it is.
StoreFails(t) ==
    /\ pc[t] \in {"open", "write", "replace"}
    /\ Fault("store")
    /\ Return(t, Raised("OSError"))
    /\ Goto(t, "release")
    /\ UNCHANGED <<up, chunkSize, present, lock, disk, tmp, key, body>>

Mark(t) ==
    /\ pc[t] = "mark"
    /\ present' = present \cup {key[t]}
    /\ Return(t, Returned(body[t]))
    /\ Goto(t, "release")
    /\ UNCHANGED <<up, chunkSize, lock, disk, tmp, key, body, faults>>

\* Leaving the with block, by return or by exception.
UnlockNothing(t) == lock' = lock    \* faulty variant
Unlock(t) == lock' = [lock EXCEPT ![key[t]] = @ \ {t}]

Release(t) ==
    /\ pc[t] = "release"
    /\ Unlock(t)
    /\ body' = [body EXCEPT ![t] = <<>>]
    /\ Goto(t, "idle")
    /\ UNCHANGED <<up, chunkSize, present, disk, tmp, key, outcome, faults>>

-----------------------------------------------------------------------------
(* The world around the cache.                                              *)

\* The callback: the whole chunk, a body cut short, or an exception.
Download(t) ==
    \/ FetchReturns(t, Chunk(key[t])) /\ UNCHANGED faults
    \/ /\ Fault("fetch")
       /\ \/ FetchReturns(t, Tail(Chunk(key[t])))
          \/ \E e \in {"RemoteFileError", "RequestException"} : FetchRaises(t, e)

\* The user removes a chunk file to free space while the server runs.
DeleteFile(k) ==
    /\ Exists(disk[k])
    /\ Fault("delete")
    /\ disk' = [disk EXCEPT ![k] = NoFile]
    /\ UNCHANGED <<up, chunkSize, present, lock, tmp, pc, key, body, outcome>>

\* Memory is lost: every thread, lock and the present set.
ForgetProcess ==
    /\ up' = FALSE
    /\ present' = {}
    /\ lock' = [k \in Keys |-> {}]
    /\ pc' = [t \in Threads |-> "idle"]
    /\ body' = [t \in Threads |-> <<>>]
    /\ outcome' = [t \in Threads |-> NoOutcome]
    /\ UNCHANGED <<chunkSize, key>>

\* The process is killed: what it wrote is still in the page cache.
Kill ==
    /\ up
    /\ Fault("crash")
    /\ ForgetProcess
    /\ UNCHANGED <<disk, tmp>>

\* Power is lost: unsynced bytes are torn, and as no one syncs the directory
\* any of its entries may be missing afterwards.
PowerLoss ==
    /\ up
    /\ Fault("crash")
    /\ ForgetProcess
    /\ \E gone \in SUBSET {k \in Keys : Exists(disk[k])} :
          disk' = [k \in Keys |-> IF k \in gone THEN NoFile ELSE AfterPowerLoss(disk[k])]
    /\ tmp' = [k \in Keys |-> AfterPowerLoss(tmp[k])]

\* Faulty variant: a new process does not look at the directory.
ScanNothing == {}

\* main(): a process starts with some --chunk-mib and scans every file's
\* directory; names not ending in ".chunk", so the leftover .tmp, are ignored.
Scan == {k \in Keys : Exists(disk[k])}

Start(size) ==
    /\ ~up
    /\ up' = TRUE
    /\ chunkSize' = size
    /\ present' = Scan
    /\ UNCHANGED <<lock, disk, tmp, pc, key, body, outcome, faults>>

-----------------------------------------------------------------------------

Init ==
    /\ up = FALSE
    /\ chunkSize \in ChunkSizes
    /\ present = {}
    /\ lock = [k \in Keys |-> {}]
    /\ disk = [k \in Keys |-> NoFile]
    /\ tmp = [k \in Keys |-> NoFile]
    /\ pc = [t \in Threads |-> "idle"]
    /\ key = [t \in Threads |-> CHOOSE k \in Keys : TRUE]
    /\ body = [t \in Threads |-> <<>>]
    /\ outcome = [t \in Threads |-> NoOutcome]
    /\ faults = [kind \in FaultKinds |-> 0]

\* A step of get_or_download other than the HTTP transfer.
LocalStep(t) ==
    \/ HasChunk(t) \/ ReadFile(t) \/ ReadFails(t) \/ Discard(t) \/ Acquire(t)
    \/ OpenTmp(t) \/ WriteAndSync(t) \/ Replace(t) \/ StoreFails(t)
    \/ Mark(t) \/ Release(t)

Environment ==
    \/ \E k \in Keys : DeleteFile(k)
    \/ Kill
    \/ PowerLoss
    \/ \E size \in ChunkSizes : Start(size)

Next ==
    \/ \E t \in Threads :
         \/ \E k \in Keys : InFile(k) /\ Call(t, k)
         \/ LocalStep(t)
         \/ Download(t)
    \/ Environment

Spec == Init /\ [][Next]_vars

\* Every thread keeps running and a transfer ends (requests' timeout), except
\* for the slow chunks, whose host may keep sending a byte now and then.
Fairness ==
    \A t \in Threads :
        /\ WF_vars(LocalStep(t))
        /\ WF_vars(key[t] \notin SlowKeys /\ Download(t))

FairSpec == Spec /\ Fairness

-----------------------------------------------------------------------------
(* Properties.                                                              *)

Labels == {"idle", "check", "read", "discard", "acquire", "fetch", "open",
           "write", "replace", "mark", "release"}
FileStates == [state : {"absent", "torn", "cached", "synced"}, data : Seq(Files \X Nat)]
Outcomes == [kind : {"none", "data"} \cup Errors, data : Seq(Files \X Nat)]

TypeOK ==
    /\ up \in BOOLEAN
    /\ chunkSize \in ChunkSizes
    /\ present \subseteq Keys
    /\ lock \in [Keys -> SUBSET Threads]
    /\ disk \in [Keys -> FileStates]
    /\ tmp \in [Keys -> FileStates]
    /\ pc \in [Threads -> Labels]
    /\ key \in [Threads -> Keys]
    /\ body \in [Threads -> Seq(Files \X Nat)]
    /\ outcome \in [Threads -> Outcomes]
    /\ faults \in [FaultKinds -> Nat]

\* A chunk file holds exactly its chunk, whatever crashed or failed while it
\* was written: "a chunk file is only created once fully downloaded".
ChunkFilesComplete ==
    \A k \in Keys : Exists(disk[k]) => disk[k].data = Chunk(k)

\* get_or_download never returns anything but the bytes of the chunk asked for.
ReturnsOwnBytes ==
    \A t \in Threads : outcome[t].kind = "data" => outcome[t].data = Chunk(key[t])

\* A call fails only by a transfer or a store of its own that failed, and one
\* such failure fails one call: a chunk file that is gone or cannot be read is
\* downloaded again ("will re-download"), and a thread that waited for another's
\* download tries for itself.
Failed == {t \in Threads : outcome[t].kind \in Errors}

FailuresCaused == Cardinality(Failed) <= faults["fetch"] + faults["store"]

\* Two threads never download or store the same chunk at the same time, so a
\* temporary file has one writer.
Storing(t) == pc[t] \in {"fetch", "open", "write", "replace", "mark"}

OneStorer ==
    \A s, t \in Threads : Storing(s) /\ Storing(t) /\ key[s] = key[t] => s = t

\* A chunk whose file is on disk is not downloaded again (README: the lock
\* "prevents duplicate downloads of the same chunk").
NoDuplicateDownload ==
    \A t \in Threads : pc[t] = "fetch" => ~Exists(disk[key[t]])

\* While the server runs, the present set and the directory agree, but for
\* the chunk a thread has just renamed into place.
IndexMatchesDisk ==
    up => \A k \in Keys :
        Exists(disk[k]) <=>
            \/ k \in present
            \/ \E t \in Threads : key[t] = k /\ pc[t] = "mark"

\* Every call for a chunk that can be downloaded returns or raises, although
\* the downloads of other chunks may hang for ever.
CallsReturn ==
    \A t \in Threads :
        (pc[t] # "idle" /\ key[t] \notin SlowKeys) ~> (pc[t] = "idle")

-----------------------------------------------------------------------------
(* The invariant the proofs of module ChunkCacheProofs rest on.             *)

\* A thread inside a call runs in a live process and asked for a chunk of the file.
CallsInFile == \A t \in Threads : pc[t] # "idle" => up /\ InFile(key[t])

\* A lock has one holder at most; a thread holds no lock but that of its chunk,
\* not before it has acquired it or after its call, and always while it stores.
LocksHeld ==
    /\ \A k \in Keys : \A s, t \in lock[k] : s = t
    /\ \A k \in Keys : \A t \in lock[k] : key[t] = k /\ pc[t] \notin {"idle", "acquire"}
    /\ \A t \in Threads : Storing(t) \/ pc[t] = "release" => Holds(t)

\* A call has its outcome exactly from when it is about to leave the lock.
AnsweredOnce ==
    \A t \in Threads :
        /\ pc[t] = "release" => outcome[t].kind # "none"
        /\ pc[t] \notin {"idle", "release"} => outcome[t].kind = "none"

ControlInv == TypeOK /\ CallsInFile /\ LocksHeld /\ AnsweredOnce

\* What a thread is about to store, has written to its temporary file, has on
\* disk or has returned is the chunk, whole.
StoresOwnChunk ==
    \A t \in Threads :
        /\ pc[t] \in {"open", "write", "replace", "mark"} => body[t] = Chunk(key[t])
        /\ pc[t] = "replace" => tmp[key[t]] = [state |-> "synced", data |-> Chunk(key[t])]

DiskSynced ==
    \A k \in Keys : Exists(disk[k]) => disk[k] = [state |-> "synced", data |-> Chunk(k)]

\* Holds when all processes are started with the same chunk size.
DataInv == StoresOwnChunk /\ DiskSynced /\ ReturnsOwnBytes

FixedChunkSize == \A c, d \in ChunkSizes : c = d

\* A thread found the file it is about to read, and has made the one it renames.
FilesKnown ==
    \A t \in Threads :
        /\ pc[t] # "discard"
        /\ pc[t] = "read" => Exists(disk[key[t]])
        /\ pc[t] \in {"write", "replace"} => Exists(tmp[key[t]])

\* Holds as long as no chunk file is deleted or found unreadable.
IndexInv == IndexMatchesDisk /\ NoDuplicateDownload /\ FilesKnown

ReliableFiles == FaultBound["delete"] = 0 /\ FaultBound["read"] = 0

CacheInv == ControlInv /\ (FixedChunkSize => DataInv) /\ (ReliableFiles => IndexInv)

-----------------------------------------------------------------------------
(* The cache implements the abstract chunk store, as long as every process  *)
(* is started with the same chunk size.                                     *)

Store == INSTANCE ChunkStore WITH
    Callers <- Threads,
    Keys <- Keys,
    Contents <- [k \in Keys |-> ChunkOfSize(k, CHOOSE size \in ChunkSizes : TRUE)],
    files <- {<<k, disk[k].data>> : k \in {j \in Keys : Exists(disk[j])}},
    asked <- [t \in Threads |->
                 IF pc[t] = "idle" \/ outcome[t].kind # "none" THEN {} ELSE {key[t]}],
    answer <- [t \in Threads |->
                 IF outcome[t].kind \in Errors THEN Raised("error") ELSE outcome[t]]

\* Every behaviour of the cache is one of the store: a call gets its chunk or
\* an error, once, and the directory holds only whole chunks someone asked for.
ImplementsStore == Store!Spec
=============================================================================
