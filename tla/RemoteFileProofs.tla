--------------------------- MODULE RemoteFileProofs ---------------------------
(***************************************************************************)
(* Proofs about reads and prefetch through the cache, for any threads,      *)
(* files, chunk sizes, requests and faults.                                 *)
(***************************************************************************)
EXTENDS RemoteFile, ChunkCacheProofs

-----------------------------------------------------------------------------
(* Arithmetic of chunks and bytes.                                          *)

\* Chunks start in the order of their indexes, at least a chunk apart.
LEMMA StartsInOrder ==
    ASSUME NEW i \in Int, NEW j \in Int, NEW n \in Nat \ {0}
    PROVE  /\ i <= j => i * n <= j * n
           /\ i < j => i * n + n <= j * n
  OBVIOUS

LEMMA StartOf ==
    ASSUME NEW i \in Int, NEW n \in Nat \ {0}
    PROVE  /\ i * n \in Int
           /\ (i + 1) * n = i * n + n
           /\ 0 <= i => i <= i * n
           /\ i < 0 => i * n + n <= 0
  OBVIOUS

\* Adjacent runs of bytes join to one run.
LEMMA BytesJoin ==
    ASSUME NEW f \in Files, NEW a \in Nat, NEW b \in Nat, NEW c \in Nat, a <= b, b <= c
    PROVE  Bytes(f, a, b) \o Bytes(f, b, c) = Bytes(f, a, c)
  BY BytesType DEF Bytes

\* A part of a run of bytes is the run between its ends.
LEMMA BytesPart ==
    ASSUME NEW f \in Files, NEW a \in Nat, NEW b \in Nat, NEW c \in Nat, NEW d \in Nat,
           NEW u \in Int, NEW v \in Int, a <= c, c <= d, d <= b, u = c - a + 1, v = d - a
    PROVE  SubSeq(Bytes(f, a, b), u, v) = Bytes(f, c, d)
  BY BytesType DEF Bytes

-----------------------------------------------------------------------------
(* The chunks a read loops over.                                            *)

LEMMA RequestType ==
    ASSUME NEW r \in Requests
    PROVE  /\ r.file \in Files /\ r.offset \in Nat /\ r.length \in Nat
           /\ r.readAhead \in BOOLEAN /\ FileSize[r.file] \in Nat \ {0}
  BY RequestsAssumption, FileSizeAssumption

\* The end of a clipped read lies between its offset and the end of the file.
LEMMA EndInFile ==
    ASSUME NEW r \in Requests, ~AtEof(r)
    PROVE  /\ EndOf(r) \in Nat /\ Length(r) \in Nat
           /\ EndOf(r) = r.offset + Length(r)
           /\ r.offset < FileSize[r.file] /\ EndOf(r) <= FileSize[r.file]
  BY RequestType DEF AtEof, EndOf, Length, Min2

\* The first chunk holds the offset.
LEMMA FirstChunk ==
    ASSUME NEW r \in Requests, chunkSize \in ChunkSizes
    PROVE  /\ FirstIndex(r) \in Nat
           /\ FirstIndex(r) * chunkSize <= r.offset
           /\ r.offset < FirstIndex(r) * chunkSize + chunkSize
  <1>1. chunkSize \in Nat \ {0} /\ r.offset \in Nat
    BY ChunkSizesAssumption, RequestType
  <1>2. /\ FirstIndex(r) \in Int
        /\ FirstIndex(r) * chunkSize <= r.offset
        /\ r.offset < FirstIndex(r) * chunkSize + chunkSize
    BY <1>1 DEF FirstIndex
  <1>3. QED
    BY <1>1, <1>2, StartOf

\* The last chunk holds the byte before the end.
LEMMA LoopBounds ==
    ASSUME NEW r \in Requests, ~AtEof(r), chunkSize \in ChunkSizes
    PROVE  /\ FirstIndex(r) \in Nat /\ LastIndex(r) \in Int
           /\ FirstIndex(r) * chunkSize <= r.offset
           /\ r.offset < FirstIndex(r) * chunkSize + chunkSize
           /\ LastIndex(r) * chunkSize < EndOf(r)
           /\ EndOf(r) <= LastIndex(r) * chunkSize + chunkSize
  <1>1. chunkSize \in Nat \ {0}
    BY ChunkSizesAssumption
  <1>2. r.offset \in Nat /\ EndOf(r) \in Nat
    BY RequestType, EndInFile
  <1>3. /\ LastIndex(r) \in Int
        /\ LastIndex(r) * chunkSize <= EndOf(r) - 1
        /\ EndOf(r) - 1 < LastIndex(r) * chunkSize + chunkSize
    BY <1>1, <1>2 DEF LastIndex
  <1>4. LastIndex(r) * chunkSize \in Int
    BY <1>1, <1>3, StartOf
  <1>5. QED
    BY <1>1, <1>2, <1>3, <1>4, FirstChunk

\* An index whose chunk starts inside the file names a chunk.
LEMMA InsideIsKey ==
    ASSUME NEW f \in Files, NEW i \in Nat, chunkSize \in ChunkSizes, InFile(<<f, i>>)
    PROVE  <<f, i>> \in Keys
  <1>1. chunkSize \in Nat \ {0} /\ FileSize[f] \in Nat \ {0}
    BY ChunkSizesAssumption, FileSizeAssumption
  <1>2. i * chunkSize < FileSize[f]
    BY DEF InFile, ChunkStart
  <1>3. i <= i * chunkSize /\ i * chunkSize \in Int
    BY <1>1, StartOf
  <1>4. i \in 0 .. FileSize[f] - 1
    BY <1>1, <1>2, <1>3
  <1>5. QED
    BY <1>4 DEF Keys

\* Where a chunk the loop visits lies: inside the file, and at bytes of the read.
LEMMA LoopChunk ==
    ASSUME NEW r \in Requests, ~AtEof(r), chunkSize \in ChunkSizes,
           NEW i \in Nat, FirstIndex(r) <= i, i <= LastIndex(r)
    PROVE  /\ i * chunkSize \in Nat
           /\ i * chunkSize < EndOf(r) /\ r.offset < i * chunkSize + chunkSize
           /\ InFile(<<r.file, i>>) /\ <<r.file, i>> \in Keys
  <1>1. chunkSize \in Nat \ {0}
    BY ChunkSizesAssumption
  <1>2. /\ i * chunkSize \in Nat
        /\ FirstIndex(r) * chunkSize <= i * chunkSize
        /\ i * chunkSize <= LastIndex(r) * chunkSize
        /\ FirstIndex(r) * chunkSize \in Int /\ LastIndex(r) * chunkSize \in Int
    BY <1>1, LoopBounds, StartsInOrder, StartOf
  <1>3. i * chunkSize < EndOf(r) /\ r.offset < i * chunkSize + chunkSize
    BY <1>1, <1>2, LoopBounds, EndInFile, RequestType
  <1>4. InFile(<<r.file, i>>)
    BY <1>2, <1>3, EndInFile, RequestType DEF InFile, ChunkStart
  <1>5. QED
    BY <1>2, <1>3, <1>4, InsideIsKey, RequestType

\* A read of the loop's chunk touches the chunk.
LEMMA LoopTouches ==
    ASSUME NEW r \in Requests, ~AtEof(r), chunkSize \in ChunkSizes,
           NEW i \in Nat, FirstIndex(r) <= i, i <= LastIndex(r)
    PROVE  Touches(r, <<r.file, i>>)
  <1>1. chunkSize \in Nat \ {0}
    BY ChunkSizesAssumption
  <1> DEFINE start == i * chunkSize
  <1>2. /\ start \in Nat /\ start < EndOf(r) /\ r.offset < start + chunkSize
        /\ InFile(<<r.file, i>>)
    BY LoopChunk
  <1>3. ChunkStart(<<r.file, i>>) = start
    BY DEF ChunkStart
  <1>4. ChunkEnd(<<r.file, i>>) = start + Min2(chunkSize, FileSize[r.file] - start)
    BY <1>2, <1>3 DEF ChunkEnd, ChunkLen
  <1>5. QED
    <2> HIDE DEF start
    <2>1. QED
      BY <1>1, <1>2, <1>3, <1>4, EndInFile, RequestType DEF Touches, Min2

-----------------------------------------------------------------------------
(* What the loop joins.                                                     *)

\* Before the first chunk nothing is joined.
LEMMA JoinStarts ==
    ASSUME NEW r \in Requests, ~AtEof(r), chunkSize \in ChunkSizes
    PROVE  Reached(r, FirstIndex(r)) = r.offset /\ Bytes(r.file, r.offset, r.offset) = <<>>
  <1>1. Reached(r, FirstIndex(r)) = r.offset
    BY LoopBounds DEF Reached
  <1>2. Bytes(r.file, r.offset, r.offset) = <<>>
    BY RequestType DEF Bytes
  <1>3. QED
    BY <1>1, <1>2

\* The slice of a chunk continues the bytes joined up to it.
LEMMA JoinContinues ==
    ASSUME NEW r \in Requests, ~AtEof(r), chunkSize \in ChunkSizes,
           NEW i \in Nat, FirstIndex(r) <= i, i <= LastIndex(r)
    PROVE  Join(Bytes(r.file, r.offset, Reached(r, i)), Slice(r, i, Chunk(<<r.file, i>>)))
             = Bytes(r.file, r.offset, Reached(r, i + 1))
  <1> DEFINE k == <<r.file, i>>
             start == i * chunkSize
             end == Min2(start + chunkSize, FileSize[r.file])
             lo == IF r.offset > start THEN r.offset ELSE start
             hi == Min2(EndOf(r), end)
  <1>1. /\ chunkSize \in Nat \ {0} /\ r.file \in Files /\ r.offset \in Nat
        /\ FileSize[r.file] \in Nat
    BY ChunkSizesAssumption, RequestType
  <1>2. /\ start \in Nat /\ start < EndOf(r) /\ r.offset < start + chunkSize
        /\ InFile(k) /\ k \in Keys
    BY LoopChunk
  <1>3. (i + 1) * chunkSize = start + chunkSize
    BY <1>1, StartOf
  <1>4. EndOf(r) \in Nat /\ r.offset <= EndOf(r) /\ EndOf(r) <= FileSize[r.file]
    BY <1>1, EndInFile
  <1>5. Chunk(k) = Bytes(r.file, start, end)
    BY DEF Chunk, ChunkOfSize
  <1>6. start \in Nat /\ end \in Nat /\ start <= end
    BY <1>1, <1>2, <1>4 DEF Min2
  <1>7. start + Len(Chunk(k)) = end
    <2> HIDE DEF start, end
    <2>1. Len(Bytes(r.file, start, end)) = end - start
      BY <1>1, <1>6, BytesType, Zenon
    <2>2. QED
      BY <1>5, <1>6, <2>1
  <1>8. /\ lo \in Nat /\ hi \in Nat /\ r.offset <= lo
        /\ start <= lo /\ lo <= hi /\ hi <= end
    BY <1>1, <1>2, <1>4 DEF Min2
  <1>9. Slice(r, i, Chunk(k)) = SubSeq(Bytes(r.file, start, end), lo - start + 1, hi - start)
    BY <1>5, <1>7 DEF Slice
  <1>10. Slice(r, i, Chunk(k)) = Bytes(r.file, lo, hi)
    <2> DEFINE m == lo - start + 1
               n == hi - start
    <2>1. m \in Int /\ n \in Int
      BY <1>6, <1>8
    <2>2. PICK f \in Files : f = r.file
      BY <1>1
    <2>3. SubSeq(Bytes(f, start, end), m, n) = Bytes(f, lo, hi)
      <3>1. m = lo - start + 1 /\ n = hi - start
        OBVIOUS
      <3> HIDE DEF start, end, lo, hi, m, n
      <3>2. QED
        BY <1>6, <1>8, <2>1, <3>1, BytesPart, SMTT(20)
    <2>4. QED
      BY <1>9, <2>2, <2>3
  <1>11. Reached(r, i) = lo
    BY <1>1, <1>2, <1>4 DEF Reached, Min2
  <1>12. Reached(r, i + 1) = hi
    <2>1. ~(start + chunkSize <= r.offset)
      BY <1>1, <1>2
    <2>2. Reached(r, i + 1) = Min2(EndOf(r), start + chunkSize)
      BY <1>3, <2>1 DEF Reached
    <2>3. QED
      <3> HIDE DEF start
      <3>1. QED
        BY <1>1, <1>2, <1>4, <2>2 DEF Min2
  <1>13. QED
    <2> HIDE DEF start, end, lo, hi, k
    <2>1. Bytes(r.file, r.offset, lo) \o Bytes(r.file, lo, hi) = Bytes(r.file, r.offset, hi)
      BY <1>1, <1>8, BytesJoin, ZenonT(40)
    <2>2. QED
      BY <1>10, <1>11, <1>12, <2>1 DEF Join, k

\* After the last chunk everything is joined.
LEMMA JoinEnds ==
    ASSUME NEW r \in Requests, ~AtEof(r), chunkSize \in ChunkSizes,
           NEW i \in Nat, FirstIndex(r) <= i, LastIndex(r) < i
    PROVE  Reached(r, i) = EndOf(r)
  <1>1. chunkSize \in Nat \ {0}
    BY ChunkSizesAssumption
  <1>2. EndOf(r) <= i * chunkSize /\ i * chunkSize \in Int
    BY <1>1, LoopBounds, StartsInOrder, StartOf, EndInFile
  <1>3. QED
    BY <1>2, EndInFile, RequestType DEF Reached, Min2
-----------------------------------------------------------------------------
(* Every step of the stack is a step of the cache, or leaves it alone.      *)

\* What a host answers is what the cache's callback may return or raise.
LEMMA FetchIsDownload ==
    ASSUME ControlInv, NEW t \in Threads, FetchRange(t)
    PROVE  Download(t)
  <1>1. pc[t] = "fetch"
    BY DEF FetchRange, Receive, FetchReturns, FetchRaises
  <1>2. InFile(key[t]) /\ key[t] \in Keys /\ chunkSize \in ChunkSizes
    BY <1>1 DEF ControlInv, TypeOK, CallsInFile
  <1>3. /\ Len(Chunk(key[t])) = ChunkLen(key[t])
        /\ Len(Tail(Chunk(key[t]))) # ChunkLen(key[t])
    BY <1>2, ChunkLength, TailShorter
  <1>4. Receive(t, Whole(key[t])) => FetchReturns(t, Chunk(key[t]))
    BY <1>3 DEF Receive, Whole
  <1>5. \A resp \in BadResponses(key[t]) :
           Receive(t, resp) => FetchRaises(t, "RemoteFileError")
    BY <1>3 DEF Receive, BadResponses
  <1>6. QED
    BY <1>4, <1>5 DEF FetchRange, Download

\* The chunk a client asks the cache for, or starts a worker for.
LEMMA AskedChunk ==
    ASSUME TypeOK, TypeOKR, HandlersLive, NEW t \in Clients,
           \/ stage[t] \in {"reading", "waiting"} /\ MoreChunks(t)
           \/ stage[t] \in {"claim", "spawn"}
    PROVE  ChunkOf(t) \in Keys /\ InFile(ChunkOf(t))
  <1>1. req[t] \in Requests /\ next[t] \in Nat /\ chunkSize \in ChunkSizes
    BY DEF TypeOK, TypeOKR
  <1>2. CASE stage[t] \in {"reading", "waiting"} /\ MoreChunks(t)
    <2>1. /\ ~AtEof(req[t]) /\ next[t] <= LastIndex(req[t])
          /\ FirstIndex(req[t]) <= next[t]
      BY <1>2 DEF MoreChunks, HandlersLive
    <2>2. QED
      BY <1>1, <2>1, LoopChunk DEF ChunkOf
  <1>3. CASE stage[t] \in {"claim", "spawn"}
    <2>1. InFile(<<req[t].file, next[t]>>)
      BY <1>3 DEF HandlersLive, ChunkOf
    <2>2. req[t].file \in Files
      BY <1>1, RequestType
    <2>3. QED
      BY <1>1, <2>1, <2>2, InsideIsKey DEF ChunkOf
  <1>4. QED
    BY <1>2, <1>3

\* The steps that leave the cache alone.
HandlerOnly ==
    \/ \E t \in Clients :
         \/ \E r \in Requests : Read(t, r)
         \/ TakeChunk(t) \/ ReadRaises(t) \/ ReadDone(t) \/ PrefetchCheck(t) \/ Claim(t)
         \/ SpawnFails(t) \/ Reply(t)
    \/ \E w \in Workers : WorkerDone(w)

LEMMA StepIsCacheStep ==
    ASSUME ControlInv, TypeOKR, HandlersLive, [NextR]_allVars
    PROVE  [Next]_vars
  <1>1. Threads = Clients \cup Workers /\ TypeOK
    BY ThreadsAssumption DEF ControlInv
  <1>2. CASE HandlerOnly
    BY <1>2 DEF HandlerOnly, Read, TakeChunk, ReadRaises, ReadDone, PrefetchCheck, Claim,
       SpawnFails, Reply, WorkerDone
  <1>3. ASSUME NEW t \in Clients, AskChunk(t)
        PROVE  Next
    <2>1. ChunkOf(t) \in Keys /\ InFile(ChunkOf(t)) /\ Call(t, ChunkOf(t))
      BY <1>1, <1>3, AskedChunk DEF AskChunk
    <2>2. QED
      BY <1>1, <2>1 DEF Next
  <1>4. ASSUME NEW t \in Clients, NEW w \in Workers, Spawn(t, w)
        PROVE  Next
    <2>1. ChunkOf(t) \in Keys /\ InFile(ChunkOf(t)) /\ Call(w, ChunkOf(t))
      BY <1>1, <1>4, AskedChunk DEF Spawn
    <2>2. QED
      BY <1>1, <2>1 DEF Next
  <1>5. ASSUME NEW t \in Threads, CacheStep(t)
        PROVE  Next
    BY <1>5, FetchIsDownload DEF CacheStep, Next
  <1>6. CASE \/ \E k \in Keys : DeleteFile(k)
             \/ \E size \in ChunkSizes : Start(size)
             \/ Crash
    BY <1>6 DEF Crash, Next, Environment
  <1>7. CASE UNCHANGED allVars
    BY <1>7 DEF allVars
  <1>8. QED
    BY <1>2, <1>3, <1>4, <1>5, <1>6, <1>7 DEF NextR, HandlerStep, HandlerOnly
-----------------------------------------------------------------------------
(* Types.                                                                   *)

Stages == {"idle", "reading", "waiting", "prefetch", "claim", "spawn", "fetching"}
Replies == [kind : {"none", "ok", "denied", "raised"}, data : Seq(Files \X Nat)]

LEMMA ReplyTypes ==
    /\ NoReply \in Replies /\ <<>> \in Seq(Files \X Nat)
    /\ \A kind \in {"none", "ok", "denied", "raised"}, data \in Seq(Files \X Nat) :
          [kind |-> kind, data |-> data] \in Replies
  BY DEF NoReply, Replies

\* A slice of a sequence of bytes is a sequence of bytes.
LEMMA SliceType ==
    ASSUME NEW r \in Requests, NEW i \in Nat, chunkSize \in ChunkSizes,
           NEW chunk \in Seq(Files \X Nat)
    PROVE  Slice(r, i, chunk) \in Seq(Files \X Nat)
  <1> DEFINE start == i * chunkSize
             lo == IF r.offset > start THEN r.offset ELSE start
             hi == Min2(EndOf(r), start + Len(chunk))
  <1>1. /\ start \in Nat /\ r.offset \in Nat /\ Len(chunk) \in Nat /\ EndOf(r) \in Int
    <2>1. chunkSize \in Nat \ {0}
      BY ChunkSizesAssumption
    <2>2. r.offset \in Nat /\ r.length \in Nat /\ FileSize[r.file] \in Nat
      BY RequestType
    <2>3. start \in Nat
      BY <2>1
    <2>4. EndOf(r) \in Int
      BY <2>2 DEF EndOf, Length, Min2
    <2>5. QED
      BY <2>2, <2>3, <2>4
  <1>2. /\ lo - start + 1 \in Nat \ {0}
        /\ hi - start \in Int /\ hi - start <= Len(chunk)
    <2> HIDE DEF start
    <2>1. QED
      BY <1>1 DEF Min2
  <1>3. Slice(r, i, chunk) = SubSeq(chunk, lo - start + 1, hi - start)
    BY DEF Slice
  <1> HIDE DEF start, lo, hi
  <1>4. \A m \in Nat \ {0}, n \in Int : n <= Len(chunk) =>
           SubSeq(chunk, m, n) \in Seq(Files \X Nat)
    OBVIOUS
  <1>5. QED
    BY <1>2, <1>3, <1>4

LEMMA PrefetchStart ==
    ASSUME NEW r \in Requests, chunkSize \in ChunkSizes
    PROVE  PrefetchFrom(r) \in Nat
  <1>1. chunkSize \in Nat \ {0} /\ r.offset \in Nat /\ r.length \in Nat
    BY ChunkSizesAssumption, RequestType
  <1> DEFINE last == r.offset + r.length + chunkSize - 1
             q == last \div chunkSize
  <1>2. last \in Nat
    BY <1>1
  <1>3. q \in Int /\ last < q * chunkSize + chunkSize
    <2> HIDE DEF last
    <2>1. QED
      BY <1>1, <1>2
  <1>4. q \in Nat
    <2> HIDE DEF last, q
    <2>1. QED
      BY <1>1, <1>2, <1>3, StartOf
  <1>5. QED
    BY <1>4 DEF PrefetchFrom

LEMMA InitTypesR == InitR => TypeOKR
  <1> SUFFICES ASSUME InitR PROVE TypeOKR
    OBVIOUS
  <1>1. (CHOOSE r \in Requests : TRUE) \in Requests
    BY RequestsAssumption
  <1>2. QED
    BY <1>1, ReplyTypes, PrefetchAssumption DEF InitR, RemoteInit, TypeOKR, Replies

\* Every step keeps the types of the handlers.
LEMMA StepKeepsTypesR ==
    ASSUME TypeOK, TypeOKR, HandlersLive, [NextR]_allVars
    PROVE  TypeOKR'
  <1> USE ReplyTypes, ThreadsAssumption DEF TypeOKR, Replies
  <1>1. ASSUME NEW t \in Clients, NEW r \in Requests, Read(t, r)
        PROVE  TypeOKR'
    <2>1. FirstIndex(r) \in Nat
      BY FirstChunk DEF TypeOK
    <2>2. QED
      BY <1>1, <2>1 DEF Read, Become, Answer
  <1>2. ASSUME NEW t \in Clients, AskChunk(t)
        PROVE  TypeOKR'
    BY <1>2 DEF AskChunk, Become
  <1>3. ASSUME NEW t \in Clients, TakeChunk(t)
        PROVE  TypeOKR'
    <2>1. outcome[t].data \in Seq(Files \X Nat)
      BY DEF TypeOK, Outcomes
    <2>2. Slice(req[t], next[t], outcome[t].data) \in Seq(Files \X Nat)
      BY <2>1, SliceType DEF TypeOK
    <2>3. Join(joined[t], Slice(req[t], next[t], outcome[t].data)) \in Seq(Files \X Nat)
      BY <2>2 DEF Join
    <2>4. QED
      BY <1>3, <2>3 DEF TakeChunk, Become
  <1>4. ASSUME NEW t \in Clients, NEW kind \in {"ok", "denied", "raised"},
               NEW data \in Seq(Files \X Nat), Finish(t, kind, data),
               UNCHANGED <<req, pending>>, spawnFaults' \in 0 .. SpawnFaults
        PROVE  TypeOKR'
    BY <1>4 DEF Finish, Answer, Become
  <1>5. ASSUME NEW t \in Clients, ReadRaises(t) \/ SpawnFails(t) \/ Reply(t)
        PROVE  TypeOKR'
    <2>1. joined[t] \in Seq(Files \X Nat)
      OBVIOUS
    <2>2. spawnFaults' \in 0 .. SpawnFaults
      BY <1>5, PrefetchAssumption DEF ReadRaises, SpawnFails, Reply
    <2>3. \E kind \in {"ok", "denied", "raised"}, data \in Seq(Files \X Nat) :
             Finish(t, kind, data)
      BY <1>5, <2>1 DEF ReadRaises, ErrorReply, SpawnFails, Reply
    <2>4. UNCHANGED <<req, pending>>
      BY <1>5 DEF ReadRaises, SpawnFails, Reply
    <2>5. QED
      BY <1>4, <2>2, <2>3, <2>4, ZenonT(40)
  <1>6. ASSUME NEW t \in Clients, ReadDone(t)
        PROVE  TypeOKR'
    <2>1. PrefetchFrom(req[t]) \in Nat
      BY PrefetchStart DEF TypeOK
    <2>2. CASE Finish(t, "raised", <<>>)
      BY <1>4, <1>6, <2>2 DEF ReadDone
    <2>3. CASE ~Finish(t, "raised", <<>>)
      <3>1. /\ stage' = [stage EXCEPT ![t] = "prefetch"]
            /\ next' = [next EXCEPT ![t] = PrefetchFrom(req[t])]
            /\ UNCHANGED <<req, joined, reply, pending, spawnFaults>>
        BY <1>6, <2>3 DEF ReadDone, Become
      <3>2. QED
        BY <2>1, <3>1
    <2>4. QED
      BY <2>2, <2>3
  <1>7. ASSUME NEW t \in Clients, PrefetchCheck(t)
        PROVE  TypeOKR'
    <2>1. /\ UNCHANGED <<req, joined, reply, pending, spawnFaults>>
          /\ \/ UNCHANGED next /\ stage' = [stage EXCEPT ![t] = "claim"]
             \/ UNCHANGED stage /\ next' = [next EXCEPT ![t] = next[t] + 1]
      BY <1>7 DEF PrefetchCheck, Become, Advance
    <2>2. next' \in [Clients -> Nat]
      <3>1. next' = next \/ next' = [next EXCEPT ![t] = next[t] + 1]
        BY <2>1
      <3>2. CASE next' = next
        BY <3>2
      <3>3. CASE next' = [next EXCEPT ![t] = next[t] + 1]
        BY <3>3
      <3>4. QED
        BY <3>1, <3>2, <3>3
    <2>3. stage' \in [Threads -> Stages]
      BY <2>1 DEF Stages
    <2>4. QED
      BY <2>1, <2>2, <2>3 DEF Stages
  <1>8. ASSUME NEW t \in Clients, Claim(t)
        PROVE  TypeOKR'
    <2>1. ChunkOf(t) \in Keys
      BY <1>8, AskedChunk DEF Claim
    <2>2. /\ UNCHANGED <<req, joined, reply, spawnFaults>>
          /\ pending' \subseteq pending \cup {ChunkOf(t)}
          /\ next' = next \/ next' = [next EXCEPT ![t] = next[t] + 1]
          /\ \E label \in {"prefetch", "spawn"} : stage' = [stage EXCEPT ![t] = label]
      BY <1>8 DEF Claim, Become, Advance
    <2>3. next' \in [Clients -> Nat]
      <3>1. next' = next \/ next' = [next EXCEPT ![t] = next[t] + 1]
        BY <2>2
      <3>2. CASE next' = next
        BY <3>2
      <3>3. CASE next' = [next EXCEPT ![t] = next[t] + 1]
        BY <3>3
      <3>4. QED
        BY <3>1, <3>2, <3>3
    <2>4. stage' \in [Threads -> Stages]
      BY <2>2 DEF Stages
    <2>5. QED
      BY <2>1, <2>2, <2>3, <2>4 DEF Stages
  <1>9. ASSUME NEW t \in Clients, NEW w \in Workers, Spawn(t, w)
        PROVE  TypeOKR'
    <2>1. /\ UNCHANGED <<req, joined, reply, pending, spawnFaults>>
          /\ next' = [next EXCEPT ![t] = next[t] + 1]
          /\ stage' = [stage EXCEPT ![t] = "prefetch", ![w] = "fetching"]
      BY <1>9 DEF Spawn, Advance
    <2>2. next' \in [Clients -> Nat]
      BY <2>1
    <2>3. stage' \in [Threads -> Stages]
      BY <2>1 DEF Stages
    <2>4. QED
      BY <2>1, <2>2, <2>3 DEF Stages
  <1>10. ASSUME NEW w \in Workers, WorkerDone(w)
         PROVE  TypeOKR'
    BY <1>10 DEF WorkerDone, Become
  <1>11. CASE Crash
    BY <1>11 DEF Crash
  <1>12. CASE UNCHANGED remoteVars
    BY <1>12 DEF remoteVars
  <1>13. QED
    BY <1>1, <1>2, <1>3, <1>5, <1>6, <1>7, <1>8, <1>9, <1>10, <1>11, <1>12
    DEF NextR, HandlerStep, CacheStep, allVars
-----------------------------------------------------------------------------
(* Where handlers and workers are.                                          *)

\* A step of the cache belongs to a thread inside a call, and moves only that.
LEMMA CacheStepFrame ==
    ASSUME NEW t \in Threads, CacheStep(t)
    PROVE  /\ pc[t] # "idle" /\ UNCHANGED <<up, chunkSize, key>>
           /\ \E label : pc' = [pc EXCEPT ![t] = label]
           /\ UNCHANGED remoteVars
  <1>1. CASE LocalStep(t)
    BY <1>1 DEF CacheStep, LocalStep, HasChunk, ReadMissed, ReadFile, ReadFails, Discard,
       Acquire, OpenTmp, WriteAndSync, Synced, Replace, StoreFails, Mark, Release, Unlock, Goto
  <1>2. CASE FetchRange(t)
    BY <1>2 DEF CacheStep, FetchRange, Receive, FetchReturns, Accepts, FetchRaises, Goto
  <1>3. QED
    BY <1>1, <1>2 DEF CacheStep

\* Every step keeps the handlers and workers in their places.
LEMMA StepKeepsHandlers ==
    ASSUME ControlInv, TypeOKR, HandlersLive, [NextR]_allVars
    PROVE  HandlersLive'
  <1> USE ThreadsAssumption DEF HandlersLive
  <1>1. /\ stage \in [Threads -> Stages] /\ pc \in [Threads -> Labels] /\ key \in [Threads -> Keys]
        /\ req \in [Clients -> Requests] /\ next \in [Clients -> Nat]
        /\ chunkSize \in ChunkSizes
    BY DEF ControlInv, TypeOK, TypeOKR, Stages
  <1>2. ASSUME chunkSize' = chunkSize
        PROVE  /\ \A r : FirstIndex(r)' = FirstIndex(r) /\ LastIndex(r)' = LastIndex(r)
               /\ \A k : InFile(k)' = InFile(k)
    BY <1>2 DEF FirstIndex, LastIndex, EndOf, Length, InFile, ChunkStart
  <1>3. ASSUME NEW t \in Clients, NEW r \in Requests, Read(t, r)
        PROVE  HandlersLive'
    <2>1. FirstIndex(r) \in Nat
      BY <1>1, FirstChunk
    <2>2. QED
      BY <1>1, <1>2, <1>3, <2>1 DEF Read, Become, vars, ChunkOf, MoreChunks
  <1>4. ASSUME NEW t \in Clients, AskChunk(t)
        PROVE  HandlersLive'
    BY <1>1, <1>2, <1>4 DEF AskChunk, Call, Goto, Become, ChunkOf, MoreChunks
  <1>5. ASSUME NEW t \in Clients, TakeChunk(t)
        PROVE  HandlersLive'
    <2>1. FirstIndex(req[t]) \in Nat
      BY <1>1, FirstChunk
    <2>2. QED
      BY <1>1, <1>2, <1>5, <2>1 DEF TakeChunk, Become, vars, ChunkOf, MoreChunks
  <1>6. ASSUME NEW t \in Clients, NEW kind, NEW data, Finish(t, kind, data),
               pc[t] = "idle", UNCHANGED <<vars, req, pending>>
        PROVE  HandlersLive'
    BY <1>1, <1>2, <1>6 DEF Finish, Become, vars, ChunkOf, MoreChunks
  <1>7. ASSUME NEW t \in Clients, ReadRaises(t) \/ SpawnFails(t) \/ Reply(t)
        PROVE  HandlersLive'
    BY <1>6, <1>7 DEF ReadRaises, SpawnFails, Reply
  <1>8. ASSUME NEW t \in Clients, ReadDone(t)
        PROVE  HandlersLive'
    <2>1. pc[t] = "idle"
      BY <1>8 DEF ReadDone
    <2>2. CASE Finish(t, "raised", <<>>)
      BY <1>6, <1>8, <2>1, <2>2 DEF ReadDone
    <2>3. CASE ~Finish(t, "raised", <<>>)
      BY <1>1, <1>2, <1>8, <2>1, <2>3 DEF ReadDone, Become, vars, ChunkOf, MoreChunks
    <2>4. QED
      BY <2>2, <2>3
  <1>9. ASSUME NEW t \in Clients, PrefetchCheck(t) \/ Claim(t)
        PROVE  HandlersLive'
    BY <1>1, <1>2, <1>9
    DEF PrefetchCheck, Prefetchable, Claim, Advance, Become, vars, ChunkOf, MoreChunks
  <1>10. ASSUME NEW t \in Clients, NEW w \in Workers, Spawn(t, w)
         PROVE  HandlersLive'
    BY <1>1, <1>2, <1>10 DEF Spawn, Call, Goto, Advance, ChunkOf, MoreChunks
  <1>11. ASSUME NEW w \in Workers, WorkerDone(w)
         PROVE  HandlersLive'
    BY <1>1, <1>2, <1>11 DEF WorkerDone, Become, vars, ChunkOf, MoreChunks
  <1>12. ASSUME NEW t \in Threads, CacheStep(t)
         PROVE  HandlersLive'
    BY <1>1, <1>2, <1>12, CacheStepFrame DEF remoteVars, ChunkOf, MoreChunks
  <1>13. ASSUME NEW k \in Keys, DeleteFile(k) /\ UNCHANGED remoteVars
         PROVE  HandlersLive'
    BY <1>1, <1>2, <1>13 DEF DeleteFile, remoteVars, ChunkOf, MoreChunks
  <1>14. ASSUME NEW size \in ChunkSizes, Start(size) /\ UNCHANGED remoteVars
         PROVE  HandlersLive'
    BY <1>1, <1>14 DEF Start, remoteVars
  <1>15. CASE Crash
    BY <1>15 DEF Crash, Kill, PowerLoss, ForgetProcess
  <1>16. CASE UNCHANGED allVars
    BY <1>1, <1>2, <1>16 DEF allVars, vars, remoteVars, ChunkOf, MoreChunks
  <1>17. QED
    BY <1>3, <1>4, <1>5, <1>7, <1>8, <1>9, <1>10, <1>11, <1>12, <1>13, <1>14, <1>15, <1>16
    DEF NextR, HandlerStep
-----------------------------------------------------------------------------
(* The pending set.                                                         *)

\* Every step keeps the pending set what the threads are prefetching.
LEMMA StepKeepsPending ==
    ASSUME ControlInv, TypeOKR, HandlersLive, PendingClaims, [NextR]_allVars
    PROVE  PendingClaims'
  <1> USE ThreadsAssumption
  <1>1. /\ stage \in [Threads -> Stages] /\ key \in [Threads -> Keys]
        /\ req \in [Clients -> Requests] /\ next \in [Clients -> Nat]
    BY DEF ControlInv, TypeOK, TypeOKR, Stages
  <1>2. ASSUME \A s \in Threads : Prefetching(s)' = Prefetching(s), pending' = pending
        PROVE  PendingClaims'
    BY <1>2 DEF PendingClaims
  <1>3. ASSUME NEW t \in Clients,
               \E label : label # "spawn" /\ stage' = [stage EXCEPT ![t] = label],
               stage[t] # "spawn",
               \A s \in Clients : s # t => next'[s] = next[s] /\ req'[s] = req[s],
               \A w \in Workers : key'[w] = key[w],
               pending' = pending
        PROVE  PendingClaims'
    <2>1. \A s \in Threads : Prefetching(s)' = Prefetching(s)
      BY <1>1, <1>3 DEF Prefetching, ChunkOf
    <2>2. QED
      BY <1>2, <1>3, <2>1
  <1>4. ASSUME NEW t \in Clients, (\E r \in Requests : Read(t, r)) \/ AskChunk(t) \/ TakeChunk(t)
        PROVE  PendingClaims'
    BY <1>1, <1>3, <1>4 DEF Read, AskChunk, Call, TakeChunk, Become, vars
  <1>5. ASSUME NEW t \in Clients, ReadRaises(t) \/ ReadDone(t) \/ Reply(t)
        PROVE  PendingClaims'
    BY <1>1, <1>3, <1>5 DEF ReadRaises, ReadDone, Reply, Finish, Become, vars
  <1>6. ASSUME NEW t \in Clients, PrefetchCheck(t)
        PROVE  PendingClaims'
    <2>1. /\ \E label : label # "spawn" /\ stage' = [stage EXCEPT ![t] = label]
          /\ \A s \in Clients : s # t => next'[s] = next[s]
      BY <1>1, <1>6 DEF PrefetchCheck, Become, Advance
    <2>2. QED
      BY <1>3, <1>6, <2>1 DEF PrefetchCheck, vars
  <1>7. ASSUME NEW t \in Clients, Claim(t)
        PROVE  PendingClaims'
    <2>1. CASE Pending(ChunkOf(t))
      BY <1>1, <1>3, <1>7, <2>1 DEF Claim, Become, Advance, vars
    <2>2. CASE ~Pending(ChunkOf(t))
      <3>1. /\ Prefetching(t) = {} /\ Prefetching(t)' = {ChunkOf(t)}
            /\ pending' = pending \cup {ChunkOf(t)} /\ ChunkOf(t) \notin pending
        BY <1>1, <1>7, <2>2 DEF Claim, Become, Prefetching, ChunkOf, Pending
      <3>2. \A s \in Threads : s # t => Prefetching(s)' = Prefetching(s)
        BY <1>1, <1>7, <2>2 DEF Claim, Become, Prefetching, ChunkOf, vars
      <3>3. QED
        BY <3>1, <3>2 DEF PendingClaims
    <2>3. QED
      BY <2>1, <2>2
  <1>8. ASSUME NEW t \in Clients, NEW w \in Workers, Spawn(t, w)
        PROVE  PendingClaims'
    <2>1. /\ stage' = [stage EXCEPT ![t] = "prefetch", ![w] = "fetching"]
          /\ key' = [key EXCEPT ![w] = ChunkOf(t)]
          /\ next' = [next EXCEPT ![t] = next[t] + 1]
          /\ stage[t] = "spawn" /\ stage[w] = "idle"
          /\ UNCHANGED <<req, pending>>
      BY <1>8 DEF Spawn, Call, Advance
    <2>2. /\ Prefetching(t) = {ChunkOf(t)} /\ Prefetching(t)' = {}
          /\ Prefetching(w) = {} /\ Prefetching(w)' = {ChunkOf(t)}
      BY <1>1, <2>1 DEF Prefetching
    <2>3. \A s \in Threads : s # t /\ s # w => Prefetching(s)' = Prefetching(s)
      BY <1>1, <2>1 DEF Prefetching, ChunkOf
    <2>4. QED
      BY <2>1, <2>2, <2>3 DEF PendingClaims
  <1>9. ASSUME NEW t \in Clients, SpawnFails(t)
        PROVE  PendingClaims'
    <2>1. SpawnFaults # 0
      BY <1>9 DEF SpawnFails, TypeOKR
    <2>2. Prefetching(t)' = {} /\ pending' = pending
      BY <1>1, <1>9 DEF SpawnFails, Finish, Become, Prefetching
    <2>3. \A s \in Threads : s # t => Prefetching(s)' = Prefetching(s)
      BY <1>1, <1>9 DEF SpawnFails, Finish, Become, Prefetching, ChunkOf, vars
    <2>4. QED
      BY <2>1, <2>2, <2>3 DEF PendingClaims
  <1>10. ASSUME NEW w \in Workers, WorkerDone(w)
         PROVE  PendingClaims'
    <2>1. /\ Prefetching(w) = {key[w]} /\ Prefetching(w)' = {}
          /\ pending' = pending \ {key[w]}
      BY <1>1, <1>10 DEF WorkerDone, Become, Prefetching
    <2>2. \A s \in Threads : s # w => Prefetching(s)' = Prefetching(s)
      BY <1>1, <1>10 DEF WorkerDone, Become, Prefetching, ChunkOf, vars
    <2>3. QED
      BY <2>1, <2>2 DEF PendingClaims
  <1>11. ASSUME NEW t \in Threads, CacheStep(t)
         PROVE  PendingClaims'
    BY <1>2, <1>11, CacheStepFrame DEF remoteVars, Prefetching, ChunkOf
  <1>12. CASE /\ \/ \E k \in Keys : DeleteFile(k)
                 \/ \E size \in ChunkSizes : Start(size)
              /\ UNCHANGED remoteVars
    BY <1>2, <1>12 DEF DeleteFile, Start, remoteVars, Prefetching, ChunkOf
  <1>13. CASE Crash
    <2>1. \A s \in Threads : Prefetching(s)' = {}
      BY <1>13 DEF Crash, Prefetching
    <2>2. QED
      BY <1>13, <2>1 DEF Crash, PendingClaims
  <1>14. CASE UNCHANGED allVars
    BY <1>2, <1>14 DEF allVars, vars, remoteVars, Prefetching, ChunkOf
  <1>15. QED
    BY <1>4, <1>5, <1>6, <1>7, <1>8, <1>9, <1>10, <1>11, <1>12, <1>13, <1>14
    DEF NextR, HandlerStep
-----------------------------------------------------------------------------
(* The bytes, when every process is started with the same chunk size.       *)

\* Every step keeps what the clients have joined.
LEMMA StepKeepsJoined ==
    ASSUME FixedChunkSize, ControlInv, ControlInv', ReturnsOwnBytes,
           TypeOKR, HandlersLive, ReadsJoined, [NextR]_allVars
    PROVE  ReadsJoined'
  <1> USE ThreadsAssumption
  <1>1. /\ stage \in [Threads -> Stages] /\ req \in [Clients -> Requests]
        /\ next \in [Clients -> Nat] /\ joined \in [Clients -> Seq(Files \X Nat)]
        /\ reply \in [Clients -> Replies] /\ chunkSize \in ChunkSizes
    BY DEF ControlInv, TypeOK, TypeOKR, Stages, Replies
  <1>2. chunkSize' = chunkSize
    BY DEF FixedChunkSize, ControlInv, TypeOK
  <1>3. /\ \A r, i : JoinedSoFar(r, i)' = JoinedSoFar(r, i)
        /\ \A r : Wanted(r)' = Wanted(r)
    BY <1>2 DEF JoinedSoFar, AtEof, EndOf, Length, Reached, Wanted
  <1>4. ASSUME NEW t \in Clients,
               stage'[t] = stage[t] \/ {stage[t], stage'[t]} \subseteq {"reading", "waiting"}
                 \/ {stage[t], stage'[t]} \subseteq {"prefetch", "claim", "spawn"},
               stage[t] \in {"reading", "waiting"} => next'[t] = next[t],
               req'[t] = req[t], joined'[t] = joined[t], reply'[t] = reply[t]
        PROVE  JoinedBy(t)'
    BY <1>3, <1>4 DEF ReadsJoined, JoinedBy
  <1>5. ASSUME NEW t \in Clients, JoinedBy(t)',
               \A s \in Clients \ {t} :
                  /\ stage'[s] = stage[s] /\ next'[s] = next[s] /\ req'[s] = req[s]
                  /\ joined'[s] = joined[s] /\ reply'[s] = reply[s]
        PROVE  ReadsJoined'
    BY <1>4, <1>5 DEF ReadsJoined
  <1>6. ASSUME NEW t \in Clients, NEW r \in Requests, Read(t, r)
        PROVE  ReadsJoined'
    <2>1. JoinedSoFar(r, FirstIndex(r)) = <<>>
      BY <1>1, JoinStarts DEF JoinedSoFar
    <2>2. JoinedBy(t)'
      BY <1>1, <1>3, <1>6, <2>1 DEF Read, Become, Answer, JoinedBy
    <2>3. QED
      BY <1>1, <1>5, <1>6, <2>2 DEF Read, Become, Answer
  <1>7. ASSUME NEW t \in Clients, AskChunk(t)
        PROVE  ReadsJoined'
    <2>1. JoinedBy(t)'
      BY <1>1, <1>4, <1>7 DEF AskChunk, Become
    <2>2. QED
      BY <1>1, <1>5, <1>7, <2>1 DEF AskChunk, Become
  <1>8. ASSUME NEW t \in Clients, TakeChunk(t)
        PROVE  ReadsJoined'
    <2>1. /\ ~AtEof(req[t]) /\ FirstIndex(req[t]) <= next[t] /\ next[t] <= LastIndex(req[t])
          /\ key[t] = <<req[t].file, next[t]>>
      BY <1>8 DEF TakeChunk, HandlersLive, MoreChunks, ChunkOf
    <2>2. outcome[t].data = Chunk(<<req[t].file, next[t]>>)
      BY <1>8, <2>1 DEF TakeChunk, ReturnsOwnBytes
    <2>3. joined[t] = Bytes(req[t].file, req[t].offset, Reached(req[t], next[t]))
      BY <1>8, <2>1 DEF TakeChunk, ReadsJoined, JoinedBy, JoinedSoFar
    <2>4. Join(joined[t], Slice(req[t], next[t], outcome[t].data))
            = JoinedSoFar(req[t], next[t] + 1)
      BY <1>1, <2>1, <2>2, <2>3, JoinContinues DEF JoinedSoFar
    <2>5. JoinedBy(t)'
      BY <1>1, <1>3, <1>8, <2>4 DEF TakeChunk, Become, JoinedBy, ReadsJoined
    <2>6. QED
      BY <1>1, <1>5, <1>8, <2>5 DEF TakeChunk, Become
  <1>9. ASSUME NEW t \in Clients, NEW kind, NEW data, Finish(t, kind, data),
               UNCHANGED req, kind = "ok" => data = Wanted(req[t])
        PROVE  ReadsJoined'
    <2>1. JoinedBy(t)'
      BY <1>1, <1>3, <1>9 DEF Finish, Become, Answer, JoinedBy
    <2>2. QED
      BY <1>1, <1>5, <1>9, <2>1 DEF Finish, Become, Answer
  <1>10. ASSUME NEW t \in Clients, ReadRaises(t) \/ SpawnFails(t) \/ Reply(t)
         PROVE  ReadsJoined'
    BY <1>9, <1>10 DEF ReadRaises, ErrorReply, Errors, SpawnFails, Reply, ReadsJoined, JoinedBy
  <1>11. ASSUME NEW t \in Clients, ReadDone(t)
         PROVE  ReadsJoined'
    <2>1. joined[t] = JoinedSoFar(req[t], next[t]) /\ FirstIndex(req[t]) <= next[t]
      BY <1>11 DEF ReadDone, ReadsJoined, JoinedBy, HandlersLive
    <2>2. JoinedSoFar(req[t], next[t]) = Wanted(req[t])
      <3>1. CASE AtEof(req[t])
        BY <3>1 DEF JoinedSoFar, Wanted
      <3>2. CASE ~AtEof(req[t])
        <4>1. LastIndex(req[t]) < next[t]
          BY <1>1, <1>11, <3>2, LoopBounds DEF ReadDone, MoreChunks
        <4>2. QED
          BY <1>1, <2>1, <3>2, <4>1, JoinEnds DEF JoinedSoFar, Wanted
      <3>3. QED
        BY <3>1, <3>2
    <2>3. CASE Finish(t, "raised", <<>>)
      BY <1>9, <1>11, <2>3 DEF ReadDone
    <2>4. CASE ~Finish(t, "raised", <<>>)
      <3>1. /\ stage' = [stage EXCEPT ![t] = "prefetch"]
            /\ \A s \in Clients \ {t} : next'[s] = next[s]
            /\ UNCHANGED <<req, joined, reply>>
        BY <1>1, <1>11, <2>4 DEF ReadDone, Become
      <3>2. JoinedBy(t)'
        BY <1>1, <1>3, <2>1, <2>2, <3>1 DEF JoinedBy, ReadsJoined
      <3>3. QED
        BY <1>1, <1>5, <3>1, <3>2
    <2>5. QED
      BY <2>3, <2>4
  <1>12. ASSUME NEW t \in Clients,
                PrefetchCheck(t) \/ Claim(t) \/ \E w \in Workers : Spawn(t, w)
         PROVE  ReadsJoined'
    <2>1. /\ stage[t] \in {"prefetch", "claim", "spawn"}
          /\ stage'[t] \in {"prefetch", "claim", "spawn"}
          /\ \A s \in Clients \ {t} : stage'[s] = stage[s] /\ next'[s] = next[s]
          /\ UNCHANGED <<req, joined, reply>>
      BY <1>1, <1>12 DEF PrefetchCheck, Claim, Spawn, Become, Advance
    <2>2. JoinedBy(t)'
      BY <1>4, <2>1
    <2>3. QED
      BY <1>5, <2>1, <2>2
  <1>13. CASE \/ \E w \in Workers : WorkerDone(w)
              \/ \E t \in Threads : CacheStep(t)
              \/ (\E k \in Keys : DeleteFile(k)) /\ UNCHANGED remoteVars
              \/ (\E size \in ChunkSizes : Start(size)) /\ UNCHANGED remoteVars
              \/ UNCHANGED allVars
    <2>1. /\ \A t \in Clients : stage'[t] = stage[t]
          /\ UNCHANGED <<req, next, joined, reply>>
      BY <1>1, <1>13 DEF WorkerDone, Become, CacheStep, remoteVars, allVars
    <2>2. QED
      BY <1>4, <2>1 DEF ReadsJoined
  <1>14. CASE Crash
    BY <1>14 DEF Crash, NoReply, ReadsJoined, JoinedBy
  <1>15. QED
    BY <1>6, <1>7, <1>8, <1>10, <1>11, <1>12, <1>13, <1>14 DEF NextR, HandlerStep
-----------------------------------------------------------------------------
(* The invariant, and what follows from it.                                 *)

LEMMA InitRemote == InitR => RemoteInv
  <1> SUFFICES ASSUME InitR PROVE RemoteInv
    OBVIOUS
  <1>1. CacheInv
    BY InitCache DEF InitR
  <1>2. TypeOKR
    BY InitTypesR
  <1>3. HandlersLive
    BY ThreadsAssumption DEF InitR, RemoteInit, Init, HandlersLive
  <1>4. PendingClaims
    BY ThreadsAssumption DEF InitR, RemoteInit, PendingClaims, Prefetching
  <1>5. ReadsJoined
    BY ThreadsAssumption DEF InitR, RemoteInit, ReadsJoined, JoinedBy, NoReply
  <1>6. QED
    BY <1>1, <1>2, <1>3, <1>4, <1>5 DEF RemoteInv

LEMMA StepKeepsRemote == RemoteInv /\ [NextR]_allVars => RemoteInv'
  <1> SUFFICES ASSUME RemoteInv, [NextR]_allVars PROVE RemoteInv'
    OBVIOUS
  <1>1. /\ ControlInv /\ TypeOK /\ TypeOKR /\ HandlersLive /\ PendingClaims
        /\ FixedChunkSize => DataInv /\ ReturnsOwnBytes /\ ReadsJoined
    BY DEF RemoteInv, CacheInv, ControlInv, DataInv
  <1>2. [Next]_vars
    BY <1>1, StepIsCacheStep
  <1>3. ControlInv'
    BY <1>1, <1>2, StepKeepsControl
  <1>4. CacheInv'
    BY <1>2, StepKeepsCache DEF RemoteInv
  <1>5. TypeOKR' /\ HandlersLive' /\ PendingClaims'
    BY <1>1, StepKeepsTypesR, StepKeepsHandlers, StepKeepsPending
  <1>6. FixedChunkSize => ReadsJoined'
    BY <1>1, <1>3, StepKeepsJoined
  <1>7. QED
    BY <1>4, <1>5, <1>6 DEF RemoteInv, FixedChunkSize

\* Handlers, workers, the pending set and the cache below them stay in step,
\* through every fault and crash; with one chunk size, so do the bytes.
THEOREM RemoteInvariant == SpecR => []RemoteInv
  BY InitRemote, StepKeepsRemote, PTL DEF SpecR

\* Reads and prefetches use the cache as module ChunkCache assumes its callers
\* do: every behaviour of the stack is one of the cache, so that what is proved
\* of the cache alone holds inside the server too.
THEOREM StackIsCache == SpecR => Spec
  <1>1. InitR => Init
    BY DEF InitR
  <1>2. RemoteInv /\ [NextR]_allVars => [Next]_vars
    BY StepIsCacheStep DEF RemoteInv, CacheInv
  <1>3. QED
    BY <1>1, <1>2, RemoteInvariant, PTL DEF Spec, SpecR

\* The state of handlers and workers has its types in every reachable state.
THEOREM RemoteTypeCorrect == SpecR => []TypeOKR
  <1>1. RemoteInv => TypeOKR
    BY DEF RemoteInv
  <1>2. QED
    BY <1>1, RemoteInvariant, PTL

\* A read that succeeds returned exactly the bytes of the remote file that were
\* asked for, clipped at its end, for every offset and length and whatever was
\* cached, prefetched, deleted or cut meanwhile, if the chunk size never changes.
THEOREM ReadsAreExact == ASSUME FixedChunkSize PROVE SpecR => []ReadsExact
  <1>1. RemoteInv => ReadsExact
    BY DEF RemoteInv, ReadsJoined, JoinedBy, ReadsExact
  <1>2. QED
    BY <1>1, RemoteInvariant, PTL

\* No HTTP range ever starts at or beyond the end of the file.
THEOREM RangesStayInside == SpecR => []RangesInsideFile
  <1>1. RemoteInv => RangesInsideFile
    BY DEF RemoteInv, CacheInv, ControlInv, CallsInFile, RangesInsideFile
  <1>2. QED
    BY <1>1, RemoteInvariant, PTL

\* Only chunks that a read in progress touches, or that are read ahead, are
\* ever downloaded, whatever offsets and lengths clients ask for.
THEOREM OnlyTouched == SpecR => []OnlyTouchedChunks
  <1>1. ASSUME RemoteInv, NEW t \in Threads, pc[t] = "fetch"
        PROVE  \/ t \in Workers /\ key[t] \in pending
               \/ t \in Clients /\ Touches(req[t], key[t])
    <2>1. HandlersLive /\ PendingClaims /\ TypeOKR /\ chunkSize \in ChunkSizes
      BY <1>1 DEF RemoteInv, CacheInv, ControlInv, TypeOK
    <2>2. CASE t \in Workers
      BY <1>1, <2>1, <2>2 DEF HandlersLive, PendingClaims, Prefetching
    <2>3. CASE t \in Clients
      <3>1. /\ key[t] = <<req[t].file, next[t]>> /\ req[t] \in Requests /\ next[t] \in Nat
            /\ ~AtEof(req[t])
            /\ FirstIndex(req[t]) <= next[t] /\ next[t] <= LastIndex(req[t])
        BY <1>1, <2>1, <2>3 DEF HandlersLive, MoreChunks, ChunkOf, TypeOKR
      <3>2. QED
        BY <2>1, <2>3, <3>1, LoopTouches
    <2>4. QED
      BY <2>2, <2>3, ThreadsAssumption
  <1>2. RemoteInv => OnlyTouchedChunks
    BY <1>1 DEF OnlyTouchedChunks
  <1>3. QED
    BY <1>2, RemoteInvariant, PTL

\* Inside the server too, with reads and prefetch workers as the callers, a chunk
\* on disk is never downloaded again and the index agrees with the directory.
THEOREM ServerKeepsIndex ==
    ASSUME ReliableFiles
    PROVE  SpecR => [](NoDuplicateDownload /\ IndexMatchesDisk)
  <1>1. Spec => []NoDuplicateDownload
    BY NoDuplicates
  <1>2. Spec => []IndexMatchesDisk
    BY IndexExact
  <1>3. QED
    BY <1>1, <1>2, StackIsCache, PTL

\* As long as every worker thread can be started, the pending set is exactly
\* what threads are prefetching, each chunk by one: none twice, none for ever.
THEOREM PendingIsExact == ASSUME SpawnFaults = 0 PROVE SpecR => []PendingIsLive
  <1>1. RemoteInv => PendingIsLive
    BY DEF RemoteInv, PendingClaims, PendingIsLive
  <1>2. QED
    BY <1>1, RemoteInvariant, PTL
-----------------------------------------------------------------------------
(* Refinement: the stack is a store of reads.                               *)

\* What the store sees of a client: the read it waits for, and its answer.
AskedBy(t) == IF stage[t] = "idle" THEN {} ELSE {req[t]}
AnswerOf(r) ==
    CASE r.kind = "none" -> NoOutcome
      [] r.kind = "ok" -> Returned(r.data)
      [] OTHER -> Raised("error")

LEMMA ReadsInit == InitR => Reads!Init
  BY ThreadsAssumption DEF InitR, RemoteInit, NoReply, NoOutcome, Reads!Init, Reads!NoAnswer

\* A step that only changes what one client waits for and was answered.
LEMMA ReadsStep ==
    ASSUME FixedChunkSize, RemoteInv, [NextR]_allVars
    PROVE  [Reads!Next]_(Reads!storeVars)
  <1> DEFINE asked == [t \in Clients |-> AskedBy(t)]
             answer == [t \in Clients |-> AnswerOf(reply[t])]
  <1> USE ThreadsAssumption
  <1>1. /\ stage \in [Threads -> Stages] /\ req \in [Clients -> Requests]
        /\ reply \in [Clients -> Replies]
    BY DEF RemoteInv, TypeOKR, Stages, Replies
  <1>2. ASSUME UNCHANGED <<req, reply>>,
               \A t \in Clients : stage[t] = "idle" <=> stage'[t] = "idle"
        PROVE  UNCHANGED Reads!storeVars
    BY <1>2 DEF Reads!storeVars
  <1>3. ASSUME NEW t \in Clients, NEW r \in Requests, Read(t, r)
        PROVE  Reads!Ask(t, r)
    <2>1. asked[t] = {} /\ asked' = [asked EXCEPT ![t] = {r}]
      BY <1>1, <1>3 DEF Read, Become, AskedBy
    <2>2. answer' = [answer EXCEPT ![t] = NoOutcome]
      BY <1>1, <1>3 DEF Read, Answer, AnswerOf
    <2>3. QED
      BY <2>1, <2>2 DEF Reads!Ask, Reads!NoAnswer, NoOutcome, AskedBy, AnswerOf
  <1>4. ASSUME NEW t \in Clients, NEW kind, NEW data, Finish(t, kind, data),
               UNCHANGED req, stage[t] # "idle"
        PROVE  /\ asked[t] = {req[t]} /\ asked' = [asked EXCEPT ![t] = {}]
               /\ answer' = [answer EXCEPT ![t] = AnswerOf([kind |-> kind, data |-> data])]
    BY <1>1, <1>4 DEF Finish, Become, Answer, AskedBy
  <1>5. ASSUME NEW t \in Clients, Reply(t)
        PROVE  Reads!Give(t)
    <2>1. /\ asked[t] = {req[t]} /\ asked' = [asked EXCEPT ![t] = {}]
          /\ answer' = [answer EXCEPT ![t] = AnswerOf([kind |-> "ok", data |-> joined[t]])]
      <3>1. Finish(t, "ok", joined[t]) /\ UNCHANGED req /\ stage[t] # "idle"
        BY <1>5 DEF Reply
      <3> HIDE DEF asked, answer
      <3>2. QED
        BY <1>4, <3>1
    <2>2. AnswerOf([kind |-> "ok", data |-> joined[t]])
            = [kind |-> "data", data |-> Wanted(req[t])]
      BY <1>5 DEF Reply, RemoteInv, ReadsJoined, JoinedBy, AnswerOf, Returned
    <2>3. QED
      BY <1>1, <2>1, <2>2 DEF Reads!Give, AskedBy, AnswerOf
  <1>6. ASSUME NEW t \in Clients, NEW kind \in {"denied", "raised"}, Finish(t, kind, <<>>),
               UNCHANGED req, stage[t] # "idle"
        PROVE  Reads!Fail(t)
    <2>1. /\ asked[t] = {req[t]} /\ asked' = [asked EXCEPT ![t] = {}]
          /\ answer' = [answer EXCEPT ![t] = AnswerOf([kind |-> kind, data |-> <<>>])]
      BY <1>4, <1>6
    <2>2. AnswerOf([kind |-> kind, data |-> <<>>]) = [kind |-> "error", data |-> <<>>]
      BY DEF AnswerOf, Raised
    <2>3. QED
      BY <2>1, <2>2 DEF Reads!Fail, Reads!Failure, AskedBy, AnswerOf
  <1>7. ASSUME NEW t \in Clients, ReadRaises(t) \/ SpawnFails(t)
        PROVE  Reads!Fail(t)
    BY <1>6, <1>7 DEF ReadRaises, ErrorReply, SpawnFails
  <1>8. ASSUME NEW t \in Clients, ReadDone(t)
        PROVE  Reads!Fail(t) \/ UNCHANGED Reads!storeVars
    <2>1. CASE Finish(t, "raised", <<>>)
      BY <1>6, <1>8, <2>1 DEF ReadDone
    <2>2. CASE ~Finish(t, "raised", <<>>)
      BY <1>1, <1>2, <1>8, <2>2 DEF ReadDone, Become
    <2>3. QED
      BY <2>1, <2>2
  <1>9. ASSUME NEW t \in Clients,
               \/ AskChunk(t) \/ TakeChunk(t) \/ PrefetchCheck(t) \/ Claim(t)
               \/ \E w \in Workers : Spawn(t, w)
        PROVE  UNCHANGED Reads!storeVars
    BY <1>1, <1>2, <1>9 DEF AskChunk, TakeChunk, PrefetchCheck, Claim, Spawn, Become
  <1>10. CASE \/ \E w \in Workers : WorkerDone(w)
              \/ \E t \in Threads : CacheStep(t)
              \/ (\E k \in Keys : DeleteFile(k)) /\ UNCHANGED remoteVars
              \/ (\E size \in ChunkSizes : Start(size)) /\ UNCHANGED remoteVars
              \/ UNCHANGED allVars
    BY <1>1, <1>2, <1>10 DEF WorkerDone, Become, CacheStep, remoteVars, allVars
  <1>11. CASE Crash
    <2>1. asked' = [t \in Clients |-> {}]
      BY <1>11 DEF Crash, AskedBy
    <2>2. answer' = [t \in Clients |-> NoOutcome]
      BY <1>11 DEF Crash, NoReply, AnswerOf
    <2>3. Reads!Crash
      BY <2>1, <2>2 DEF Reads!Crash, Reads!NoAnswer, NoOutcome, AskedBy, AnswerOf
    <2>4. QED
      BY <2>3 DEF Reads!Next
  <1>12. QED
    BY <1>3, <1>5, <1>7, <1>8, <1>9, <1>10, <1>11 DEF NextR, HandlerStep, Reads!Next

\* Seen from its clients the whole stack of handlers, prefetch workers, cache and
\* faulty hosts is a store that answers every read once, with exactly the bytes
\* of the remote file or with an error, if the chunk size never changes.
THEOREM StackImplementsReads == ASSUME FixedChunkSize PROVE SpecR => ImplementsReads
  <1>1. RemoteInv /\ [NextR]_allVars => [Reads!Next]_(Reads!storeVars)
    BY ReadsStep
  <1>2. QED
    BY <1>1, ReadsInit, RemoteInvariant, PTL DEF SpecR, ImplementsReads, Reads!Spec
=============================================================================
