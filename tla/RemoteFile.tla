------------------------------ MODULE RemoteFile ------------------------------
(***************************************************************************)
(* Reading and prefetching a probed remote ISO through the chunk cache      *)
(* (ps2smb/remote.py, RemoteFile.read and prefetch) on behalf of the SMB    *)
(* read handlers (ps2smb/smb/server.py).  A client thread serves one read:  *)
(* it calls the cache for each chunk in turn, joins the slices, starts      *)
(* prefetch workers for the chunks that follow, and replies.  The probe     *)
(* that makes the size known is the subject of module Probe: a handle       *)
(* exists only once the probe has succeeded, and its verdict is final.      *)
(***************************************************************************)
EXTENDS ChunkCache

CONSTANTS
    Clients,        \* SMB connection threads
    Workers,        \* prefetch threads (a bound: at most one per chunk is needed)
    PrefetchCount,  \* GameSMBServer.prefetch_count
    Requests,       \* the reads clients make
    SpawnFaults     \* how often Thread.start may fail in a behaviour

ASSUME ThreadsAssumption == Threads = Clients \cup Workers /\ Clients \cap Workers = {}
ASSUME PrefetchAssumption == PrefetchCount \in Nat /\ SpawnFaults \in Nat
ASSUME RequestsAssumption ==
    /\ Requests # {}
    /\ Requests \subseteq [file : Files, offset : Nat, length : Nat, readAhead : BOOLEAN]

VARIABLES
    stage,       \* where each client is in its handler, or a worker in its target
    req,         \* the read each client is serving
    next,        \* the next chunk index its loop will visit
    joined,      \* the slices read so far, joined
    reply,       \* what the handler returned
    pending,     \* RemoteFile._pending_prefetch of every file
    spawnFaults  \* Thread.start failures so far

remoteVars == <<stage, req, next, joined, reply, pending, spawnFaults>>
allVars == <<vars, remoteVars>>

NoReply == [kind |-> "none", data |-> <<>>]

Become(t, label) == stage' = [stage EXCEPT ![t] = label]
Answer(t, kind, data) == reply' = [reply EXCEPT ![t] = [kind |-> kind, data |-> data]]

\* The handler leaves: its locals are gone.
Finish(t, kind, data) ==
    /\ Answer(t, kind, data)
    /\ Become(t, "idle")
    /\ next' = [next EXCEPT ![t] = 0]
    /\ joined' = [joined EXCEPT ![t] = <<>>]

-----------------------------------------------------------------------------
\* The arithmetic of RemoteFile.read.

AtEof(r) == r.offset >= FileSize[r.file]
Length(r) == Min2(r.length, FileSize[r.file] - r.offset)    \* clipped at end of file
EndOf(r) == r.offset + Length(r)

FirstIndex(r) == r.offset \div chunkSize
LastIndexPast(r) == EndOf(r) \div chunkSize    \* faulty variant: one too far
LastIndex(r) == (EndOf(r) - 1) \div chunkSize

\* chunk[lo - cstart : hi - cstart] for the chunk of index i.
Slice(r, i, chunk) ==
    LET cstart == i * chunkSize
        lo == IF r.offset > cstart THEN r.offset ELSE cstart
        hi == Min2(EndOf(r), cstart + Len(chunk))
    IN  SubSeq(chunk, lo - cstart + 1, hi - cstart)

JoinReversed(parts, slice) == slice \o parts    \* faulty variant
Join(parts, slice) == parts \o slice

\* The bytes the client asked for.
Wanted(r) == IF AtEof(r) THEN <<>> ELSE Bytes(r.file, r.offset, EndOf(r))

\* Faulty variant: read-behind instead of read-ahead.
PrefetchBehind(r) == (r.offset - chunkSize) \div chunkSize

\* _prefetch_after counts from the end of the request, not of the reply.
PrefetchFrom(r) == (r.offset + r.length + chunkSize - 1) \div chunkSize

-----------------------------------------------------------------------------
(* The read handler of a client: read(), then _prefetch_after, then reply.  *)

ChunkOf(t) == <<req[t].file, next[t]>>
MoreChunks(t) == ~AtEof(req[t]) /\ next[t] <= LastIndex(req[t])

Read(t, r) ==
    /\ up
    /\ stage[t] = "idle"
    /\ Become(t, "reading")
    /\ req' = [req EXCEPT ![t] = r]
    /\ next' = [next EXCEPT ![t] = FirstIndex(r)]
    /\ joined' = [joined EXCEPT ![t] = <<>>]
    /\ Answer(t, "none", <<>>)
    /\ UNCHANGED <<vars, pending, spawnFaults>>

AskChunk(t) ==
    /\ stage[t] = "reading"
    /\ MoreChunks(t)
    /\ Call(t, ChunkOf(t))
    /\ Become(t, "waiting")
    /\ UNCHANGED <<req, next, joined, reply, pending, spawnFaults>>

TakeChunk(t) ==
    /\ stage[t] = "waiting"
    /\ pc[t] = "idle"
    /\ outcome[t].kind = "data"
    /\ joined' = [joined EXCEPT ![t] = Join(@, Slice(req[t], next[t], outcome[t].data))]
    /\ next' = [next EXCEPT ![t] = @ + 1]
    /\ Become(t, "reading")
    /\ UNCHANGED <<vars, req, reply, pending, spawnFaults>>

\* The handlers catch RemoteFileError and deny the read; any other exception
\* leaves the handler, and impacket closes the connection.
ErrorAsEof(e) == "ok"    \* faulty variant: an error looks like end of file
ErrorReply(e) == IF e = "RemoteFileError" THEN "denied" ELSE "raised"

ReadRaises(t) ==
    /\ stage[t] = "waiting"
    /\ pc[t] = "idle"
    /\ outcome[t].kind \in Errors
    /\ Finish(t, ErrorReply(outcome[t].kind), <<>>)
    /\ UNCHANGED <<vars, req, pending, spawnFaults>>

\* read() asserts that it has the clipped length; at end of file it returned early.
ReadDone(t) ==
    /\ stage[t] = "reading"
    /\ ~MoreChunks(t)
    /\ IF AtEof(req[t]) \/ Len(joined[t]) = Length(req[t])
         THEN /\ Become(t, "prefetch")
              /\ next' = [next EXCEPT ![t] = PrefetchFrom(req[t])]
              /\ UNCHANGED <<joined, reply>>
         ELSE Finish(t, "raised", <<>>)
    /\ UNCHANGED <<vars, req, pending, spawnFaults>>

\* SMB_COM_READ, unlike READ_ANDX and SMB2 READ, does not read ahead.
MorePrefetch(t) == req[t].readAhead /\ next[t] < PrefetchFrom(req[t]) + PrefetchCount
Advance(t) == next' = [next EXCEPT ![t] = @ + 1]

\* prefetch(i), for i * chunk_size inside the file: skip a chunk that is cached ...
PrefetchableAnywhere(k) == k \notin present    \* faulty variant
Prefetchable(k) == InFile(k) /\ k \notin present

PrefetchCheck(t) ==
    /\ stage[t] = "prefetch"
    /\ MorePrefetch(t)
    /\ IF Prefetchable(ChunkOf(t))
         THEN Become(t, "claim") /\ UNCHANGED next
         ELSE Advance(t) /\ UNCHANGED stage
    /\ UNCHANGED <<vars, req, joined, reply, pending, spawnFaults>>

\* ... or already being prefetched, else add it to the pending set ...
NeverPending(k) == FALSE    \* faulty variant
Pending(k) == k \in pending

Claim(t) ==
    /\ stage[t] = "claim"
    /\ IF Pending(ChunkOf(t))
         THEN Advance(t) /\ Become(t, "prefetch") /\ UNCHANGED pending
         ELSE /\ pending' = pending \cup {ChunkOf(t)}
              /\ Become(t, "spawn")
              /\ UNCHANGED next
    /\ UNCHANGED <<vars, req, joined, reply, spawnFaults>>

\* ... and start its worker, which calls the cache at once.
Spawn(t, w) ==
    /\ stage[t] = "spawn"
    /\ stage[w] = "idle"
    /\ Call(w, ChunkOf(t))
    /\ stage' = [stage EXCEPT ![t] = "prefetch", ![w] = "fetching"]
    /\ Advance(t)
    /\ UNCHANGED <<req, joined, reply, pending, spawnFaults>>

\* Thread.start raised RuntimeError: it leaves prefetch, and the handler.
SpawnFails(t) ==
    /\ stage[t] = "spawn"
    /\ spawnFaults < SpawnFaults
    /\ spawnFaults' = spawnFaults + 1
    /\ Finish(t, "raised", <<>>)
    /\ UNCHANGED <<vars, req, pending>>

Reply(t) ==
    /\ stage[t] = "prefetch"
    /\ ~MorePrefetch(t)
    /\ Finish(t, "ok", joined[t])
    /\ UNCHANGED <<vars, req, pending, spawnFaults>>

\* worker(): whatever get_or_download did, the chunk is no longer pending.
WorkerDone(w) ==
    /\ stage[w] = "fetching"
    /\ pc[w] = "idle"
    /\ pending' = pending \ {key[w]}
    /\ Become(w, "idle")
    /\ UNCHANGED <<vars, req, next, joined, reply, spawnFaults>>

-----------------------------------------------------------------------------
(* _fetch_range: an HTTP range request for a chunk, and what came of it.    *)

Whole(k) == [status |-> 206, body |-> Chunk(k)]

\* A short body, a host that ignores Range, one that refuses it, a busy one.
BadResponses(k) ==
    {[status |-> 206, body |-> Tail(Chunk(k))],
     [status |-> 200, body |-> Bytes(k[1], 0, FileSize[k[1]])],
     [status |-> 416, body |-> <<>>],
     [status |-> 503, body |-> <<>>]}

Receive(t, resp) ==
    IF resp.status = 206 /\ Len(resp.body) = ChunkLen(key[t])
      THEN FetchReturns(t, resp.body)
      ELSE FetchRaises(t, "RemoteFileError")

FetchRange(t) ==
    \/ Receive(t, Whole(key[t])) /\ UNCHANGED faults
    \/ /\ Fault("fetch")
       /\ \/ \E resp \in BadResponses(key[t]) : Receive(t, resp)
          \/ FetchRaises(t, "RequestException")

-----------------------------------------------------------------------------

RemoteInit ==
    /\ stage = [t \in Threads |-> "idle"]
    /\ req = [t \in Clients |-> CHOOSE r \in Requests : TRUE]
    /\ next = [t \in Clients |-> 0]
    /\ joined = [t \in Clients |-> <<>>]
    /\ reply = [t \in Clients |-> NoReply]
    /\ pending = {}

\* A crash takes the RemoteFile objects and the handlers with it.
Crash ==
    /\ Kill \/ PowerLoss
    /\ stage' = [t \in Threads |-> "idle"]
    /\ joined' = [t \in Clients |-> <<>>]
    /\ next' = [t \in Clients |-> 0]
    /\ reply' = [t \in Clients |-> NoReply]
    /\ pending' = {}
    /\ UNCHANGED <<req, spawnFaults>>

CacheStep(t) == (LocalStep(t) \/ FetchRange(t)) /\ UNCHANGED remoteVars

HandlerStep(t) ==
    \/ AskChunk(t) \/ TakeChunk(t) \/ ReadRaises(t) \/ ReadDone(t)
    \/ PrefetchCheck(t) \/ Claim(t) \/ Reply(t)
    \/ \E w \in Workers : Spawn(t, w)
    \/ SpawnFails(t)

InitR == Init /\ RemoteInit /\ spawnFaults = 0

NextR ==
    \/ \E t \in Clients : (\E r \in Requests : Read(t, r)) \/ HandlerStep(t)
    \/ \E w \in Workers : WorkerDone(w)
    \/ \E t \in Threads : CacheStep(t)
    \/ (\E k \in Keys : DeleteFile(k)) /\ UNCHANGED remoteVars
    \/ (\E size \in ChunkSizes : Start(size)) /\ UNCHANGED remoteVars
    \/ Crash

SpecR == InitR /\ [][NextR]_allVars

FairnessR ==
    /\ \A t \in Threads :
        /\ WF_allVars(LocalStep(t) /\ UNCHANGED remoteVars)
        /\ WF_allVars(key[t] \notin SlowKeys /\ FetchRange(t) /\ UNCHANGED remoteVars)
    /\ \A t \in Clients : WF_allVars(HandlerStep(t))
    /\ \A w \in Workers : WF_allVars(WorkerDone(w))

FairSpecR == SpecR /\ FairnessR

-----------------------------------------------------------------------------
(* Properties.                                                              *)

TypeOKR ==
    /\ stage \in [Threads -> {"idle", "reading", "waiting", "prefetch", "claim",
                              "spawn", "fetching"}]
    /\ req \in [Clients -> Requests]
    /\ next \in [Clients -> Nat]
    /\ joined \in [Clients -> Seq(Files \X Nat)]
    /\ reply \in [Clients -> [kind : {"none", "ok", "denied", "raised"},
                              data : Seq(Files \X Nat)]]
    /\ pending \subseteq Keys
    /\ spawnFaults \in 0 .. SpawnFaults

\* A successful read returns exactly the bytes of the remote file at the
\* requested offset, clipped at its end, however the chunks were obtained.
ReadsExact ==
    \A t \in Clients : reply[t].kind = "ok" => reply[t].data = Wanted(req[t])

\* No chunk at or beyond the end of the file is ever asked for, so that no HTTP
\* range starts there (the host would refuse it with 416).
RangesInsideFile ==
    \A t \in Threads : pc[t] # "idle" => InFile(key[t])

\* A chunk is downloaded only if the read in progress lies in it, a read of no
\* bytes included, or as read-ahead (README: "only touched chunks are ever
\* downloaded").
Touches(r, k) ==
    k[1] = r.file /\ ChunkStart(k) < EndOf(r) /\ r.offset < ChunkEnd(k)

OnlyTouchedChunks ==
    \A t \in Threads : pc[t] = "fetch" =>
        \/ t \in Workers /\ key[t] \in pending
        \/ t \in Clients /\ Touches(req[t], key[t])

\* The pending set is exactly the chunks some thread is prefetching, each by
\* one thread: no chunk is prefetched twice and none is skipped for ever.
Prefetching(t) == IF t \in Workers
                    THEN IF stage[t] = "fetching" THEN {key[t]} ELSE {}
                    ELSE IF stage[t] = "spawn" THEN {ChunkOf(t)} ELSE {}

PendingIsLive ==
    /\ pending = UNION {Prefetching(t) : t \in Threads}
    /\ \A s, t \in Threads : s # t => Prefetching(s) \cap Prefetching(t) = {}

\* Every read is answered (or the process dies), although the transfers of
\* chunks the client did not ask for may hang.
ReadsReturn ==
    \A t \in Clients : (stage[t] # "idle" /\ ~(stage[t] = "waiting" /\ key[t] \in SlowKeys))
        ~> (stage[t] = "idle" \/ (stage[t] = "waiting" /\ key[t] \in SlowKeys))

-----------------------------------------------------------------------------
(* The invariant the proofs of module RemoteFileProofs rest on.             *)

\* Handlers and workers live in a running process; a client calls the cache only
\* for the chunk its loop is at, and a worker only for the one it was started for.
HandlersLive ==
    /\ \A t \in Threads : stage[t] # "idle" => up
    /\ \A t \in Clients :
         /\ stage[t] # "fetching"
         /\ pc[t] # "idle" => stage[t] = "waiting"
         /\ stage[t] \in {"reading", "waiting"} => FirstIndex(req[t]) <= next[t]
         /\ stage[t] = "waiting" => key[t] = ChunkOf(t) /\ MoreChunks(t)
         /\ stage[t] \in {"claim", "spawn"} => InFile(ChunkOf(t))
    /\ \A w \in Workers :
         /\ stage[w] \in {"idle", "fetching"}
         /\ pc[w] # "idle" => stage[w] = "fetching"

\* What is being prefetched is pending, by one thread each; nothing else is
\* pending as long as every worker could be started.
PendingClaims ==
    /\ \A t \in Threads : Prefetching(t) \subseteq pending
    /\ \A s, t \in Threads : s # t => Prefetching(s) \cap Prefetching(t) = {}
    /\ SpawnFaults = 0 => \A k \in pending : \E t \in Threads : k \in Prefetching(t)

\* A client has joined the bytes from its offset up to the chunk it is at.
Reached(r, i) ==
    LET cstart == i * chunkSize
    IN  IF cstart <= r.offset THEN r.offset ELSE Min2(EndOf(r), cstart)

JoinedSoFar(r, i) ==
    IF AtEof(r) THEN <<>> ELSE Bytes(r.file, r.offset, Reached(r, i))

JoinedBy(t) ==
    /\ stage[t] \in {"reading", "waiting"} => joined[t] = JoinedSoFar(req[t], next[t])
    /\ stage[t] \in {"prefetch", "claim", "spawn"} => joined[t] = Wanted(req[t])
    /\ reply[t].kind = "ok" => reply[t].data = Wanted(req[t])

ReadsJoined == \A t \in Clients : JoinedBy(t)

RemoteInv ==
    /\ CacheInv /\ TypeOKR /\ HandlersLive /\ PendingClaims
    /\ FixedChunkSize => ReadsJoined

-----------------------------------------------------------------------------
(* Seen from its clients the whole stack is a store again: the abstract     *)
(* store of module ChunkStore, with the reads clients make as its keys and  *)
(* the bytes of the remote file as their contents.  What is cached is below *)
(* this level of detail.                                                    *)

Reads == INSTANCE ChunkStore WITH
    Callers <- Clients,
    Keys <- Requests,
    Contents <- [r \in Requests |-> Wanted(r)],
    files <- {},
    asked <- [t \in Clients |-> IF stage[t] = "idle" THEN {} ELSE {req[t]}],
    answer <- [t \in Clients |->
                 CASE reply[t].kind = "none" -> NoOutcome
                   [] reply[t].kind = "ok" -> Returned(reply[t].data)
                   [] OTHER -> Raised("error")]

\* A read is answered once, with exactly the bytes of the remote file or with an
\* error, whatever hosts, disks, other threads and crashes do below it.
ImplementsReads == Reads!Spec
=============================================================================
