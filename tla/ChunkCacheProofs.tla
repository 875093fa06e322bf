--------------------------- MODULE ChunkCacheProofs ---------------------------
(***************************************************************************)
(* Proofs about the chunk cache, for any threads, files, sizes and faults.  *)
(***************************************************************************)
EXTENDS ChunkCache, FiniteSetTheorems, TLAPS

-----------------------------------------------------------------------------
(* Chunks and bytes.                                                        *)

\* A key is a file and an index.
LEMMA KeyType ==
    ASSUME NEW k \in Keys
    PROVE  k[1] \in Files /\ k[2] \in Nat /\ FileSize[k[1]] \in Nat \ {0}
  BY FileSizeAssumption DEF Keys

\* A run of bytes is a sequence of bytes, of the length of the run.
LEMMA BytesType ==
    ASSUME NEW f \in Files, NEW lo \in Nat, NEW hi \in Nat
    PROVE  /\ Bytes(f, lo, hi) \in Seq(Files \X Nat)
           /\ lo <= hi => Len(Bytes(f, lo, hi)) = hi - lo
  <1> DEFINE n == IF lo <= hi THEN hi - lo ELSE 0
  <1>1. n \in Nat /\ 1 .. (hi - lo) = 1 .. n
    OBVIOUS
  <1>2. Bytes(f, lo, hi) \in [1 .. n -> Files \X Nat]
    BY <1>1 DEF Bytes
  <1>3. QED
    BY <1>1, <1>2

\* A chunk inside its file has the length the cache expects, and is not empty.
LEMMA ChunkLength ==
    ASSUME NEW k \in Keys, chunkSize \in ChunkSizes, InFile(k)
    PROVE  /\ Chunk(k) \in Seq(Files \X Nat)
           /\ Len(Chunk(k)) = ChunkLen(k)
           /\ ChunkLen(k) \in Nat \ {0}
  <1>1. k[1] \in Files /\ k[2] \in Nat /\ FileSize[k[1]] \in Nat \ {0}
    BY KeyType
  <1>2. chunkSize \in Nat \ {0}
    BY ChunkSizesAssumption
  <1>3. ChunkStart(k) \in Nat
    BY <1>1, <1>2 DEF ChunkStart
  <1>4. ChunkLen(k) \in Nat \ {0}
    BY <1>1, <1>2, <1>3 DEF ChunkLen, InFile, Min2
  <1> DEFINE end == Min2(ChunkStart(k) + chunkSize, FileSize[k[1]])
  <1>5. end \in Nat /\ ChunkStart(k) <= end /\ end - ChunkStart(k) = ChunkLen(k)
    BY <1>1, <1>2, <1>3 DEF ChunkLen, InFile, Min2
  <1>6. Chunk(k) = Bytes(k[1], ChunkStart(k), end)
    BY DEF Chunk, ChunkOfSize, ChunkStart
  <1>7. /\ Bytes(k[1], ChunkStart(k), end) \in Seq(Files \X Nat)
        /\ Len(Bytes(k[1], ChunkStart(k), end)) = end - ChunkStart(k)
    <2> HIDE DEF end
    <2>1. QED
      BY <1>1, <1>3, <1>5, BytesType, Zenon
  <1>8. QED
    BY <1>4, <1>5, <1>6, <1>7

\* A chunk cut short by a byte is shorter.
LEMMA TailShorter ==
    ASSUME NEW k \in Keys, chunkSize \in ChunkSizes, InFile(k)
    PROVE  /\ Tail(Chunk(k)) \in Seq(Files \X Nat)
           /\ Len(Tail(Chunk(k))) # ChunkLen(k)
  BY ChunkLength

-----------------------------------------------------------------------------
(* Types and locks.                                                         *)

\* The records the actions build are files, outcomes and counters.
LEMMA RecordTypes ==
    /\ NoFile \in FileStates /\ Torn \in FileStates
    /\ NoOutcome \in Outcomes /\ <<>> \in Seq(Files \X Nat)
    /\ \A e \in Errors : Raised(e) \in Outcomes
    /\ \A data \in Seq(Files \X Nat) :
          /\ Returned(data) \in Outcomes
          /\ [state |-> "synced", data |-> data] \in FileStates
    /\ \A file \in FileStates : AfterPowerLoss(file) \in FileStates
  BY DEF NoFile, Torn, NoOutcome, Raised, Returned, FileStates, Outcomes, AfterPowerLoss

\* A fault is counted.
LEMMA FaultType ==
    ASSUME faults \in [FaultKinds -> Nat], NEW kind \in FaultKinds, Fault(kind)
    PROVE  faults' \in [FaultKinds -> Nat]
  BY DEF Fault

LEMMA InitControl == Init => ControlInv
  <1> SUFFICES ASSUME Init PROVE ControlInv
    OBVIOUS
  <1>1. \E k \in Keys : TRUE
    <2>1. PICK f \in Files : TRUE
      BY FilesAssumption
    <2>2. FileSize[f] \in Nat \ {0}
      BY FileSizeAssumption
    <2>3. <<f, 0>> \in {f} \X (0 .. FileSize[f] - 1)
      BY <2>2
    <2>4. QED
      BY <2>3 DEF Keys
  <1>2. TypeOK
    BY <1>1, RecordTypes DEF Init, TypeOK, Labels
  <1>3. CallsInFile /\ LocksHeld /\ AnsweredOnce
    BY DEF Init, CallsInFile, LocksHeld, Storing, AnsweredOnce
  <1>4. QED
    BY <1>2, <1>3 DEF ControlInv

\* Every step of the cache keeps the types.
LEMMA StepKeepsTypes ==
    ASSUME TypeOK, CallsInFile, [Next]_vars
    PROVE  TypeOK'
  <1> USE DEF TypeOK, Labels
  <1>1. ASSUME NEW t \in Threads, NEW k \in Keys, Call(t, k)
        PROVE  TypeOK'
    BY <1>1, RecordTypes DEF Call, Goto, Return
  <1>2. ASSUME NEW t \in Threads, HasChunk(t)
        PROVE  TypeOK'
    BY <1>2 DEF HasChunk, ReadMissed, Goto
  <1>3. ASSUME NEW t \in Threads, ReadFile(t)
        PROVE  TypeOK'
    <2>1. disk[key[t]].data \in Seq(Files \X Nat)
      BY DEF FileStates
    <2>2. Returned(disk[key[t]].data) \in Outcomes
      BY <2>1, RecordTypes
    <2>3. QED
      BY <1>3, <2>2 DEF ReadFile, Goto, Return
  <1>4. ASSUME NEW t \in Threads, ReadFails(t)
        PROVE  TypeOK'
    <2>1. faults' \in [FaultKinds -> Nat]
      BY <1>4, FaultType DEF ReadFails, FaultKinds
    <2>2. QED
      BY <1>4, <2>1 DEF ReadFails, Goto
  <1>5. ASSUME NEW t \in Threads, Discard(t)
        PROVE  TypeOK'
    BY <1>5 DEF Discard, ReadMissed, Goto
  <1>6. ASSUME NEW t \in Threads, Acquire(t)
        PROVE  TypeOK'
    BY <1>6 DEF Acquire, Goto
  <1>7. ASSUME NEW t \in Threads, Download(t)
        PROVE  TypeOK'
    <2>1. InFile(key[t])
      BY <1>7 DEF Download, FetchReturns, Accepts, FetchRaises, CallsInFile
    <2>2. /\ Chunk(key[t]) \in Seq(Files \X Nat)
          /\ Tail(Chunk(key[t])) \in Seq(Files \X Nat)
      BY <2>1, ChunkLength, TailShorter
    <2>3. faults' \in [FaultKinds -> Nat]
      BY <1>7, FaultType DEF Download, FaultKinds
    <2>4. ASSUME NEW data \in Seq(Files \X Nat), FetchReturns(t, data)
          PROVE  TypeOK'
      BY <2>3, <2>4, RecordTypes DEF FetchReturns, Accepts, Goto, Return, Errors
    <2>5. ASSUME NEW e \in Errors, FetchRaises(t, e)
          PROVE  TypeOK'
      BY <2>3, <2>5, RecordTypes DEF FetchRaises, Goto, Return
    <2>6. QED
      BY <1>7, <2>2, <2>4, <2>5 DEF Download, Errors
  <1>8. ASSUME NEW t \in Threads, OpenTmp(t)
        PROVE  TypeOK'
    BY <1>8, RecordTypes DEF OpenTmp, Goto
  <1>9. ASSUME NEW t \in Threads, WriteAndSync(t)
        PROVE  TypeOK'
    <2>1. [state |-> "synced", data |-> body[t]] \in FileStates
      BY RecordTypes
    <2>2. QED
      BY <1>9, <2>1 DEF WriteAndSync, Synced, Goto
  <1>10. ASSUME NEW t \in Threads, Replace(t)
         PROVE  TypeOK'
    BY <1>10, RecordTypes DEF Replace, Goto
  <1>11. ASSUME NEW t \in Threads, StoreFails(t)
         PROVE  TypeOK'
    <2>1. faults' \in [FaultKinds -> Nat]
      BY <1>11, FaultType DEF StoreFails, FaultKinds
    <2>2. QED
      BY <1>11, <2>1, RecordTypes DEF StoreFails, Goto, Return, Errors
  <1>12. ASSUME NEW t \in Threads, Mark(t)
         PROVE  TypeOK'
    <2>1. Returned(body[t]) \in Outcomes
      BY RecordTypes
    <2>2. QED
      BY <1>12, <2>1 DEF Mark, Goto, Return
  <1>13. ASSUME NEW t \in Threads, Release(t)
         PROVE  TypeOK'
    BY <1>13 DEF Release, Unlock, Goto
  <1>14. ASSUME NEW k \in Keys, DeleteFile(k)
         PROVE  TypeOK'
    <2>1. faults' \in [FaultKinds -> Nat]
      BY <1>14, FaultType DEF DeleteFile, FaultKinds
    <2>2. QED
      BY <1>14, <2>1, RecordTypes DEF DeleteFile
  <1>15. ASSUME Kill
         PROVE  TypeOK'
    <2>1. faults' \in [FaultKinds -> Nat]
      BY <1>15, FaultType DEF Kill, FaultKinds
    <2>2. QED
      BY <1>15, <2>1, RecordTypes DEF Kill, ForgetProcess
  <1>16. ASSUME PowerLoss
         PROVE  TypeOK'
    <2>1. faults' \in [FaultKinds -> Nat]
      BY <1>16, FaultType DEF PowerLoss, FaultKinds
    <2>2. disk' \in [Keys -> FileStates] /\ tmp' \in [Keys -> FileStates]
      BY <1>16, RecordTypes DEF PowerLoss
    <2>3. QED
      BY <1>16, <2>1, <2>2, RecordTypes DEF PowerLoss, ForgetProcess
  <1>17. ASSUME NEW size \in ChunkSizes, Start(size)
         PROVE  TypeOK'
    BY <1>17 DEF Start, Scan
  <1>18. CASE UNCHANGED vars
    BY <1>18 DEF vars
  <1>19. QED
    BY <1>1, <1>2, <1>3, <1>4, <1>5, <1>6, <1>7, <1>8, <1>9, <1>10, <1>11, <1>12,
       <1>13, <1>14, <1>15, <1>16, <1>17, <1>18
    DEF Next, LocalStep, Environment

\* Every step of the cache keeps its calls inside the file.
LEMMA StepKeepsCalls ==
    ASSUME TypeOK, CallsInFile, [Next]_vars
    PROVE  CallsInFile'
  <1> USE DEF CallsInFile, InFile, ChunkStart
  <1>1. ASSUME NEW t \in Threads, NEW k \in Keys, InFile(k), Call(t, k)
        PROVE  CallsInFile'
    BY <1>1 DEF Call, Goto, TypeOK
  <1>2. ASSUME NEW t \in Threads, LocalStep(t) \/ Download(t)
        PROVE  CallsInFile'
    <2>1. pc[t] # "idle" /\ UNCHANGED <<up, chunkSize, key>>
      BY <1>2 DEF LocalStep, Download, HasChunk, ReadFile, ReadFails, Discard, Acquire,
         FetchReturns, Accepts, FetchRaises, OpenTmp, WriteAndSync, Synced, Replace, StoreFails, Mark,
         Release, Unlock
    <2>2. \E label : pc' = [pc EXCEPT ![t] = label]
      BY <1>2 DEF LocalStep, Download, HasChunk, ReadFile, ReadFails, Discard, Acquire,
         FetchReturns, Accepts, FetchRaises, OpenTmp, WriteAndSync, Synced, Replace, StoreFails, Mark,
         Release, Unlock,
         ReadMissed, Goto
    <2>3. QED
      BY <2>1, <2>2 DEF TypeOK
  <1>3. ASSUME NEW k \in Keys, DeleteFile(k)
        PROVE  CallsInFile'
    BY <1>3 DEF DeleteFile
  <1>4. ASSUME Kill \/ PowerLoss
        PROVE  CallsInFile'
    BY <1>4 DEF Kill, PowerLoss, ForgetProcess
  <1>5. ASSUME NEW size \in ChunkSizes, Start(size)
        PROVE  CallsInFile'
    BY <1>5 DEF Start
  <1>6. CASE UNCHANGED vars
    BY <1>6 DEF vars
  <1>7. QED
    BY <1>1, <1>2, <1>3, <1>4, <1>5, <1>6 DEF Next, Environment

\* Every step of the cache keeps the lock discipline.
LEMMA StepKeepsLocks ==
    ASSUME TypeOK, LocksHeld, [Next]_vars
    PROVE  LocksHeld'
  <1> USE DEF LocksHeld, Storing, Holds
  <1>1. ASSUME NEW t \in Threads, NEW k \in Keys, Call(t, k)
        PROVE  LocksHeld'
    BY <1>1 DEF Call, Goto, TypeOK
  <1>2. ASSUME NEW t \in Threads, HasChunk(t)
        PROVE  LocksHeld'
    BY <1>2 DEF HasChunk, ReadMissed, Goto, TypeOK
  <1>3. ASSUME NEW t \in Threads, ReadFile(t)
        PROVE  LocksHeld'
    BY <1>3 DEF ReadFile, Goto, TypeOK
  <1>4. ASSUME NEW t \in Threads, ReadFails(t)
        PROVE  LocksHeld'
    BY <1>4 DEF ReadFails, Goto, TypeOK
  <1>5. ASSUME NEW t \in Threads, Discard(t)
        PROVE  LocksHeld'
    BY <1>5 DEF Discard, ReadMissed, Goto, TypeOK
  <1>6. ASSUME NEW t \in Threads, Acquire(t)
        PROVE  LocksHeld'
    <2>1. lock[key[t]] = {} /\ key[t] \in Keys
      BY <1>6 DEF Acquire, Blocked, TypeOK
    <2>2. lock' = [lock EXCEPT ![key[t]] = {t}]
      BY <1>6, <2>1 DEF Acquire
    <2>3. QED
      BY <1>6, <2>1, <2>2 DEF Acquire, Goto, TypeOK
  <1>7. ASSUME NEW t \in Threads, Download(t)
        PROVE  LocksHeld'
    <2>1. pc[t] = "fetch" /\ UNCHANGED <<lock, key>>
      BY <1>7 DEF Download, FetchReturns, Accepts, FetchRaises
    <2>2. \E label \in {"open", "release"} : pc' = [pc EXCEPT ![t] = label]
      BY <1>7 DEF Download, FetchReturns, Accepts, FetchRaises, Goto
    <2>3. QED
      BY <2>1, <2>2 DEF TypeOK
  <1>8. ASSUME NEW t \in Threads,
               OpenTmp(t) \/ WriteAndSync(t) \/ Replace(t) \/ StoreFails(t) \/ Mark(t)
        PROVE  LocksHeld'
    <2>1. Storing(t) /\ UNCHANGED <<lock, key>>
      BY <1>8 DEF OpenTmp, WriteAndSync, Synced, Replace, StoreFails, Mark
    <2>2. \E label \in {"write", "replace", "mark", "release"} : pc' = [pc EXCEPT ![t] = label]
      BY <1>8 DEF OpenTmp, WriteAndSync, Synced, Replace, StoreFails, Mark, Goto
    <2>3. QED
      BY <2>1, <2>2 DEF TypeOK
  <1>9. ASSUME NEW t \in Threads, Release(t)
        PROVE  LocksHeld'
    <2>1. lock[key[t]] = {t} /\ key[t] \in Keys
      BY <1>9 DEF Release, Unlock, TypeOK
    <2>2. lock' = [lock EXCEPT ![key[t]] = {}]
      BY <1>9, <2>1 DEF Release, Unlock
    <2>3. QED
      BY <1>9, <2>1, <2>2 DEF Release, Unlock, Goto, TypeOK
  <1>10. ASSUME NEW k \in Keys, DeleteFile(k)
         PROVE  LocksHeld'
    BY <1>10 DEF DeleteFile
  <1>11. ASSUME Kill \/ PowerLoss
         PROVE  LocksHeld'
    BY <1>11 DEF Kill, PowerLoss, ForgetProcess
  <1>12. ASSUME NEW size \in ChunkSizes, Start(size)
         PROVE  LocksHeld'
    BY <1>12 DEF Start
  <1>13. CASE UNCHANGED vars
    BY <1>13 DEF vars
  <1>14. QED
    BY <1>1, <1>2, <1>3, <1>4, <1>5, <1>6, <1>7, <1>8, <1>9, <1>10, <1>11, <1>12, <1>13
    DEF Next, LocalStep, Environment

\* A step of one thread that gives its call no outcome, or the one it leaves with.
LEMMA ThreadAnswers ==
    ASSUME TypeOK, AnsweredOnce, NEW t \in Threads, pc[t] \notin {"idle", "release"},
           \/ /\ UNCHANGED outcome
              /\ \E label : label # "release" /\ pc' = [pc EXCEPT ![t] = label]
           \/ \E value, label :
                /\ value.kind # "none" /\ outcome' = [outcome EXCEPT ![t] = value]
                /\ label \in {"release", "idle"} /\ pc' = [pc EXCEPT ![t] = label]
    PROVE  AnsweredOnce'
  BY DEF AnsweredOnce, TypeOK

\* Every step of the cache answers no call twice.
LEMMA StepKeepsAnswers ==
    ASSUME TypeOK, AnsweredOnce, [Next]_vars
    PROVE  AnsweredOnce'
  <1>1. ASSUME NEW t \in Threads, NEW k \in Keys, Call(t, k)
        PROVE  AnsweredOnce'
    BY <1>1 DEF Call, Goto, Return, NoOutcome, AnsweredOnce, TypeOK
  <1>2. ASSUME NEW t \in Threads,
               \/ HasChunk(t) \/ ReadFails(t) \/ Discard(t) \/ Acquire(t) \/ OpenTmp(t)
               \/ WriteAndSync(t) \/ Replace(t)
        PROVE  AnsweredOnce'
    <2>1. /\ UNCHANGED outcome /\ pc[t] \notin {"idle", "release"}
          /\ \E label : label # "release" /\ pc' = [pc EXCEPT ![t] = label]
      BY <1>2 DEF HasChunk, ReadMissed, ReadFails, Discard, Acquire, OpenTmp, WriteAndSync,
         Synced, Replace, Goto
    <2>2. QED
      BY <2>1, ThreadAnswers
  <1>3. ASSUME NEW t \in Threads, ReadFile(t) \/ Mark(t) \/ StoreFails(t)
        PROVE  AnsweredOnce'
    <2>1. /\ pc[t] \notin {"idle", "release"}
          /\ \E value, label :
                /\ value.kind # "none" /\ outcome' = [outcome EXCEPT ![t] = value]
                /\ label \in {"release", "idle"} /\ pc' = [pc EXCEPT ![t] = label]
      BY <1>3, ZenonT(40) DEF ReadFile, Mark, StoreFails, Goto, Return, Returned, Raised
    <2>2. QED
      BY <2>1, ThreadAnswers
  <1>4. ASSUME NEW t \in Threads, NEW data, FetchReturns(t, data)
        PROVE  AnsweredOnce'
    <2>1. /\ pc[t] \notin {"idle", "release"}
          /\ \/ UNCHANGED outcome /\ pc' = [pc EXCEPT ![t] = "open"]
             \/ /\ outcome' = [outcome EXCEPT ![t] = Raised("OSError")]
                /\ pc' = [pc EXCEPT ![t] = "release"]
      BY <1>4 DEF FetchReturns, Accepts, Goto, Return
    <2>2. Raised("OSError").kind # "none"
      BY DEF Raised
    <2>3. QED
      BY <2>1, <2>2, ThreadAnswers
  <1>5. ASSUME NEW t \in Threads, NEW e \in Errors, FetchRaises(t, e)
        PROVE  AnsweredOnce'
    <2>1. /\ pc[t] \notin {"idle", "release"} /\ Raised(e).kind # "none"
          /\ outcome' = [outcome EXCEPT ![t] = Raised(e)]
          /\ pc' = [pc EXCEPT ![t] = "release"]
      BY <1>5 DEF FetchRaises, Goto, Return, Raised, Errors
    <2>2. QED
      BY <2>1, ThreadAnswers
  <1>6. ASSUME NEW t \in Threads, Release(t)
        PROVE  AnsweredOnce'
    BY <1>6 DEF Release, Unlock, Goto, AnsweredOnce, TypeOK
  <1>7. ASSUME Kill \/ PowerLoss
        PROVE  AnsweredOnce'
    BY <1>7 DEF Kill, PowerLoss, ForgetProcess, AnsweredOnce
  <1>8. CASE \/ \E k \in Keys : DeleteFile(k)
             \/ \E size \in ChunkSizes : Start(size)
             \/ UNCHANGED vars
    BY <1>8 DEF DeleteFile, Start, vars, AnsweredOnce
  <1>9. QED
    BY <1>1, <1>2, <1>3, <1>4, <1>5, <1>6, <1>7, <1>8
    DEF Next, LocalStep, Download, Environment, Errors

LEMMA StepKeepsControl == ControlInv /\ [Next]_vars => ControlInv'
  BY StepKeepsTypes, StepKeepsCalls, StepKeepsLocks, StepKeepsAnswers DEF ControlInv

LEMMA ControlAlways == Spec => []ControlInv
  BY InitControl, StepKeepsControl, PTL DEF Spec

\* The state of the cache has its types in every reachable state.
THEOREM TypeCorrect == Spec => []TypeOK
  <1>1. ControlInv => TypeOK
    BY DEF ControlInv
  <1>2. QED
    BY <1>1, ControlAlways, PTL

\* No two threads ever download or store the same chunk at the same time, for
\* any number of threads, files and chunks, and any pattern of failures.
THEOREM OneStorerPerChunk == Spec => []OneStorer
  <1>1. ControlInv => OneStorer
    BY DEF ControlInv, TypeOK, LocksHeld, OneStorer, Holds
  <1>2. QED
    BY <1>1, ControlAlways, PTL

-----------------------------------------------------------------------------
(* The bytes, when every process is started with the same chunk size.       *)

LEMMA InitData == Init => DataInv
  BY DEF Init, DataInv, StoresOwnChunk, DiskSynced, ReturnsOwnBytes, Exists, NoFile, NoOutcome

\* No step changes what the chunks are.
LEMMA ChunksStay ==
    ASSUME FixedChunkSize, TypeOK, TypeOK'
    PROVE  \A k : Chunk(k)' = Chunk(k)
  <1>1. chunkSize' = chunkSize
    BY DEF TypeOK, FixedChunkSize
  <1>2. QED
    BY <1>1 DEF Chunk

\* No step puts other bytes into a body or a temporary file about to be stored.
LEMMA StepKeepsStores ==
    ASSUME FixedChunkSize, ControlInv, TypeOK', DataInv, [Next]_vars
    PROVE  StoresOwnChunk'
  <1> USE DEF StoresOwnChunk
  <1>1. TypeOK /\ StoresOwnChunk
    BY DEF ControlInv, DataInv
  <1>2. \A k : Chunk(k)' = Chunk(k)
    BY <1>1, ChunksStay
  <1>3. \A s, t \in Threads : Storing(s) /\ Storing(t) /\ key[s] = key[t] => s = t
    BY DEF ControlInv, TypeOK, LocksHeld, Holds
  <1>4. ASSUME NEW t \in Threads, NEW k \in Keys, Call(t, k)
        PROVE  StoresOwnChunk'
    BY <1>1, <1>2, <1>4 DEF Call, Goto, TypeOK
  <1>5. ASSUME NEW t \in Threads,
               \/ HasChunk(t) \/ ReadFile(t) \/ ReadFails(t) \/ Discard(t) \/ Acquire(t)
               \/ StoreFails(t) \/ Mark(t)
        PROVE  StoresOwnChunk'
    <2>1. UNCHANGED <<key, body, tmp>>
      BY <1>5 DEF HasChunk, ReadFile, ReadFails, Discard, Acquire, StoreFails, Mark
    <2>2. \E label \in {"read", "fetch", "acquire", "release", "idle", "discard", "check"} :
             pc' = [pc EXCEPT ![t] = label]
      BY <1>5 DEF HasChunk, ReadMissed, ReadFile, ReadFails, Discard, Acquire, StoreFails,
         Mark, Goto
    <2>3. QED
      BY <1>1, <1>2, <2>1, <2>2 DEF TypeOK
  <1>6. ASSUME NEW t \in Threads, Download(t)
        PROVE  StoresOwnChunk'
    <2>1. InFile(key[t]) /\ chunkSize \in ChunkSizes /\ key[t] \in Keys
      BY <1>6 DEF ControlInv, CallsInFile, TypeOK, Download, FetchReturns, Accepts, FetchRaises
    <2>2. Len(Tail(Chunk(key[t]))) # ChunkLen(key[t])
      BY <2>1, TailShorter
    <2>3. CASE FetchReturns(t, Chunk(key[t]))
      <3>1. /\ UNCHANGED <<key, tmp>>
            /\ \/ pc' = [pc EXCEPT ![t] = "open"] /\ body' = [body EXCEPT ![t] = Chunk(key[t])]
               \/ pc' = [pc EXCEPT ![t] = "release"] /\ UNCHANGED body
        BY <2>3 DEF FetchReturns, Accepts, Goto
      <3>2. QED
        BY <1>1, <1>2, <3>1 DEF TypeOK
    <2>4. CASE FetchReturns(t, Tail(Chunk(key[t]))) \/ \E e \in Errors : FetchRaises(t, e)
      <3>1. Goto(t, "release") /\ UNCHANGED <<key, body, tmp>>
        BY <2>2, <2>4 DEF FetchReturns, Accepts, FetchRaises
      <3>2. QED
        BY <1>1, <1>2, <3>1 DEF Goto, TypeOK
    <2>5. QED
      BY <1>6, <2>3, <2>4 DEF Download, Errors
  <1>7. ASSUME NEW t \in Threads, OpenTmp(t)
        PROVE  StoresOwnChunk'
    BY <1>1, <1>2, <1>3, <1>7 DEF OpenTmp, Goto, TypeOK, Storing
  <1>8. ASSUME NEW t \in Threads, WriteAndSync(t)
        PROVE  StoresOwnChunk'
    BY <1>1, <1>2, <1>3, <1>8 DEF WriteAndSync, Synced, Goto, TypeOK, Storing
  <1>9. ASSUME NEW t \in Threads, Replace(t)
        PROVE  StoresOwnChunk'
    BY <1>1, <1>2, <1>3, <1>9 DEF Replace, Goto, TypeOK, Storing
  <1>10. ASSUME NEW t \in Threads, Release(t)
         PROVE  StoresOwnChunk'
    BY <1>1, <1>2, <1>10 DEF Release, Unlock, Goto, TypeOK
  <1>11. ASSUME NEW k \in Keys, DeleteFile(k)
         PROVE  StoresOwnChunk'
    BY <1>1, <1>2, <1>11 DEF DeleteFile
  <1>12. ASSUME Kill \/ PowerLoss
         PROVE  StoresOwnChunk'
    BY <1>12 DEF Kill, PowerLoss, ForgetProcess
  <1>13. ASSUME NEW size \in ChunkSizes, Start(size)
         PROVE  StoresOwnChunk'
    BY <1>1, <1>2, <1>13 DEF Start
  <1>14. CASE UNCHANGED vars
    BY <1>1, <1>2, <1>14 DEF vars
  <1>15. QED
    BY <1>4, <1>5, <1>6, <1>7, <1>8, <1>9, <1>10, <1>11, <1>12, <1>13, <1>14
    DEF Next, LocalStep, Environment

\* A file of a synced disk, by its fields.
LEMMA SyncedFile ==
    ASSUME DiskSynced, NEW k \in Keys, Exists(disk[k])
    PROVE  disk[k].state = "synced" /\ disk[k].data = Chunk(k)
  <1>1. disk[k] = [state |-> "synced", data |-> Chunk(k)]
    BY DEF DiskSynced
  <1>2. QED
    BY <1>1

\* No step leaves anything but whole, synced chunks on disk.
LEMMA StepKeepsDisk ==
    ASSUME FixedChunkSize, ControlInv, TypeOK', DataInv, [Next]_vars
    PROVE  DiskSynced'
  <1> USE DEF DiskSynced
  <1>1. TypeOK /\ DiskSynced /\ StoresOwnChunk
    BY DEF ControlInv, DataInv
  <1>2. \A k : Chunk(k)' = Chunk(k)
    BY <1>1, ChunksStay
  <1>3. ASSUME NEW t \in Threads, Replace(t)
        PROVE  DiskSynced'
    BY <1>1, <1>2, <1>3 DEF Replace, StoresOwnChunk, TypeOK
  <1>4. ASSUME NEW k \in Keys, DeleteFile(k)
        PROVE  DiskSynced'
    BY <1>1, <1>2, <1>4 DEF DeleteFile, TypeOK, Exists, NoFile
  <1>5. ASSUME PowerLoss
        PROVE  DiskSynced'
    <2>1. \A k \in Keys : disk'[k] = NoFile \/ disk'[k] = AfterPowerLoss(disk[k])
      BY <1>5 DEF PowerLoss
    <2>2. \A k \in Keys : AfterPowerLoss(disk[k]) = disk[k]
      BY <1>1, SyncedFile DEF AfterPowerLoss, Exists
    <2>3. QED
      BY <1>1, <1>2, <2>1, <2>2 DEF Exists, NoFile
  <1>6. CASE UNCHANGED disk
    BY <1>1, <1>2, <1>6 DEF Exists
  <1>7. QED
    BY <1>3, <1>4, <1>5, <1>6
    DEF Next, LocalStep, Environment, vars, Call, HasChunk, ReadFile, ReadFails, Discard,
        Acquire, Download, FetchReturns, Accepts, FetchRaises, OpenTmp, WriteAndSync, Synced, StoreFails,
        Mark, Release, Unlock, Kill, Start

\* No step answers a call with other bytes.
LEMMA StepKeepsReturns ==
    ASSUME FixedChunkSize, ControlInv, TypeOK', DataInv, [Next]_vars
    PROVE  ReturnsOwnBytes'
  <1> USE DEF ReturnsOwnBytes
  <1>1. TypeOK /\ DiskSynced /\ StoresOwnChunk /\ ReturnsOwnBytes
    BY DEF ControlInv, DataInv
  <1>2. \A k : Chunk(k)' = Chunk(k)
    BY <1>1, ChunksStay
  <1>3. ASSUME NEW t \in Threads, NEW k \in Keys, Call(t, k)
        PROVE  ReturnsOwnBytes'
    BY <1>1, <1>2, <1>3 DEF Call, Return, NoOutcome, TypeOK
  <1>4. ASSUME NEW t \in Threads, ReadFile(t)
        PROVE  ReturnsOwnBytes'
    BY <1>1, <1>2, <1>4 DEF ReadFile, Return, Returned, DiskSynced, TypeOK
  <1>5. ASSUME NEW t \in Threads, Mark(t)
        PROVE  ReturnsOwnBytes'
    BY <1>1, <1>2, <1>5 DEF Mark, Return, Returned, StoresOwnChunk, TypeOK
  <1>6. ASSUME NEW t \in Threads, NEW e \in Errors, Return(t, Raised(e)), UNCHANGED key
        PROVE  ReturnsOwnBytes'
    BY <1>1, <1>2, <1>6 DEF Return, Raised, Errors, TypeOK
  <1>7. ASSUME Kill \/ PowerLoss
        PROVE  ReturnsOwnBytes'
    BY <1>7 DEF Kill, PowerLoss, ForgetProcess, NoOutcome
  <1>8. CASE UNCHANGED <<outcome, key>>
    BY <1>1, <1>2, <1>8
  <1>9. ASSUME NEW t \in Threads, Download(t) \/ StoreFails(t)
        PROVE  \/ UNCHANGED <<outcome, key>>
               \/ UNCHANGED key /\ \E e \in Errors : Return(t, Raised(e))
    BY <1>9 DEF Download, FetchReturns, Accepts, FetchRaises, StoreFails, Errors
  <1>10. ASSUME NEW t \in Threads,
                \/ HasChunk(t) \/ ReadFails(t) \/ Discard(t) \/ Acquire(t) \/ OpenTmp(t)
                \/ WriteAndSync(t) \/ Replace(t) \/ Release(t)
         PROVE  UNCHANGED <<outcome, key>>
    BY <1>10 DEF HasChunk, ReadFails, Discard, Acquire, OpenTmp,
         WriteAndSync, Synced, Replace, Release, Unlock
  <1>11. QED
    BY <1>3, <1>4, <1>5, <1>6, <1>7, <1>8, <1>9, <1>10
    DEF Next, LocalStep, Environment, vars, DeleteFile, Start

LEMMA StepKeepsData ==
    FixedChunkSize /\ ControlInv /\ ControlInv' /\ DataInv /\ [Next]_vars => DataInv'
  BY StepKeepsStores, StepKeepsDisk, StepKeepsReturns DEF ControlInv, DataInv

LEMMA DataAlways == ASSUME FixedChunkSize PROVE Spec => []DataInv
  <1>1. ControlInv /\ ControlInv' /\ DataInv /\ [Next]_vars => DataInv'
    BY StepKeepsData
  <1>2. QED
    BY <1>1, InitData, ControlAlways, PTL DEF Spec

\* A chunk file always holds exactly its chunk, whatever crashes, power losses,
\* failed writes and deletions occur, if the chunk size is never changed.
THEOREM FilesComplete == ASSUME FixedChunkSize PROVE Spec => []ChunkFilesComplete
  <1>1. DataInv => ChunkFilesComplete
    BY SyncedFile DEF DataInv, ChunkFilesComplete
  <1>2. QED
    BY <1>1, DataAlways, PTL

\* get_or_download returns the bytes of the chunk asked for or raises, if the
\* chunk size is never changed.
THEOREM ReturnsExact == ASSUME FixedChunkSize PROVE Spec => []ReturnsOwnBytes
  <1>1. DataInv => ReturnsOwnBytes
    BY DEF DataInv
  <1>2. QED
    BY <1>1, DataAlways, PTL

-----------------------------------------------------------------------------
(* Failed calls.                                                            *)

\* Every failed call has a fault to blame.
Blamed == IsFiniteSet(Failed) /\ FailuresCaused

\* A step that fails no further call and forgets no fault.
LEMMA FewerFailures ==
    ASSUME TypeOK, TypeOK', Blamed, Failed' \subseteq Failed,
           \A kind \in FaultKinds : faults[kind] <= faults'[kind]
    PROVE  Blamed'
  <1> DEFINE F == Failed
             G == Failed'
  <1>1. /\ faults["fetch"] \in Nat /\ faults'["fetch"] \in Nat
        /\ faults["store"] \in Nat /\ faults'["store"] \in Nat
        /\ faults["fetch"] <= faults'["fetch"] /\ faults["store"] <= faults'["store"]
    BY DEF TypeOK, FaultKinds
  <1>2. IsFiniteSet(F) /\ Cardinality(F) <= faults["fetch"] + faults["store"]
    BY DEF Blamed, FailuresCaused
  <1>3. G \in SUBSET F
    OBVIOUS
  <1> HIDE DEF F, G
  <1>4. /\ IsFiniteSet(G) /\ Cardinality(G) <= Cardinality(F)
        /\ Cardinality(F) \in Nat /\ Cardinality(G) \in Nat
    BY <1>2, <1>3, FS_Subset, FS_CardinalityType
  <1>5. Cardinality(G) <= faults'["fetch"] + faults'["store"]
    BY <1>1, <1>2, <1>4
  <1>6. QED
    BY <1>4, <1>5 DEF Blamed, FailuresCaused, G

\* A fault that fails one call.
LEMMA OneMoreFailure ==
    ASSUME TypeOK, Blamed, NEW t \in Threads, NEW e \in Errors,
           NEW kind \in {"fetch", "store"}, Fault(kind), Return(t, Raised(e))
    PROVE  Blamed'
  <1> DEFINE F == Failed
             G == Failed'
  <1>1. G = F \cup {t}
    BY DEF TypeOK, Failed, Return, Raised
  <1>2. IsFiniteSet(F) /\ Cardinality(F) <= faults["fetch"] + faults["store"]
    BY DEF Blamed, FailuresCaused
  <1>3. /\ faults["fetch"] \in Nat /\ faults["store"] \in Nat
        /\ faults'["fetch"] + faults'["store"] = faults["fetch"] + faults["store"] + 1
    BY DEF TypeOK, Fault, FaultKinds
  <1> HIDE DEF F, G
  <1>4. IsFiniteSet(G) /\ Cardinality(G) <= Cardinality(F) + 1
    <2>1. IsFiniteSet(F) /\ Cardinality(F) \in Nat
      BY <1>2, FS_CardinalityType
    <2>2. /\ IsFiniteSet(F \cup {t})
          /\ \/ Cardinality(F \cup {t}) = Cardinality(F)
             \/ Cardinality(F \cup {t}) = Cardinality(F) + 1
      BY ONLY <2>1, FS_AddElement
    <2>3. QED
      BY ONLY <1>1, <2>1, <2>2
  <1>5. Cardinality(F) \in Nat /\ Cardinality(G) \in Nat
    BY <1>2, <1>4, FS_CardinalityType
  <1>6. Cardinality(G) <= faults'["fetch"] + faults'["store"]
    BY <1>2, <1>3, <1>4, <1>5
  <1>7. QED
    BY <1>4, <1>6 DEF Blamed, FailuresCaused, G

\* A step that gives no call an error.
LEMMA NoFurtherFailure ==
    ASSUME \A t \in Threads : outcome'[t].kind \in Errors => outcome'[t] = outcome[t]
    PROVE  Failed' \subseteq Failed
  BY DEF Failed

LEMMA FaultsCount ==
    ASSUME TypeOK, NEW kind, Fault(kind)
    PROVE  \A other \in FaultKinds : faults[other] <= faults'[other]
  BY DEF TypeOK, Fault

LEMMA StepKeepsBlame ==
    ASSUME ControlInv, ControlInv', Blamed, [Next]_vars
    PROVE  Blamed'
  <1>0. TypeOK /\ TypeOK' /\ CallsInFile /\ \A kind \in FaultKinds : faults[kind] \in Nat
    BY DEF ControlInv, TypeOK
  <1> DEFINE Harmless == /\ \A t \in Threads :
                              outcome'[t].kind \in Errors => outcome'[t] = outcome[t]
                         /\ \A kind \in FaultKinds : faults[kind] <= faults'[kind]
  <1>1. Harmless => Blamed'
    BY <1>0, NoFurtherFailure, FewerFailures
  <1>2. ASSUME NEW t \in Threads,
               \/ \E k \in Keys : Call(t, k)
               \/ HasChunk(t) \/ ReadFile(t) \/ Discard(t) \/ Acquire(t)
               \/ OpenTmp(t) \/ WriteAndSync(t) \/ Replace(t) \/ Mark(t) \/ Release(t)
        PROVE  Harmless
    <2>1. UNCHANGED faults
      BY <1>2 DEF Call, HasChunk, ReadFile, Discard, Acquire, OpenTmp, WriteAndSync,
           Replace, Mark, Release
    <2>2. \/ UNCHANGED outcome
          \/ Return(t, NoOutcome)
          \/ \E data : Return(t, Returned(data))
      BY <1>2, ZenonT(40) DEF Call, HasChunk, ReadFile, Discard, Acquire, OpenTmp, WriteAndSync,
           Replace, Mark, Release
    <2>3. NoOutcome.kind \notin Errors /\ \A data : Returned(data).kind \notin Errors
      BY DEF NoOutcome, Returned, Errors
    <2>4. \A s \in Threads : outcome'[s].kind \in Errors => outcome'[s] = outcome[s]
      BY <1>0, <2>2, <2>3 DEF Return, TypeOK
    <2>5. QED
      BY <1>0, <2>1, <2>4
  <1>3. ASSUME NEW t \in Threads, ReadFails(t)
        PROVE  Harmless
    <2>1. UNCHANGED outcome /\ (UNCHANGED faults \/ Fault("read"))
      BY <1>3 DEF ReadFails
    <2>2. QED
      BY <1>0, <2>1, FaultsCount
  <1>4. ASSUME NEW t \in Threads, StoreFails(t)
        PROVE  Blamed'
    <2>1. Fault("store") /\ Return(t, Raised("OSError")) /\ "OSError" \in Errors
      BY <1>4 DEF StoreFails, Errors
    <2>2. QED
      BY <1>0, <2>1, OneMoreFailure
  <1>5. ASSUME NEW t \in Threads, FetchReturns(t, Chunk(key[t])), UNCHANGED faults
        PROVE  Harmless
    <2>1. pc[t] = "fetch"
      BY <1>5 DEF FetchReturns
    <2>2. key[t] \in Keys /\ InFile(key[t]) /\ chunkSize \in ChunkSizes
      BY <1>0, <2>1 DEF TypeOK, CallsInFile
    <2>3. Len(Chunk(key[t])) = ChunkLen(key[t])
      BY <2>2, ChunkLength
    <2>4. UNCHANGED outcome
      BY <1>5, <2>3 DEF FetchReturns, Accepts
    <2>5. QED
      BY <1>0, <1>5, <2>4
  <1>6. ASSUME NEW t \in Threads, NEW data, FetchReturns(t, data), Fault("fetch")
        PROVE  Blamed'
    <2>1. CASE UNCHANGED outcome
      BY <1>0, <1>1, <1>6, <2>1, FaultsCount
    <2>2. CASE Return(t, Raised("OSError"))
      BY <1>0, <1>6, <2>2, OneMoreFailure DEF Errors
    <2>3. QED
      BY <1>6, <2>1, <2>2 DEF FetchReturns
  <1>7. ASSUME NEW t \in Threads, NEW e \in {"RemoteFileError", "RequestException"},
               FetchRaises(t, e), Fault("fetch")
        PROVE  Blamed'
    <2>1. Return(t, Raised(e)) /\ e \in Errors
      BY <1>7 DEF FetchRaises, Errors
    <2>2. QED
      BY <1>0, <1>7, <2>1, OneMoreFailure
  <1>8. CASE Kill \/ PowerLoss
    <2>1. outcome' = [t \in Threads |-> NoOutcome] /\ Fault("crash")
      BY <1>8 DEF Kill, PowerLoss, ForgetProcess
    <2>2. NoOutcome.kind \notin Errors
      BY DEF NoOutcome, Errors
    <2>3. QED
      BY <1>0, <1>1, <2>1, <2>2, FaultsCount
  <1>9. ASSUME NEW k \in Keys, DeleteFile(k)
        PROVE  Harmless
    <2>1. UNCHANGED outcome /\ Fault("delete")
      BY <1>9 DEF DeleteFile
    <2>2. QED
      BY <1>0, <2>1, FaultsCount
  <1>10. CASE (\E size \in ChunkSizes : Start(size)) \/ UNCHANGED vars
    BY <1>0, <1>1, <1>10 DEF Start, vars
  <1> HIDE DEF Harmless
  <1>11. QED
    BY <1>1, <1>2, <1>3, <1>4, <1>5, <1>6, <1>7, <1>8, <1>9, <1>10
    DEF Next, LocalStep, Download, Environment

\* One failed transfer or store fails one call at most, and nothing else fails
\* any, for any number of threads that wait for the same chunk.
THEOREM FailuresHaveCauses == Spec => []FailuresCaused
  <1>1. Init => Blamed
    <2> SUFFICES ASSUME Init PROVE Blamed
      OBVIOUS
    <2>1. Failed = {}
      BY DEF Init, Failed, NoOutcome, Errors
    <2>2. faults["fetch"] = 0 /\ faults["store"] = 0
      BY DEF Init, FaultKinds
    <2>3. IsFiniteSet({}) /\ Cardinality({}) = 0
      BY FS_EmptySet
    <2>4. QED
      BY <2>1, <2>2, <2>3 DEF Blamed, FailuresCaused
  <1>2. ControlInv /\ ControlInv' /\ Blamed /\ [Next]_vars => Blamed'
    BY StepKeepsBlame
  <1>3. Blamed => FailuresCaused
    BY DEF Blamed
  <1>4. QED
    BY <1>1, <1>2, <1>3, ControlAlways, PTL DEF Spec

-----------------------------------------------------------------------------
(* The index, when no chunk file is deleted or found unreadable.            *)

LEMMA InitIndex == Init => IndexInv
  BY DEF Init, IndexInv, IndexMatchesDisk, NoDuplicateDownload, FilesKnown

\* Faults that are not to happen do not.
LEMMA FilesReliable ==
    ASSUME ReliableFiles, TypeOK
    PROVE  ~Fault("delete") /\ ~Fault("read")
  BY DEF ReliableFiles, Fault, TypeOK, FaultKinds

\* A step of one thread that touches no file keeps the index, if it moves no
\* thread to or from the states the index is about without cause.
LEMMA ThreadKeepsIndex ==
    ASSUME TypeOK, IndexInv, NEW t \in Threads,
           UNCHANGED <<up, present, disk, tmp, key>>, pc[t] # "mark",
           \E label \in Labels \ {"discard", "mark"} :
              /\ pc' = [pc EXCEPT ![t] = label]
              /\ label = "fetch" => ~Exists(disk[key[t]])
              /\ label = "read" => Exists(disk[key[t]])
              /\ label \in {"write", "replace"} => Exists(tmp[key[t]])
    PROVE  IndexInv'
  <1> USE DEF IndexInv, TypeOK
  <1>1. PICK label \in Labels \ {"discard", "mark"} :
              /\ pc' = [pc EXCEPT ![t] = label]
              /\ label = "fetch" => ~Exists(disk[key[t]])
              /\ label = "read" => Exists(disk[key[t]])
              /\ label \in {"write", "replace"} => Exists(tmp[key[t]])
    OBVIOUS
  <1>2. \A s \in Threads : key[s] = key'[s] /\ (pc'[s] = "mark" <=> pc[s] = "mark")
    BY <1>1
  <1>3. IndexMatchesDisk'
    BY <1>2 DEF IndexMatchesDisk, Exists
  <1>4. NoDuplicateDownload'
    BY <1>1 DEF NoDuplicateDownload, Exists
  <1>5. FilesKnown'
    BY <1>1 DEF FilesKnown, Exists
  <1>6. QED
    BY <1>3, <1>4, <1>5

\* Every step of the cache keeps the index exact.
LEMMA StepKeepsIndex ==
    ASSUME ReliableFiles, ControlInv, IndexInv, [Next]_vars
    PROVE  IndexInv'
  <1>1. /\ TypeOK /\ CallsInFile /\ LocksHeld
        /\ IndexMatchesDisk /\ NoDuplicateDownload /\ FilesKnown
    BY DEF ControlInv, IndexInv
  <1>2. \A s, t \in Threads : Storing(s) /\ Storing(t) /\ key[s] = key[t] => s = t
    BY <1>1 DEF TypeOK, LocksHeld, Holds
  <1>3. ~Fault("delete") /\ ~Fault("read")
    BY <1>1, FilesReliable
  <1>4. ASSUME NEW t \in Threads, NEW k \in Keys, Call(t, k)
        PROVE  IndexInv'
    <2>1. \A s \in Threads : pc[s] # "idle" => s # t
      BY <1>4 DEF Call
    <2>2. \A s \in Threads : IF s = t THEN pc'[s] = "check"
                                      ELSE pc'[s] = pc[s] /\ key'[s] = key[s]
      BY <1>1, <1>4 DEF Call, Goto, TypeOK
    <2>3. UNCHANGED <<up, present, disk, tmp>>
      BY <1>4 DEF Call
    <2>4. IndexMatchesDisk'
      BY <1>1, <2>1, <2>2, <2>3 DEF IndexMatchesDisk, Exists
    <2>5. NoDuplicateDownload' /\ FilesKnown'
      BY <1>1, <2>2, <2>3 DEF NoDuplicateDownload, FilesKnown, Exists
    <2>6. QED
      BY <2>4, <2>5 DEF IndexInv
  <1>5. ASSUME NEW t \in Threads, HasChunk(t)
        PROVE  IndexInv'
    <2>1. up /\ key[t] \in Keys
      BY <1>1, <1>5 DEF HasChunk, CallsInFile, TypeOK
    <2>2. CASE key[t] \in present
      <3>1. Exists(disk[key[t]])
        BY <1>1, <2>1, <2>2 DEF IndexMatchesDisk
      <3>2. /\ pc[t] = "check" /\ UNCHANGED <<up, present, disk, tmp, key>>
            /\ pc' = [pc EXCEPT ![t] = "read"]
        BY <1>5, <2>2 DEF HasChunk, Goto
      <3>3. QED
        BY <1>1, <3>1, <3>2, "read" \in Labels \ {"discard", "mark"}, ThreadKeepsIndex
        DEF Labels
    <2>3. CASE key[t] \notin present
      <3>1. pc[t] = "check" /\ UNCHANGED <<up, present, disk, tmp, key>>
            /\ pc' = [pc EXCEPT ![t] = IF Holds(t) THEN "fetch" ELSE "acquire"]
        BY <1>5, <2>3 DEF HasChunk, ReadMissed, Goto
      <3>2. Holds(t) => ~Exists(disk[key[t]])
        <4>1. ASSUME NEW s \in Threads, key[s] = key[t], pc[s] = "mark", Holds(t)
              PROVE  FALSE
          BY <1>1, <2>1, <3>1, <4>1 DEF LocksHeld, Storing, Holds
        <4>2. QED
          BY <1>1, <2>1, <2>3, <4>1 DEF IndexMatchesDisk
      <3>3. CASE Holds(t)
        <4>1. pc' = [pc EXCEPT ![t] = "fetch"]
          BY <3>1, <3>3
        <4>2. QED
          BY <1>1, <3>1, <3>2, <3>3, <4>1, ThreadKeepsIndex, ZenonT(40) DEF Labels
      <3>4. CASE ~Holds(t)
        <4>1. pc' = [pc EXCEPT ![t] = "acquire"]
          BY <3>1, <3>4
        <4>2. QED
          BY <1>1, <3>1, <4>1, ThreadKeepsIndex, ZenonT(40) DEF Labels
      <3>5. QED
        BY <3>3, <3>4
    <2>4. QED
      BY <2>2, <2>3
  <1>6. ASSUME NEW t \in Threads,
               ReadFile(t) \/ Acquire(t) \/ Download(t) \/ StoreFails(t) \/ Release(t)
        PROVE  IndexInv'
    <2>1. pc[t] # "mark" /\ UNCHANGED <<up, present, disk, tmp, key>>
      BY <1>6 DEF ReadFile, Acquire, Download, FetchReturns, FetchRaises, StoreFails, Release
    <2>2. \E label \in {"idle", "check", "open", "release"} : pc' = [pc EXCEPT ![t] = label]
      BY <1>6 DEF ReadFile, Acquire, Download, FetchReturns, FetchRaises, StoreFails, Release,
         Goto
    <2>3. QED
      BY <1>1, <2>1, <2>2, ThreadKeepsIndex DEF Labels
  <1>7. ASSUME NEW t \in Threads, ReadFails(t) \/ Discard(t)
        PROVE  IndexInv'
    BY <1>1, <1>3, <1>7 DEF ReadFails, Discard, FilesKnown
  <1>8. ASSUME NEW t \in Threads, OpenTmp(t) \/ WriteAndSync(t)
        PROVE  IndexInv'
    <2>1. /\ pc[t] \in {"open", "write"} /\ UNCHANGED <<up, present, disk, key>>
          /\ \E label \in {"write", "replace"} : pc' = [pc EXCEPT ![t] = label]
          /\ \E file : Exists(file) /\ tmp' = [tmp EXCEPT ![key[t]] = file]
      BY <1>8 DEF OpenTmp, WriteAndSync, Synced, Goto, Exists, Torn
    <2>2. \A s \in Threads : key'[s] = key[s] /\ (pc'[s] = "mark" <=> pc[s] = "mark")
                             /\ pc'[s] # "discard" /\ (pc'[s] = "read" => pc[s] = "read")
                             /\ (pc'[s] = "fetch" => pc[s] = "fetch")
                             /\ (pc'[s] \in {"write", "replace"} => s = t \/ pc'[s] = pc[s])
      BY <1>1, <2>1 DEF TypeOK, FilesKnown
    <2>3. \A k \in Keys : Exists(tmp[k]) => Exists(tmp[k])'
      BY <1>1, <2>1 DEF TypeOK, Exists
    <2>4. Exists(tmp'[key'[t]])
      BY <1>1, <2>1 DEF TypeOK
    <2>5. FilesKnown'
      BY <1>1, <2>1, <2>2, <2>3, <2>4 DEF FilesKnown, TypeOK, Exists
    <2>6. IndexMatchesDisk' /\ NoDuplicateDownload'
      BY <1>1, <2>1, <2>2 DEF IndexMatchesDisk, NoDuplicateDownload, Exists
    <2>7. QED
      BY <2>5, <2>6 DEF IndexInv
  <1>9. ASSUME NEW t \in Threads, Replace(t)
        PROVE  IndexInv'
    <2>1. /\ pc[t] = "replace" /\ pc' = [pc EXCEPT ![t] = "mark"]
          /\ disk' = [disk EXCEPT ![key[t]] = tmp[key[t]]]
          /\ tmp' = [tmp EXCEPT ![key[t]] = NoFile]
          /\ UNCHANGED <<up, present, key>>
      BY <1>9 DEF Replace, Goto
    <2>2. Exists(tmp[key[t]]) /\ key[t] \in Keys
      BY <1>1, <2>1 DEF FilesKnown, TypeOK
    <2>3. Exists(disk'[key[t]])
      BY <1>1, <2>1, <2>2 DEF TypeOK
    <2>4. \A k \in Keys : k # key[t] => disk'[k] = disk[k] /\ tmp'[k] = tmp[k]
      BY <1>1, <2>1 DEF TypeOK
    <2>5. pc'[t] = "mark" /\ \A s \in Threads : s # t => pc'[s] = pc[s]
      BY <1>1, <2>1 DEF TypeOK
    <2>6. \A s \in Threads : Storing(s) /\ s # t => key[s] # key[t]
      BY <1>2, <2>1 DEF Storing
    <2>7. \A s \in Threads : key[s] \in Keys
      BY <1>1 DEF TypeOK
    <2>8. IndexMatchesDisk'
      <3>1. SUFFICES ASSUME up, NEW k \in Keys
                     PROVE  Exists(disk'[k]) <=>
                              k \in present \/ \E s \in Threads : key[s] = k /\ pc'[s] = "mark"
        BY <2>1 DEF IndexMatchesDisk, Exists
      <3>2. CASE k = key[t]
        BY <2>3, <2>5, <3>2
      <3>3. CASE k # key[t]
        BY <1>1, <2>4, <2>5, <3>1, <3>3 DEF IndexMatchesDisk
      <3>4. QED
        BY <3>2, <3>3
    <2>9. NoDuplicateDownload'
      BY <1>1, <2>1, <2>4, <2>5, <2>6, <2>7 DEF NoDuplicateDownload, Exists, Storing
    <2>10. FilesKnown'
      <3>1. SUFFICES ASSUME NEW s \in Threads
                     PROVE  /\ pc'[s] # "discard"
                            /\ pc'[s] = "read" => Exists(disk'[key[s]])
                            /\ pc'[s] \in {"write", "replace"} => Exists(tmp'[key[s]])
        BY <2>1 DEF FilesKnown, Exists
      <3>2. CASE s = t
        BY <2>5, <3>2
      <3>3. CASE s # t /\ key[s] = key[t]
        BY <1>1, <2>3, <2>5, <2>6, <3>3 DEF FilesKnown, Storing
      <3>4. CASE s # t /\ key[s] # key[t]
        BY <1>1, <2>4, <2>5, <2>7, <3>4 DEF FilesKnown
      <3>5. QED
        BY <3>2, <3>3, <3>4
    <2>11. QED
      BY <2>8, <2>9, <2>10 DEF IndexInv
  <1>10. ASSUME NEW t \in Threads, Mark(t)
         PROVE  IndexInv'
    <2>1. /\ pc[t] = "mark" /\ pc' = [pc EXCEPT ![t] = "release"]
          /\ present' = present \cup {key[t]}
          /\ UNCHANGED <<up, disk, tmp, key>>
      BY <1>10 DEF Mark, Goto
    <2>2. \A s \in Threads : pc'[s] = IF s = t THEN "release" ELSE pc[s]
      BY <1>1, <2>1 DEF TypeOK
    <2>3. IndexMatchesDisk'
      BY <1>1, <2>1, <2>2 DEF IndexMatchesDisk, Exists
    <2>4. NoDuplicateDownload' /\ FilesKnown'
      BY <1>1, <2>1, <2>2 DEF NoDuplicateDownload, FilesKnown, Exists
    <2>5. QED
      BY <2>3, <2>4 DEF IndexInv
  <1>11. ASSUME NEW k \in Keys, DeleteFile(k)
         PROVE  IndexInv'
    BY <1>3, <1>11 DEF DeleteFile
  <1>12. ASSUME Kill \/ PowerLoss
         PROVE  IndexInv'
    BY <1>12 DEF Kill, PowerLoss, ForgetProcess, IndexInv, IndexMatchesDisk,
       NoDuplicateDownload, FilesKnown
  <1>13. ASSUME NEW size \in ChunkSizes, Start(size)
         PROVE  IndexInv'
    <2>1. \A t \in Threads : pc'[t] = "idle"
      BY <1>1, <1>13 DEF Start, CallsInFile
    <2>2. present' = {k \in Keys : Exists(disk'[k])}
      BY <1>13 DEF Start, Scan
    <2>3. QED
      BY <2>1, <2>2 DEF IndexInv, IndexMatchesDisk, NoDuplicateDownload, FilesKnown, Exists
  <1>14. CASE UNCHANGED vars
    BY <1>1, <1>14 DEF vars, IndexInv, IndexMatchesDisk, NoDuplicateDownload, FilesKnown, Exists
  <1>15. QED
    BY <1>4, <1>5, <1>6, <1>7, <1>8, <1>9, <1>10, <1>11, <1>12, <1>13, <1>14
    DEF Next, LocalStep, Environment

LEMMA InitCache == Init => CacheInv
  BY InitControl, InitData, InitIndex DEF CacheInv

LEMMA StepKeepsCache == CacheInv /\ [Next]_vars => CacheInv'
  <1> SUFFICES ASSUME CacheInv, [Next]_vars PROVE CacheInv'
    OBVIOUS
  <1>1. ControlInv /\ ControlInv'
    BY StepKeepsControl DEF CacheInv
  <1>2. FixedChunkSize => DataInv'
    BY <1>1, StepKeepsData DEF CacheInv
  <1>3. ReliableFiles => IndexInv'
    BY <1>1, StepKeepsIndex DEF CacheInv
  <1>4. QED
    BY <1>1, <1>2, <1>3 DEF CacheInv, FixedChunkSize, ReliableFiles

\* The inductive invariant itself: locks, types and calls whatever happens, the
\* bytes as well if there is one chunk size, and the index as well if no chunk
\* file is deleted or unreadable.
THEOREM InvariantHolds == Spec => []CacheInv
  BY InitCache, StepKeepsCache, PTL DEF Spec

\* A chunk whose file is on disk is never downloaded, however the calls for it
\* interleave, fail and are repeated, and whatever crashes came before.
THEOREM NoDuplicates == ASSUME ReliableFiles PROVE Spec => []NoDuplicateDownload
  <1>1. CacheInv => NoDuplicateDownload
    BY DEF CacheInv, IndexInv
  <1>2. QED
    BY <1>1, InvariantHolds, PTL

\* The present set of a running process and the directory agree, but for the
\* chunks being marked, after any interleaving, failure and restart.
THEOREM IndexExact == ASSUME ReliableFiles PROVE Spec => []IndexMatchesDisk
  <1>1. CacheInv => IndexMatchesDisk
    BY DEF CacheInv, IndexInv
  <1>2. QED
    BY <1>1, InvariantHolds, PTL
-----------------------------------------------------------------------------
(* Refinement: the cache is a store of chunks.                              *)

\* What the store sees of a thread, its files and its contents.
ChunkAsked(t) == IF pc[t] = "idle" \/ outcome[t].kind # "none" THEN {} ELSE {key[t]}
ChunkAnswer(o) == IF o.kind \in Errors THEN Raised("error") ELSE o
StoredFiles == {<<k, disk[k].data>> : k \in {j \in Keys : Exists(disk[j])}}

LEMMA StoreInit == Init => Store!Init
  BY DEF Init, Store!Init, Store!NoAnswer, Exists, NoFile, NoOutcome, Errors

\* A step that answers one thread, or that begins its call.
LEMMA StoreStep ==
    ASSUME FixedChunkSize, CacheInv, [Next]_vars
    PROVE  [Store!Next]_(Store!storeVars)
  <1> DEFINE asked == [t \in Threads |-> ChunkAsked(t)]
             answer == [t \in Threads |-> ChunkAnswer(outcome[t])]
             contents == [k \in Keys |-> ChunkOfSize(k, CHOOSE size \in ChunkSizes : TRUE)]
  <1>1. /\ TypeOK /\ AnsweredOnce /\ DiskSynced /\ StoresOwnChunk /\ ReturnsOwnBytes
        /\ CacheInv' /\ TypeOK'
    BY StepKeepsCache DEF CacheInv, ControlInv, DataInv
  <1>2. contents = [k \in Keys |-> Chunk(k)]
    <2>1. chunkSize = CHOOSE size \in ChunkSizes : TRUE
      BY <1>1, ChunkSizesAssumption DEF TypeOK, FixedChunkSize
    <2>2. QED
      BY <2>1 DEF Chunk
  <1>3. /\ pc \in [Threads -> Labels] /\ key \in [Threads -> Keys]
        /\ outcome \in [Threads -> Outcomes] /\ disk \in [Keys -> FileStates]
    BY <1>1 DEF TypeOK
  <1>4. ASSUME UNCHANGED <<outcome, disk, key>>,
               \A t \in Threads : pc[t] = "idle" \/ outcome[t].kind # "none" <=>
                                  pc'[t] = "idle" \/ outcome[t].kind # "none"
        PROVE  UNCHANGED Store!storeVars
    <2>1. \A t \in Threads : ChunkAsked(t)' = ChunkAsked(t)
      BY <1>4 DEF ChunkAsked
    <2>2. asked' = asked /\ answer' = answer /\ StoredFiles' = StoredFiles
      BY <1>4, <2>1 DEF StoredFiles, Exists
    <2>3. QED
      BY <2>2 DEF Store!storeVars, ChunkAsked, ChunkAnswer, StoredFiles
  <1>5. ASSUME NEW t \in Threads, NEW k \in Keys, Call(t, k)
        PROVE  Store!Ask(t, k)
    <2>1. asked[t] = {} /\ asked' = [asked EXCEPT ![t] = {k}]
      BY <1>3, <1>5 DEF Call, Goto, Return, NoOutcome, ChunkAsked
    <2>2. answer' = [answer EXCEPT ![t] = NoOutcome]
      BY <1>3, <1>5 DEF Call, Return, NoOutcome, ChunkAnswer, Errors
    <2>3. StoredFiles' = StoredFiles
      BY <1>5 DEF Call, StoredFiles, Exists
    <2>4. QED
      BY <2>1, <2>2, <2>3 DEF Store!Ask, Store!NoAnswer, NoOutcome, ChunkAsked, ChunkAnswer,
         StoredFiles
  <1>6. ASSUME NEW t \in Threads, NEW value, value.kind # "none", Return(t, value),
               pc[t] \notin {"idle", "release"}, UNCHANGED <<disk, key>>,
               \E label : pc' = [pc EXCEPT ![t] = label]
        PROVE  /\ asked[t] = {key[t]} /\ asked' = [asked EXCEPT ![t] = {}]
               /\ answer' = [answer EXCEPT ![t] = ChunkAnswer(value)]
               /\ StoredFiles' = StoredFiles
    <2>1. asked[t] = {key[t]}
      BY <1>1, <1>6 DEF AnsweredOnce, ChunkAsked
    <2>2. \A s \in Threads : ChunkAsked(s)' = IF s = t THEN {} ELSE ChunkAsked(s)
      BY <1>3, <1>6 DEF Return, ChunkAsked
    <2>3. answer' = [answer EXCEPT ![t] = ChunkAnswer(value)]
      BY <1>3, <1>6 DEF Return
    <2>4. QED
      BY <1>6, <2>1, <2>2, <2>3, ZenonT(40) DEF StoredFiles, Exists
  <1>7. ASSUME NEW t \in Threads, NEW value, value = Returned(Chunk(key[t])), Return(t, value),
               pc[t] \notin {"idle", "release"}, UNCHANGED <<disk, key>>,
               \E label : pc' = [pc EXCEPT ![t] = label]
        PROVE  Store!Give(t)
    <2>1. value = [kind |-> "data", data |-> contents[key[t]]] /\ value.kind = "data"
      BY <1>2, <1>3, <1>7 DEF Returned
    <2>2. ChunkAnswer(value) = value
      BY <2>1 DEF ChunkAnswer, Errors
    <2>3. /\ asked[t] = {key[t]} /\ asked' = [asked EXCEPT ![t] = {}]
          /\ answer' = [answer EXCEPT ![t] = ChunkAnswer(value)]
          /\ StoredFiles' = StoredFiles
      <3> HIDE DEF asked, answer, contents
      <3>1. value.kind # "none"
        BY <2>1
      <3>2. QED
        BY <1>6, <1>7, <3>1
    <2>4. QED
      BY <2>1, <2>2, <2>3 DEF Store!Give, ChunkAsked, ChunkAnswer, StoredFiles
  <1>8. ASSUME NEW t \in Threads, NEW e \in Errors, Return(t, Raised(e)),
               pc[t] \notin {"idle", "release"}, UNCHANGED <<disk, key>>,
               \E label : pc' = [pc EXCEPT ![t] = label]
        PROVE  Store!Fail(t)
    <2>1. Raised(e).kind # "none" /\ ChunkAnswer(Raised(e)) = [kind |-> "error", data |-> <<>>]
      BY DEF Raised, ChunkAnswer, Errors
    <2>2. /\ asked[t] = {key[t]} /\ asked' = [asked EXCEPT ![t] = {}]
          /\ answer' = [answer EXCEPT ![t] = ChunkAnswer(Raised(e))]
          /\ StoredFiles' = StoredFiles
      <3> HIDE DEF asked, answer
      <3>1. QED
        BY <1>6, <1>8, <2>1
    <2>3. QED
      BY <2>1, <2>2 DEF Store!Fail, Store!Failure, ChunkAsked, ChunkAnswer, StoredFiles
  <1>9. ASSUME NEW t \in Threads, ReadFile(t)
        PROVE  Store!Give(t)
    <2>1. disk[key[t]].data = Chunk(key[t])
      BY <1>1, <1>3, <1>9, SyncedFile DEF ReadFile
    <2>2. /\ Return(t, Returned(Chunk(key[t])))
          /\ pc[t] \notin {"idle", "release"} /\ UNCHANGED <<disk, key>>
          /\ \E label : pc' = [pc EXCEPT ![t] = label]
      BY <1>9, <2>1 DEF ReadFile, Goto
    <2>3. QED
      BY <1>7, <2>2
  <1>10. ASSUME NEW t \in Threads, Mark(t)
         PROVE  Store!Give(t)
    <2>1. /\ Return(t, Returned(Chunk(key[t])))
          /\ pc[t] \notin {"idle", "release"} /\ UNCHANGED <<disk, key>>
          /\ \E label : pc' = [pc EXCEPT ![t] = label]
      BY <1>1, <1>10 DEF Mark, Goto, StoresOwnChunk
    <2>2. QED
      BY <1>7, <2>1
  <1>11. ASSUME NEW t \in Threads, StoreFails(t)
         PROVE  Store!Fail(t)
    <2>1. /\ Return(t, Raised("OSError"))
          /\ pc[t] \notin {"idle", "release"} /\ UNCHANGED <<disk, key>>
          /\ \E label : pc' = [pc EXCEPT ![t] = label]
      BY <1>11 DEF StoreFails, Goto
    <2>2. QED
      BY <1>8, <2>1 DEF Errors
  <1>12. ASSUME NEW t \in Threads, Download(t)
         PROVE  Store!Fail(t) \/ UNCHANGED Store!storeVars
    <2>1. ASSUME NEW data, FetchReturns(t, data), Len(data) # ChunkLen(key[t])
          PROVE  Store!Fail(t)
      <3>1. /\ Return(t, Raised("OSError"))
            /\ pc[t] \notin {"idle", "release"} /\ UNCHANGED <<disk, key>>
            /\ \E label : pc' = [pc EXCEPT ![t] = label]
        BY <2>1 DEF FetchReturns, Accepts, Goto
      <3>2. QED
        BY <1>8, <3>1 DEF Errors
    <2>2. ASSUME NEW data, FetchReturns(t, data), Len(data) = ChunkLen(key[t])
          PROVE  UNCHANGED Store!storeVars
      <3>1. /\ UNCHANGED <<outcome, disk, key>> /\ pc[t] = "fetch"
            /\ pc' = [pc EXCEPT ![t] = "open"]
        BY <2>2 DEF FetchReturns, Accepts, Goto
      <3>2. QED
        BY <1>3, <1>4, <3>1
    <2>3. ASSUME NEW e \in Errors, FetchRaises(t, e)
          PROVE  Store!Fail(t)
      <3>1. /\ Return(t, Raised(e))
            /\ pc[t] \notin {"idle", "release"} /\ UNCHANGED <<disk, key>>
            /\ \E label : pc' = [pc EXCEPT ![t] = label]
        BY <2>3 DEF FetchRaises, Goto
      <3>2. QED
        BY <1>8, <3>1
    <2>4. (\E data : FetchReturns(t, data)) \/ \E e \in Errors : FetchRaises(t, e)
      BY <1>12 DEF Download, Errors
    <2>5. QED
      BY <2>1, <2>2, <2>3, <2>4
  <1>13. ASSUME NEW t \in Threads,
                \/ HasChunk(t) \/ ReadFails(t) \/ Discard(t) \/ Acquire(t) \/ OpenTmp(t)
                \/ WriteAndSync(t) \/ Release(t)
         PROVE  UNCHANGED Store!storeVars
    <2>1. UNCHANGED <<outcome, disk, key>>
      BY <1>13 DEF HasChunk, ReadFails, Discard, Acquire, OpenTmp, WriteAndSync, Release
    <2>2. \/ pc[t] # "idle" /\ \E label : label # "idle" /\ pc' = [pc EXCEPT ![t] = label]
          \/ pc[t] = "release" /\ pc' = [pc EXCEPT ![t] = "idle"]
      BY <1>13 DEF HasChunk, ReadMissed, ReadFails, Discard, Acquire, OpenTmp, WriteAndSync,
         Synced, Release, Unlock, Goto
    <2>3. \A s \in Threads : pc[s] = "idle" \/ outcome[s].kind # "none" <=>
                             pc'[s] = "idle" \/ outcome[s].kind # "none"
      BY <1>1, <1>3, <2>2 DEF AnsweredOnce
    <2>4. QED
      BY <1>4, <2>1, <2>3
  <1>14. ASSUME NEW t \in Threads, Replace(t)
         PROVE  Store!Store(t)
    <2>1. /\ pc[t] = "replace" /\ pc' = [pc EXCEPT ![t] = "mark"]
          /\ disk' = [disk EXCEPT ![key[t]] = tmp[key[t]]]
          /\ UNCHANGED <<outcome, key>>
      BY <1>14 DEF Replace, Goto
    <2>2. asked[t] = {key[t]} /\ asked' = asked /\ answer' = answer
      <3>1. \A s \in Threads : ChunkAsked(s)' = ChunkAsked(s)
        BY <1>3, <2>1 DEF ChunkAsked
      <3>2. QED
        BY <1>1, <2>1, <3>1 DEF ChunkAsked, AnsweredOnce
    <2>3. Exists(disk'[key[t]]) /\ disk'[key[t]].data = contents[key[t]]
      <3>1. tmp[key[t]] = [state |-> "synced", data |-> Chunk(key[t])]
        BY <1>1, <2>1 DEF StoresOwnChunk
      <3>2. disk'[key[t]] = [state |-> "synced", data |-> Chunk(key[t])]
        BY <1>3, <2>1, <3>1
      <3>3. QED
        BY <1>2, <1>3, <3>2 DEF Exists
    <2>4. StoredFiles' = StoredFiles \cup {<<key[t], contents[key[t]]>>}
      <3> HIDE DEF contents
      <3>1. \A k \in Keys : k # key[t] => disk'[k] = disk[k]
        BY <1>3, <2>1
      <3>2. Exists(disk[key[t]]) => disk[key[t]].data = contents[key[t]]
        BY <1>1, <1>2, <1>3, SyncedFile
      <3>3. QED
        BY <1>3, <2>3, <3>1, <3>2 DEF StoredFiles, Exists
    <2>5. QED
      BY <2>2, <2>4 DEF Store!Store, ChunkAsked, ChunkAnswer, StoredFiles
  <1>15. ASSUME NEW k \in Keys, DeleteFile(k)
         PROVE  Store!Lose
    <2>1. disk' = [disk EXCEPT ![k] = NoFile] /\ UNCHANGED <<pc, outcome, key>>
      BY <1>15 DEF DeleteFile
    <2>2. StoredFiles' \subseteq StoredFiles
      BY <1>3, <2>1 DEF StoredFiles, Exists, NoFile
    <2>3. QED
      BY <2>1, <2>2 DEF Store!Lose, StoredFiles, ChunkAsked
  <1>16. ASSUME Kill \/ PowerLoss
         PROVE  Store!Crash
    <2>1. \A k \in Keys : Exists(disk'[k]) => Exists(disk[k]) /\ disk'[k].data = disk[k].data
      <3>1. \A k \in Keys : \/ disk'[k] = disk[k] \/ disk'[k] = NoFile
                            \/ disk'[k] = AfterPowerLoss(disk[k])
        BY <1>16 DEF Kill, PowerLoss
      <3>2. \A k \in Keys : Exists(disk[k]) => AfterPowerLoss(disk[k]) = disk[k]
        BY <1>1, SyncedFile DEF AfterPowerLoss
      <3>3. \A k \in Keys : ~Exists(disk[k]) => AfterPowerLoss(disk[k]) = disk[k]
        BY DEF AfterPowerLoss, Exists
      <3>4. QED
        BY <3>1, <3>2, <3>3 DEF Exists, NoFile
    <2>2. StoredFiles' \subseteq StoredFiles
      BY <2>1 DEF StoredFiles, Exists
    <2>3. /\ pc' = [t \in Threads |-> "idle"]
          /\ outcome' = [t \in Threads |-> NoOutcome]
      BY <1>16 DEF Kill, PowerLoss, ForgetProcess
    <2>4. asked' = [t \in Threads |-> {}] /\ answer' = [t \in Threads |-> NoOutcome]
      BY <2>3 DEF ChunkAsked, ChunkAnswer, NoOutcome, Errors
    <2>5. QED
      BY <2>2, <2>4 DEF Store!Crash, Store!NoAnswer, NoOutcome, StoredFiles, ChunkAsked,
         ChunkAnswer
  <1>17. CASE (\E size \in ChunkSizes : Start(size)) \/ UNCHANGED vars
    BY <1>4, <1>17 DEF Start, vars
  <1>18. QED
    BY <1>5, <1>9, <1>10, <1>11, <1>12, <1>13, <1>14, <1>15, <1>16, <1>17
    DEF Next, LocalStep, Environment, Store!Next

\* The cache, with its locks, temporary files, crashes and failing transfers, is
\* a store that gives every call exactly its chunk or an error, once, and keeps
\* only whole chunks that were asked for, if the chunk size never changes.
THEOREM CacheImplementsStore == ASSUME FixedChunkSize PROVE Spec => ImplementsStore
  <1>1. CacheInv /\ [Next]_vars => [Store!Next]_(Store!storeVars)
    BY StoreStep
  <1>2. QED
    BY <1>1, StoreInit, InvariantHolds, PTL DEF Spec, ImplementsStore, Store!Spec
===============================================================================
