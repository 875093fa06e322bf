-------------------------------- MODULE Probe --------------------------------
(***************************************************************************)
(* The capability probe of one remote ISO (ps2smb/remote.py, probe and      *)
(* _probe), asked for by every SMB open, and the code that reads its        *)
(* results without the probe lock: directory listings and the status page   *)
(* (ps2smb/smb/server.py, _remote_size_or_zero and status).  The host may   *)
(* answer every request differently.                                        *)
(***************************************************************************)
EXTENDS Integers, FiniteSets, Functions, Sequences

CONSTANTS
    Openers,         \* SMB connection threads opening the game
    Pollers,         \* threads serving the status page, and listings
    RealSize,        \* bytes of the remote file
    ProbeBytes,      \* PROBE_BYTES
    Absent,          \* a header that is missing; a size that is not known
    Garbled,         \* a Content-Length that int() rejects
    HeadResponses,   \* the answers the host may give to HEAD
    GetResponses     \* ... and to the range GET

ASSUME SizeAssumption == RealSize \in Nat \ {0} /\ ProbeBytes \in Nat \ {0}
ASSUME HeadersAssumption == Absent \notin Int /\ Garbled \notin Int /\ Absent # Garbled
ASSUME ResponsesAssumption ==
    /\ HeadResponses \subseteq [status : Nat, length : Int \cup {Absent, Garbled}]
    /\ GetResponses \subseteq [status : Nat, total : Nat \cup {Absent}]

VARIABLES
    size,           \* RemoteFile.size
    acceptRanges,   \* RemoteFile.accept_ranges
    error,          \* RemoteFile.error is not None
    probed,         \* RemoteFile.probed
    lock,           \* holders of _probe_lock
    pc,             \* where each thread is
    result,         \* what its last open, or status row, came to
    row,            \* the status row each poller reads, or the size it lists
    received        \* bytes of the file the probe has transferred

vars == <<size, acceptRanges, error, probed, lock, pc, result, row, received>>

Verdict == <<size, acceptRanges, error, probed>>
EmptyRow == [size |-> Absent, probed |-> FALSE, rangeOk |-> FALSE, error |-> FALSE]

Min2(a, b) == IF a < b THEN a ELSE b
Goto(t, label) == pc' = [pc EXCEPT ![t] = label]

-----------------------------------------------------------------------------
(* probe(), called by ensure_probed.                                        *)

Open(t) ==
    /\ pc[t] = "idle"
    /\ Goto(t, "wait")
    /\ result' = [result EXCEPT ![t] = "none"]
    /\ UNCHANGED <<Verdict, lock, row, received>>

FreeAlways == TRUE          \* faulty variant: the lock is not waited for
Free == lock = {}

ReleasedNever == lock       \* faulty variant: an exception keeps the lock
Released == {}

AfterLockAlways == "head"   \* faulty variant: the verdict is ignored
\* if self.probed, the answer is the old one.
AfterLock == IF probed THEN "leave" ELSE "head"

\* with self._probe_lock
Enter(t) ==
    /\ pc[t] = "wait"
    /\ Free
    /\ lock' = {t}
    /\ Goto(t, AfterLock)
    /\ UNCHANGED <<Verdict, result, row, received>>

\* A RequestException or RemoteFileError goes to the except clause of probe().
Raised(t) == Goto(t, "except")

UnparsableNever(length) == FALSE    \* faulty variant: the header is not parsed
Unparsable(length) == length = Garbled

\* int() takes a negative Content-Length; on a garbled one it raises ValueError,
\* which nothing catches: the lock is freed and no verdict is recorded.
HeadRequest(t, resp) ==
    /\ pc[t] = "head"
    /\ \/ resp.status >= 400 /\ Raised(t) /\ UNCHANGED <<size, lock, result>>
       \/ /\ resp.status < 400 /\ Unparsable(resp.length)
          /\ Goto(t, "idle")
          /\ lock' = Released
          /\ result' = [result EXCEPT ![t] = "raised"]
          /\ UNCHANGED size
       \/ /\ resp.status < 400 /\ ~Unparsable(resp.length)
          /\ size' = IF resp.length = Absent THEN size ELSE resp.length
          /\ Goto(t, "get")
          /\ UNCHANGED <<lock, result>>
    /\ UNCHANGED <<acceptRanges, error, probed, row, received>>

\* Session.get reads the whole body before it returns, whatever the status.
BodyLength(resp) ==
    CASE resp.status = 206 -> Min2(ProbeBytes, RealSize)
      [] resp.status = 200 -> RealSize
      [] OTHER -> 0

\* Faulty variant: Content-Range overrules Content-Length.
TakesTotalAlways(resp) == resp.total # Absent

\* The total of Content-Range is taken for want of a Content-Length.
TakesTotal(resp) == size = Absent /\ resp.total # Absent

\* accept_ranges is set before size, and both before error, without the lock
\* that unlocked readers do not take either.
GetRequest(t, resp) ==
    /\ pc[t] = "get"
    /\ received' = received + BodyLength(resp)
    /\ acceptRanges' = IF resp.status \in {200, 206} THEN resp.status = 206 ELSE acceptRanges
    /\ \/ resp.status # 206 /\ Raised(t)
       \/ resp.status = 206 /\ TakesTotal(resp) /\ Goto(t, "total")
       \/ resp.status = 206 /\ ~TakesTotal(resp) /\ size = Absent /\ Raised(t)
       \/ resp.status = 206 /\ ~TakesTotal(resp) /\ size # Absent /\ Goto(t, "settle")
    /\ UNCHANGED <<size, error, probed, lock, result, row>>

\* self.size = int(total), of any answer that led here.
SetSize(t, resp) ==
    /\ pc[t] = "total"
    /\ resp.status = 206 /\ resp.total # Absent
    /\ size' = resp.total
    /\ Goto(t, "settle")
    /\ UNCHANGED <<acceptRanges, error, probed, lock, result, row, received>>

\* The connection failed or timed out.
RequestFails(t) ==
    /\ pc[t] \in {"head", "get"}
    /\ Raised(t)
    /\ UNCHANGED <<Verdict, lock, result, row, received>>

\* The except clause.
Reject(t) ==
    /\ pc[t] = "except"
    /\ error' = TRUE
    /\ Goto(t, "settle")
    /\ UNCHANGED <<size, acceptRanges, probed, lock, result, row, received>>

\* self.probed is set after self.error.
Settle(t) ==
    /\ pc[t] = "settle"
    /\ probed' = TRUE
    /\ Goto(t, "leave")
    /\ UNCHANGED <<size, acceptRanges, error, lock, result, row, received>>

\* return self.error is None, and ensure_probed raises unless it is.
Leave(t) ==
    /\ pc[t] = "leave"
    /\ lock' = Released
    /\ result' = [result EXCEPT ![t] = IF error THEN "denied" ELSE "opened"]
    /\ Goto(t, "idle")
    /\ UNCHANGED <<Verdict, row, received>>

-----------------------------------------------------------------------------
(* Readers that do not take the lock.                                       *)

\* Faulty variant: "probed" is read last.
FieldsProbedLast == <<"size", "rangeOk", "error", "probed">>

\* status() reads the fields of a row one after the other.
Fields == <<"size", "probed", "rangeOk", "error">>
Current == [size |-> size, probed |-> probed, rangeOk |-> acceptRanges, error |-> error]

Poll(t) ==
    /\ pc[t] = "idle"
    /\ row' = [row EXCEPT ![t] = EmptyRow]
    /\ result' = [result EXCEPT ![t] = "none"]
    /\ Goto(t, Fields[1])
    /\ UNCHANGED <<Verdict, lock, received>>

PollField(t) ==
    \E i \in 1 .. Len(Fields) :
        /\ pc[t] = Fields[i]
        /\ row' = [row EXCEPT ![t][Fields[i]] = Current[Fields[i]]]
        /\ IF i < Len(Fields)
             THEN Goto(t, Fields[i + 1]) /\ UNCHANGED result
             ELSE Goto(t, "idle") /\ result' = [result EXCEPT ![t] = "polled"]
        /\ UNCHANGED <<Verdict, lock, received>>

\* _remote_size_or_zero: a listing reads the size alone, 0 if it is not known.
List(t) ==
    /\ pc[t] = "idle"
    /\ row' = [row EXCEPT ![t] =
                 [EmptyRow EXCEPT !.size = IF size = Absent THEN 0 ELSE size]]
    /\ result' = [result EXCEPT ![t] = "listed"]
    /\ UNCHANGED <<Verdict, lock, pc, received>>

-----------------------------------------------------------------------------

Init ==
    /\ size = Absent
    /\ acceptRanges = FALSE
    /\ error = FALSE
    /\ probed = FALSE
    /\ lock = {}
    /\ pc = [t \in Openers \cup Pollers |-> "idle"]
    /\ result = [t \in Openers \cup Pollers |-> "none"]
    /\ row = [t \in Pollers |-> EmptyRow]
    /\ received = 0

ProbeStep(t) ==
    \/ Enter(t)
    \/ \E resp \in HeadResponses : HeadRequest(t, resp)
    \/ \E resp \in GetResponses : GetRequest(t, resp) \/ SetSize(t, resp)
    \/ RequestFails(t)
    \/ Reject(t)
    \/ Settle(t)
    \/ Leave(t)

Next ==
    \/ \E t \in Openers : Open(t) \/ ProbeStep(t)
    \/ \E t \in Pollers : Poll(t) \/ PollField(t) \/ List(t)

Spec == Init /\ [][Next]_vars

\* Threads keep running, and a request ends: by an answer or by its timeout.
Fairness == \A t \in Openers : SF_vars(Enter(t)) /\ WF_vars(ProbeStep(t))

FairSpec == Spec /\ Fairness

-----------------------------------------------------------------------------
(* Properties.                                                              *)

\* Where a thread holds the lock, and where it has not given its verdict yet.
Before == {"head", "get", "total", "except", "settle"}
Inside == Before \cup {"leave"}

TypeOK ==
    /\ size \in Int \cup {Absent}
    /\ acceptRanges \in BOOLEAN /\ error \in BOOLEAN /\ probed \in BOOLEAN
    /\ lock \subseteq Openers
    /\ pc \in [Openers \cup Pollers ->
                 {"idle", "wait"} \cup Inside \cup Range(Fields)]
    /\ result \in [Openers \cup Pollers ->
                     {"none", "raised", "denied", "opened", "polled", "listed"}]
    /\ row \in [Pollers -> [size : Int \cup {Absent}, probed : BOOLEAN,
                            rangeOk : BOOLEAN, error : BOOLEAN]]
    /\ received \in Nat

\* Every client is told the same: after an open was refused none succeeds,
\* whatever the host would answer now, and the other way round.
OpensAgree ==
    \A s, t \in Openers : ~(result[s] = "opened" /\ result[t] = "denied")

\* "Capabilities are probed once per URL": no two threads probe at a time, no
\* request is sent after the verdict, and whatever hosts answer and threads
\* raise, at most one body is transferred.
ProbedOnce ==
    LET probing == {t \in Openers : pc[t] \in {"head", "get"}}
    IN  /\ Cardinality(probing) <= 1
        /\ probed => probing = {}
        /\ received <= RealSize

\* What an unlocked reader has seen is never taken back: the verdict is final,
\* and the size, once known, does not change even while the probe goes on.
VerdictFinal ==
    [][ /\ probed => UNCHANGED Verdict
        /\ size # Absent => size' = size ]_vars

\* A status row that says "probed" shows the final range support and error,
\* although its fields are read one by one during the probe; and a row or a
\* listing never shows a size that the file does not keep.
StatusRowConsistent ==
    \A t \in Pollers :
        /\ result[t] = "polled" /\ row[t].probed =>
             row[t].rangeOk = acceptRanges /\ row[t].error = error
        /\ result[t] \in {"polled", "listed"} => row[t].size \in {Absent, 0, size}

\* Every open is answered.
OpensReturn == \A t \in Openers : (pc[t] # "idle") ~> (pc[t] = "idle")

-----------------------------------------------------------------------------
(* The invariant the proofs of module ProbeProofs rest on.                  *)

\* Exactly the holder of the lock is inside the probe, and it is there before
\* the verdict; it leaves with one.
LockGuards ==
    /\ \A s, t \in lock : s = t
    /\ \A t \in Openers : t \in lock <=> pc[t] \in Inside
    /\ \A t \in Openers :
         /\ pc[t] \in Before => ~probed
         /\ pc[t] = "leave" => probed

\* Until the verdict, a size is known and bytes have come only because a thread
\* is past the request that brings them.
Settling == probed \/ \E t \in Openers : pc[t] \in {"total", "except", "settle"}

Progress ==
    /\ \A t \in Openers : pc[t] = "total" => size = Absent
    /\ size # Absent => Settling \/ \E t \in Openers : pc[t] = "get"
    /\ received # 0 => Settling
    /\ received <= RealSize

\* What a thread was told is the verdict, and a reader that saw "probed" has
\* read the final fields since.
SeenIsFinal ==
    /\ \A t \in Openers :
         /\ result[t] = "opened" => probed /\ ~error
         /\ result[t] = "denied" => probed /\ error
    /\ \A t \in Pollers :
         LET past(labels) == result[t] = "polled" \/ pc[t] \in labels
         IN  /\ row[t].size \in {Absent, 0, size}
             /\ pc[t] # "idle" => result[t] # "polled"
             /\ row[t].probed /\ past({"rangeOk", "error"}) => probed
             /\ row[t].probed /\ past({"error"}) => row[t].rangeOk = acceptRanges
             /\ row[t].probed /\ result[t] = "polled" => row[t].error = error

ProbeInv == TypeOK /\ LockGuards /\ Progress /\ SeenIsFinal
===============================================================================
