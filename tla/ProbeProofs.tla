----------------------------- MODULE ProbeProofs -----------------------------
(***************************************************************************)
(* Proofs about the capability probe, for any threads, file and host.       *)
(***************************************************************************)
EXTENDS Probe, FiniteSetTheorems, TLAPS

-----------------------------------------------------------------------------
(* Types.                                                                   *)

Rows == [size : Int \cup {Absent}, probed : BOOLEAN, rangeOk : BOOLEAN, error : BOOLEAN]
Labels == {"idle", "wait", "head", "get", "total", "except", "settle", "leave",
           "size", "probed", "rangeOk", "error"}

LEMMA FieldLabels ==
    /\ Range(Fields) = {"size", "probed", "rangeOk", "error"}
    /\ Len(Fields) = 4
    /\ Fields[1] = "size" /\ Fields[2] = "probed"
    /\ Fields[3] = "rangeOk" /\ Fields[4] = "error"
  BY DEF Fields, Range

\* What a poller does when it reads a field, by field.
LEMMA PollFieldCases ==
    ASSUME TypeOK, NEW t \in Pollers, PollField(t)
    PROVE  /\ UNCHANGED <<Verdict, lock, received>>
           /\ \/ /\ pc[t] = "size" /\ Goto(t, "probed") /\ UNCHANGED result
                 /\ row' = [row EXCEPT ![t].size = size]
              \/ /\ pc[t] = "probed" /\ Goto(t, "rangeOk") /\ UNCHANGED result
                 /\ row' = [row EXCEPT ![t].probed = probed]
              \/ /\ pc[t] = "rangeOk" /\ Goto(t, "error") /\ UNCHANGED result
                 /\ row' = [row EXCEPT ![t].rangeOk = acceptRanges]
              \/ /\ pc[t] = "error" /\ Goto(t, "idle")
                 /\ result' = [result EXCEPT ![t] = "polled"]
                 /\ row' = [row EXCEPT ![t].error = error]
  <1>1. PICK i \in 1 .. 4 :
          /\ pc[t] = Fields[i]
          /\ row' = [row EXCEPT ![t][Fields[i]] = Current[Fields[i]]]
          /\ IF i < 4
               THEN Goto(t, Fields[i + 1]) /\ UNCHANGED result
               ELSE Goto(t, "idle") /\ result' = [result EXCEPT ![t] = "polled"]
          /\ UNCHANGED <<Verdict, lock, received>>
    BY FieldLabels DEF PollField
  <1>2. /\ Current["size"] = size /\ Current["probed"] = probed
        /\ Current["rangeOk"] = acceptRanges /\ Current["error"] = error
    BY DEF Current
  <1>3. CASE i = 1
    <2>1. pc[t] = "size" /\ Goto(t, "probed") /\ UNCHANGED result
      BY <1>1, <1>3, FieldLabels DEF Goto
    <2>2. row' = [row EXCEPT ![t].size = size]
      BY <1>1, <1>2, <1>3, FieldLabels
    <2>3. QED
      BY <1>1, <2>1, <2>2
  <1>4. CASE i = 2
    <2>1. pc[t] = "probed" /\ Goto(t, "rangeOk") /\ UNCHANGED result
      BY <1>1, <1>4, FieldLabels DEF Goto
    <2>2. row' = [row EXCEPT ![t].probed = probed]
      BY <1>1, <1>2, <1>4, FieldLabels
    <2>3. QED
      BY <1>1, <2>1, <2>2
  <1>5. CASE i = 3
    <2>1. pc[t] = "rangeOk" /\ Goto(t, "error") /\ UNCHANGED result
      BY <1>1, <1>5, FieldLabels DEF Goto
    <2>2. row' = [row EXCEPT ![t].rangeOk = acceptRanges]
      BY <1>1, <1>2, <1>5, FieldLabels
    <2>3. QED
      BY <1>1, <2>1, <2>2
  <1>6. CASE i = 4
    <2>1. pc[t] = "error" /\ Goto(t, "idle") /\ result' = [result EXCEPT ![t] = "polled"]
      BY <1>1, <1>6, FieldLabels DEF Goto
    <2>2. row' = [row EXCEPT ![t].error = error]
      BY <1>1, <1>2, <1>6, FieldLabels
    <2>3. QED
      BY <1>1, <2>1, <2>2
  <1>7. QED
    BY <1>1, <1>3, <1>4, <1>5, <1>6

LEMMA InitTypes == Init => TypeOK
  <1> SUFFICES ASSUME Init PROVE TypeOK
    OBVIOUS
  <1>1. EmptyRow \in Rows /\ RealSize \in Nat
    BY SizeAssumption DEF EmptyRow, Rows
  <1>2. QED
    BY <1>1, FieldLabels DEF Init, TypeOK, Rows

\* What the host sends is a number of bytes, or a total the file may keep.
LEMMA ResponseTypes ==
    /\ \A resp \in HeadResponses :
          resp.status \in Nat /\ resp.length \in Int \cup {Absent, Garbled}
    /\ \A resp \in GetResponses :
          resp.status \in Nat /\ resp.total \in Nat \cup {Absent}
    /\ \A resp \in GetResponses : BodyLength(resp) \in 0 .. RealSize
  <1>1. \A resp \in HeadResponses :
          resp.status \in Nat /\ resp.length \in Int \cup {Absent, Garbled}
    BY ResponsesAssumption
  <1>2. \A resp \in GetResponses :
          resp.status \in Nat /\ resp.total \in Nat \cup {Absent}
    BY ResponsesAssumption
  <1>3. \A resp \in GetResponses : BodyLength(resp) \in 0 .. RealSize
    BY <1>2, SizeAssumption DEF BodyLength, Min2
  <1>4. QED
    BY <1>1, <1>2, <1>3

\* Every step keeps the types.
LEMMA StepKeepsTypes ==
    ASSUME TypeOK, [Next]_vars
    PROVE  TypeOK'
  <1> USE FieldLabels DEF TypeOK, Verdict, Inside, Before
  <1>1. ASSUME NEW t \in Openers, Open(t)
        PROVE  TypeOK'
    BY <1>1 DEF Open, Goto
  <1>2. ASSUME NEW t \in Openers, Enter(t)
        PROVE  TypeOK'
    BY <1>2 DEF Enter, AfterLock, Goto
  <1>3. ASSUME NEW t \in Openers, NEW resp \in HeadResponses, HeadRequest(t, resp)
        PROVE  TypeOK'
    <2>1. resp.length \in Int \cup {Absent, Garbled} /\ resp.status \in Nat
      BY ResponseTypes
    <2>2. size' \in Int \cup {Absent}
      BY <1>3, <2>1 DEF HeadRequest, Unparsable
    <2>3. \E label \in Labels : pc' = [pc EXCEPT ![t] = label]
      BY <1>3 DEF HeadRequest, Raised, Goto, Labels
    <2>4. result' = result \/ result' = [result EXCEPT ![t] = "raised"]
      BY <1>3 DEF HeadRequest
    <2>5. lock' \subseteq Openers /\ error' \in BOOLEAN
      BY <1>3 DEF HeadRequest, Released
    <2>6. QED
      BY <1>3, <2>2, <2>3, <2>4, <2>5 DEF HeadRequest, Labels
  <1>4. ASSUME NEW t \in Openers, NEW resp \in GetResponses, GetRequest(t, resp)
        PROVE  TypeOK'
    <2>2. received + BodyLength(resp) \in Nat
      BY ResponseTypes, SizeAssumption
    <2>3. acceptRanges' \in BOOLEAN
      BY <1>4, Zenon DEF GetRequest
    <2>4. \E label \in {"except", "total", "settle"} : pc' = [pc EXCEPT ![t] = label]
      BY <1>4 DEF GetRequest, Raised, Goto
    <2>5. QED
      BY <1>4, <2>2, <2>3, <2>4 DEF GetRequest
  <1>5. ASSUME NEW t \in Openers, RequestFails(t) \/ Reject(t)
        PROVE  TypeOK'
    BY <1>5 DEF RequestFails, Raised, Reject, Goto
  <1>12. ASSUME NEW t \in Openers, NEW resp \in GetResponses, SetSize(t, resp)
        PROVE  TypeOK'
    <2>1. size' \in Int \cup {Absent}
      BY <1>12, ResponseTypes DEF SetSize
    <2>2. QED
      BY <1>12, <2>1 DEF SetSize, Goto
  <1>6. ASSUME NEW t \in Openers, Settle(t) \/ Leave(t)
        PROVE  TypeOK'
    <2>1. CASE Settle(t)
      BY <2>1, ZenonT(40) DEF Settle, Goto
    <2>2. CASE Leave(t)
      BY <2>2, ZenonT(40) DEF Leave, Goto, Released
    <2>3. QED
      BY <1>6, <2>1, <2>2
  <1>7. ASSUME NEW t \in Pollers, Poll(t)
        PROVE  TypeOK'
    BY <1>7 DEF Poll, Goto, EmptyRow
  <1>8. ASSUME NEW t \in Pollers, PollField(t)
        PROVE  TypeOK'
    BY <1>8, PollFieldCases DEF Goto
  <1>9. ASSUME NEW t \in Pollers, List(t)
        PROVE  TypeOK'
    <2> DEFINE shown == IF size = Absent THEN 0 ELSE size
    <2>1. shown \in Int \cup {Absent}
      OBVIOUS
    <2> HIDE DEF shown
    <2>2. EmptyRow \in Rows
      BY DEF EmptyRow, Rows
    <2>3. row' = [row EXCEPT ![t] = [EmptyRow EXCEPT !.size = shown]]
      BY <1>9 DEF List, shown
    <2>4. row' \in [Pollers -> Rows]
      BY <2>1, <2>2, <2>3 DEF Rows
    <2>5. QED
      BY <1>9, <2>4 DEF List, Rows
  <1>10. CASE UNCHANGED vars
    BY <1>10 DEF vars
  <1>11. QED
    BY <1>1, <1>2, <1>3, <1>4, <1>5, <1>6, <1>7, <1>8, <1>9, <1>10, <1>12
       DEF Next, ProbeStep

-----------------------------------------------------------------------------
(* The invariant.                                                           *)

LEMMA InitInv == Init => ProbeInv
  <1> SUFFICES ASSUME Init PROVE ProbeInv
    OBVIOUS
  <1>1. LockGuards /\ Progress
    BY SizeAssumption DEF Init, LockGuards, Progress, Inside, Before
  <1>2. SeenIsFinal
    BY DEF Init, SeenIsFinal, EmptyRow
  <1>3. QED
    BY <1>1, <1>2, InitTypes DEF ProbeInv

\* Steps of readers change nothing but their own place, row and answer.
LEMMA ReaderSteps ==
    ASSUME TypeOK, NEW t \in Pollers, Poll(t) \/ PollField(t) \/ List(t)
    PROVE  /\ UNCHANGED <<size, acceptRanges, error, probed, lock, received>>
           /\ \E label \in {"idle"} \cup Range(Fields) : pc' = [pc EXCEPT ![t] = label]
           /\ pc[t] \in {"idle"} \cup Range(Fields)
  <1>1. CASE Poll(t)
    BY <1>1, FieldLabels DEF Poll, Goto, Verdict
  <1>2. CASE PollField(t)
    BY <1>2, PollFieldCases, FieldLabels DEF Goto, Verdict
  <1>3. CASE List(t)
    BY <1>3 DEF List, Verdict, TypeOK
  <1>4. QED
    BY <1>1, <1>2, <1>3

\* Every step keeps the lock discipline.
LEMMA StepKeepsLock ==
    ASSUME TypeOK, LockGuards, [Next]_vars
    PROVE  LockGuards'
  <1> USE DEF LockGuards, Verdict, Inside, Before
  <1>1. ASSUME NEW t \in Openers, Open(t)
        PROVE  LockGuards'
    BY <1>1 DEF Open, Goto, TypeOK
  <1>2. ASSUME NEW t \in Openers, Enter(t)
        PROVE  LockGuards'
    BY <1>2 DEF Enter, Free, AfterLock, Goto, TypeOK
  <1>3. ASSUME NEW t \in Openers, NEW resp \in HeadResponses, HeadRequest(t, resp)
        PROVE  LockGuards'
    <2>0. pc[t] = "head" /\ UNCHANGED probed
      BY <1>3 DEF HeadRequest
    <2>1. t \in lock /\ ~probed
      BY <2>0
    <2>2. \/ UNCHANGED lock /\ \E label \in {"get", "except"} : pc' = [pc EXCEPT ![t] = label]
          \/ lock' = {} /\ pc' = [pc EXCEPT ![t] = "idle"]
      BY <1>3 DEF HeadRequest, Raised, Released, Goto
    <2>3. QED
      BY <2>0, <2>1, <2>2 DEF TypeOK
  <1>4. ASSUME NEW t \in Openers, NEW resp \in GetResponses, GetRequest(t, resp)
        PROVE  LockGuards'
    <2>1. /\ pc[t] = "get" /\ UNCHANGED <<probed, lock>>
          /\ \E label \in {"except", "total", "settle"} : pc' = [pc EXCEPT ![t] = label]
      BY <1>4 DEF GetRequest, Raised, Goto
    <2>2. QED
      BY <2>1 DEF TypeOK
  <1>5. ASSUME NEW t \in Openers, RequestFails(t) \/ Reject(t)
        PROVE  LockGuards'
    BY <1>5 DEF RequestFails, Reject, Raised, Goto, TypeOK
  <1>11. ASSUME NEW t \in Openers, NEW resp \in GetResponses, SetSize(t, resp)
        PROVE  LockGuards'
    BY <1>11 DEF SetSize, Goto, TypeOK
  <1>6. ASSUME NEW t \in Openers, Settle(t)
        PROVE  LockGuards'
    BY <1>6 DEF Settle, Goto, TypeOK
  <1>7. ASSUME NEW t \in Openers, Leave(t)
        PROVE  LockGuards'
    BY <1>7 DEF Leave, Released, Goto, TypeOK
  <1>8. ASSUME NEW t \in Pollers, Poll(t) \/ PollField(t) \/ List(t)
        PROVE  LockGuards'
    BY <1>8, ReaderSteps, FieldLabels DEF TypeOK
  <1>9. CASE UNCHANGED vars
    BY <1>9 DEF vars
  <1>10. QED
    BY <1>1, <1>2, <1>3, <1>4, <1>5, <1>6, <1>7, <1>8, <1>9, <1>11 DEF Next, ProbeStep

\* Before its HEAD is answered a probing thread has nothing, before its GET no bytes.
LEMMA NothingYet ==
    ASSUME LockGuards, Progress, NEW t \in Openers, pc[t] \in {"head", "get"}
    PROVE  ~probed /\ received = 0 /\ (pc[t] = "head" => size = Absent)
  <1>1. ~probed /\ \A s \in Openers : s # t => pc[s] \notin Before
    BY DEF LockGuards, Inside, Before
  <1> USE DEF Before
  <1>2. QED
    BY <1>1 DEF Progress, Settling

\* Every step keeps the progress of the probe.
LEMMA StepKeepsProgress ==
    ASSUME TypeOK, LockGuards, Progress, [Next]_vars
    PROVE  Progress'
  <1> USE DEF Progress, Settling, Verdict
  <1>0. \A s, t \in Openers : pc[s] \in Before /\ pc[t] \in Before => s = t
    BY DEF LockGuards, Inside
  <1>1. ASSUME NEW t \in Openers, Open(t) \/ Enter(t)
        PROVE  Progress'
    <2>1. /\ UNCHANGED <<size, received, probed>> /\ pc[t] \in {"idle", "wait"}
          /\ \E label \in {"wait", "leave", "head"} : pc' = [pc EXCEPT ![t] = label]
      BY <1>1 DEF Open, Enter, AfterLock, Goto
    <2>2. QED
      BY <2>1 DEF TypeOK
  <1>3. ASSUME NEW t \in Openers, NEW resp \in HeadResponses, HeadRequest(t, resp)
        PROVE  Progress'
    <2>1. received = 0 /\ received' = 0 /\ size = Absent
      BY <1>3, NothingYet DEF HeadRequest
    <2>0. pc[t] = "head" /\ \E label \in {"idle", "get", "except"} :
                                pc' = [pc EXCEPT ![t] = label]
      BY <1>3 DEF HeadRequest, Raised, Goto
    <2>2. \/ size' = Absent
          \/ pc' = [pc EXCEPT ![t] = "get"]
      BY <1>3, <2>1 DEF HeadRequest, Goto
    <2>3. QED
      BY <1>0, <2>0, <2>1, <2>2, SizeAssumption DEF TypeOK, Before
  <1>4. ASSUME NEW t \in Openers, NEW resp \in GetResponses, GetRequest(t, resp)
        PROVE  Progress'
    <2>1. /\ pc[t] = "get" /\ UNCHANGED size
          /\ \E label \in {"except", "total", "settle"} :
                pc' = [pc EXCEPT ![t] = label] /\ (label = "total" => size = Absent)
      BY <1>4 DEF GetRequest, TakesTotal, Raised, Goto
    <2>2. received = 0 /\ received' = BodyLength(resp)
      BY <1>4, <2>1, NothingYet, ResponseTypes, SizeAssumption DEF GetRequest
    <2>3. received' <= RealSize
      BY <2>2, ResponseTypes, SizeAssumption
    <2>4. QED
      BY <2>1, <2>3 DEF TypeOK
  <1>5. ASSUME NEW t \in Openers, RequestFails(t) \/ Reject(t)
        PROVE  Progress'
    BY <1>5 DEF RequestFails, Reject, Raised, Goto, TypeOK
  <1>11. ASSUME NEW t \in Openers, NEW resp \in GetResponses, SetSize(t, resp)
        PROVE  Progress'
    <2>1. pc[t] = "total" /\ pc' = [pc EXCEPT ![t] = "settle"] /\ UNCHANGED received
      BY <1>11 DEF SetSize, Goto
    <2>2. \A s \in Openers : pc'[s] # "total"
      BY <1>0, <2>1 DEF TypeOK, Before
    <2>3. QED
      BY <2>1, <2>2 DEF TypeOK
  <1>6. ASSUME NEW t \in Openers, Settle(t)
        PROVE  Progress'
    BY <1>6 DEF Settle, Goto, TypeOK
  <1>7. ASSUME NEW t \in Openers, Leave(t)
        PROVE  Progress'
    BY <1>7 DEF Leave, Goto, TypeOK, LockGuards
  <1>8. ASSUME NEW t \in Pollers, Poll(t) \/ PollField(t) \/ List(t)
        PROVE  Progress'
    BY <1>8, ReaderSteps, FieldLabels DEF TypeOK
  <1>9. CASE UNCHANGED vars
    BY <1>9 DEF vars
  <1>10. QED
    BY <1>1, <1>3, <1>4, <1>5, <1>6, <1>7, <1>8, <1>9, <1>11 DEF Next, ProbeStep

\* Steps of openers do not touch what readers have seen, and change the verdict
\* only before it is given.
LEMMA OpenerSteps ==
    ASSUME TypeOK, LockGuards, Progress, NEW t \in Openers, Open(t) \/ ProbeStep(t)
    PROVE  /\ UNCHANGED row
           /\ size' = size \/ size = Absent
           /\ probed => UNCHANGED <<size, acceptRanges, error, probed>>
           /\ \E label \in {"idle", "wait"} \cup Inside :
                 pc' = [pc EXCEPT ![t] = label]
           /\ \/ UNCHANGED result /\ pc[t] # "idle"
              \/ result' = [result EXCEPT ![t] = "none"]
              \/ result' = [result EXCEPT ![t] = "raised"]
              \/ /\ result' = [result EXCEPT ![t] = IF error THEN "denied" ELSE "opened"]
                 /\ probed
  <1> USE DEF Goto, Verdict, Inside, Before
  <1>1. CASE Open(t)
    BY <1>1 DEF Open
  <1>2. CASE Enter(t)
    BY <1>2 DEF Enter, AfterLock
  <1>3. ASSUME NEW resp \in HeadResponses, HeadRequest(t, resp)
        PROVE  /\ UNCHANGED <<row, acceptRanges, probed>> /\ pc[t] = "head"
               /\ \E label \in {"idle", "get", "except"} : pc' = [pc EXCEPT ![t] = label]
               /\ UNCHANGED result \/ result' = [result EXCEPT ![t] = "raised"]
    BY <1>3 DEF HeadRequest, Raised
  <1>4. ASSUME NEW resp \in GetResponses, GetRequest(t, resp)
        PROVE  /\ UNCHANGED <<row, result, probed, size>> /\ pc[t] = "get"
               /\ \E label \in {"except", "total", "settle"} : pc' = [pc EXCEPT ![t] = label]
    BY <1>4 DEF GetRequest, Raised
  <1>5. CASE RequestFails(t) \/ Reject(t)
    BY <1>5, NothingYet DEF RequestFails, Reject, Raised, LockGuards
  <1>9. ASSUME NEW resp \in GetResponses, SetSize(t, resp)
        PROVE  /\ UNCHANGED <<row, result, probed, acceptRanges, error>> /\ pc[t] = "total"
               /\ pc' = [pc EXCEPT ![t] = "settle"] /\ size = Absent /\ ~probed
    BY <1>9 DEF SetSize, Progress, LockGuards
  <1>6. CASE Settle(t)
    BY <1>6 DEF Settle
  <1>7. CASE Leave(t)
    BY <1>7 DEF Leave, LockGuards
  <1>8. QED
    BY <1>1, <1>2, <1>3, <1>4, <1>5, <1>6, <1>7, <1>9, NothingYet DEF ProbeStep

\* Every step keeps what openers were told and readers saw true.
LEMMA StepKeepsSeen ==
    ASSUME TypeOK, LockGuards, Progress, SeenIsFinal, [Next]_vars
    PROVE  SeenIsFinal'
  <1> USE DEF SeenIsFinal
  <1>1. ASSUME NEW t \in Openers, Open(t) \/ ProbeStep(t)
        PROVE  SeenIsFinal'
    <2>1. /\ UNCHANGED row
          /\ size' = size \/ size = Absent
          /\ probed => UNCHANGED <<acceptRanges, error, probed>>
      BY <1>1, OpenerSteps
    <2>2. \A s \in Openers \cup Pollers :
             /\ pc'[s] = pc[s] \/ pc'[s] \notin Range(Fields)
             /\ pc'[s] # "idle" /\ pc[s] = "idle" => result'[s] # "polled"
             /\ result'[s] = "polled" => result[s] = "polled"
             /\ result'[s] = "opened" => result[s] = "opened" \/ (probed /\ ~error)
             /\ result'[s] = "denied" => result[s] = "denied" \/ (probed /\ error)
      BY <1>1, OpenerSteps, FieldLabels DEF TypeOK, Inside, Before
    <2>3. QED
      BY <2>1, <2>2, FieldLabels
  <1>2. ASSUME NEW t \in Pollers, Poll(t)
        PROVE  SeenIsFinal'
    BY <1>2, FieldLabels DEF Poll, Goto, Verdict, EmptyRow, TypeOK
  <1>3. ASSUME NEW t \in Pollers, PollField(t)
        PROVE  SeenIsFinal'
    BY <1>3, PollFieldCases DEF Goto, Verdict, TypeOK
  <1>4. ASSUME NEW t \in Pollers, List(t)
        PROVE  SeenIsFinal'
    BY <1>4 DEF List, EmptyRow, Verdict, TypeOK
  <1>5. CASE UNCHANGED vars
    BY <1>5 DEF vars
  <1>6. QED
    BY <1>1, <1>2, <1>3, <1>4, <1>5 DEF Next

LEMMA StepKeepsInv == ProbeInv /\ [Next]_vars => ProbeInv'
  BY StepKeepsTypes, StepKeepsLock, StepKeepsProgress, StepKeepsSeen DEF ProbeInv

\* Whatever the host answers, the lock has one holder inside the probe, a size
\* and bytes are known only through it, and what was seen of a verdict is final.
THEOREM InvariantHolds == Spec => []ProbeInv
  BY InitInv, StepKeepsInv, PTL DEF Spec

-----------------------------------------------------------------------------
(* What follows from it.                                                    *)

\* The state of the probe has its types in every reachable state.
THEOREM TypeCorrect == Spec => []TypeOK
  <1>1. ProbeInv => TypeOK
    BY DEF ProbeInv
  <1>2. QED
    BY <1>1, InvariantHolds, PTL

\* No two clients are told opposite things about the same file, whatever the
\* host answers, for any number of clients (ensure_probed raises for all or none).
THEOREM ClientsAgree == Spec => []OpensAgree
  <1>1. ProbeInv => OpensAgree
    BY DEF ProbeInv, SeenIsFinal, OpensAgree
  <1>2. QED
    BY <1>1, InvariantHolds, PTL

\* The file is probed by one thread at a time and never after a verdict, and
\* the probes of any number of clients transfer at most one body.
THEOREM OneProbe == Spec => []ProbedOnce
  <1>1. ASSUME ProbeInv
        PROVE  ProbedOnce
    <2> DEFINE probing == {t \in Openers : pc[t] \in {"head", "get"}}
    <2>1. \A s, t \in probing : s = t
      BY <1>1 DEF ProbeInv, LockGuards, Inside, Before
    <2>2. Cardinality(probing) <= 1
      <3>1. CASE probing = {}
        BY <3>1, FS_EmptySet
      <3>2. CASE probing # {}
        <4>1. PICK t : probing = {t}
          BY <2>1, <3>2
        <4>2. Cardinality({t}) = 1
          BY FS_Singleton
        <4>3. QED
          BY <4>1, <4>2
      <3>3. QED
        BY <3>1, <3>2
    <2>3. (probed => probing = {}) /\ received <= RealSize
      BY <1>1 DEF ProbeInv, LockGuards, Progress, Before
    <2>4. QED
      BY <2>2, <2>3 DEF ProbedOnce
  <1>2. QED
    BY <1>1, InvariantHolds, PTL

\* A row of the status page that says "probed" shows the final verdict, and no
\* listing a size the file does not keep, although neither takes the lock.
THEOREM RowsConsistent == Spec => []StatusRowConsistent
  <1>1. ProbeInv => StatusRowConsistent
    BY DEF ProbeInv, SeenIsFinal, StatusRowConsistent
  <1>2. QED
    BY <1>1, InvariantHolds, PTL

\* Once there is a verdict no step changes it, and a size once known stays.
THEOREM VerdictStays == Spec => VerdictFinal
  <1>1. ASSUME ProbeInv, [Next]_vars
        PROVE  (probed => UNCHANGED Verdict) /\ (size # Absent => size' = size)
    <2>1. ASSUME NEW t \in Openers, Open(t) \/ ProbeStep(t)
          PROVE  (probed => UNCHANGED Verdict) /\ (size # Absent => size' = size)
      BY <1>1, <2>1, OpenerSteps DEF ProbeInv, Verdict
    <2>2. ASSUME NEW t \in Pollers, Poll(t) \/ PollField(t) \/ List(t)
          PROVE  UNCHANGED Verdict
      BY <1>1, <2>2, ReaderSteps DEF ProbeInv, Verdict
    <2>3. QED
      BY <1>1, <2>1, <2>2 DEF Next, vars, Verdict
  <1>2. QED
    BY <1>1, InvariantHolds, PTL DEF Spec, VerdictFinal
===============================================================================
