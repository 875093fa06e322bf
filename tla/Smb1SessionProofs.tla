-------------------------- MODULE Smb1SessionProofs --------------------------
(***************************************************************************)
(* Proofs about the open files of an SMB1 connection, for any games, paths, *)
(* trees and limits of the reply fields.                                    *)
(***************************************************************************)
EXTENDS Smb1Session, SequenceLemmas, TLAPS

-----------------------------------------------------------------------------
(* What opening and closing do to the table.                                *)

Entries == [fid : Fids, name : Names]

\* What is open under a FID, place by place.
LEMMA OpenedPlaces ==
    ASSUME opened \in Seq(Entries), NEW fid
    PROVE  /\ OpenedAs(fid) = {opened[j].name : j \in {k \in 1 .. Len(opened) : opened[k].fid = fid}}
           /\ fid \in Keys <=> \E j \in 1 .. Len(opened) : opened[j].fid = fid
  BY DEF OpenedAs, Keys, Range

\* The FID of a new open is above all that are open.
LEMMA NextFidIsNew ==
    ASSUME TypeOK, FidsFit, FidsIncrease
    PROVE  /\ NextFid \in Fids
           /\ \A j \in 1 .. Len(opened) : opened[j].fid < NextFid
  <1>1. opened \in Seq(Entries) /\ MaxFid \in Nat \ {0}
    BY BoundsAssumption DEF TypeOK, Entries
  <1>2. CASE opened = <<>>
    BY <1>1, <1>2 DEF NextFid, Fids
  <1>3. CASE opened # <<>>
    <2>1. Len(opened) \in 1 .. Len(opened) /\ NextFid = opened[Len(opened)].fid + 1
      BY <1>1, <1>3 DEF NextFid, Last
    <2>2. \A j \in 1 .. Len(opened) : opened[j].fid \in 1 .. MaxFid
      BY DEF FidsFit
    <2>3. NextFid \in Fids
      BY <1>1, <2>1, <2>2 DEF Fids
    <2>4. \A j \in 1 .. Len(opened) : j < Len(opened) => opened[j].fid < opened[Len(opened)].fid
      BY <2>1 DEF FidsIncrease
    <2>5. QED
      BY <1>1, <2>1, <2>2, <2>3, <2>4
  <1>4. QED
    BY <1>2, <1>3

\* An open that its reply can tell adds one entry, under a FID of its own.
LEMMA OpenAdds ==
    ASSUME TypeOK, FidsFit, FidsIncrease, NEW command, NEW name \in Names, NEW more,
           Open(command, name, more), NextFid <= MaxFid, NEW new, new = NextFid
    PROVE  /\ opened' \in Seq(Entries) /\ FidsFit' /\ FidsIncrease'
           /\ new \in 1 .. MaxFid
           /\ OpenedAs(new) = {} /\ OpenedAs(new)' = {name}
           /\ \A fid : fid # new => OpenedAs(fid)' = OpenedAs(fid)
           /\ \E e : e.fid = new /\ e.name = name /\ Range(opened') = Range(opened) \cup {e}
  <1> DEFINE entry == [fid |-> NextFid, name |-> name]
  <1>1. opened \in Seq(Entries) /\ MaxFid \in Nat \ {0}
    BY BoundsAssumption DEF TypeOK, Entries
  <1>2. NextFid \in Fids /\ \A j \in 1 .. Len(opened) : opened[j].fid < NextFid
    BY NextFidIsNew
  <1>3. NextFid \in 1 .. MaxFid
    BY <1>1, <1>2 DEF Fids
  <1>4. entry \in Entries /\ entry.fid = NextFid /\ entry.name = name
    BY <1>2 DEF Entries
  <1>5. opened' = Append(opened, entry)
    BY DEF Open
  <1> HIDE DEF entry
  <1>6. /\ opened' \in Seq(Entries) /\ Len(opened') = Len(opened) + 1
        /\ \A j \in 1 .. Len(opened) : opened'[j] = opened[j]
        /\ opened'[Len(opened) + 1] = entry
        /\ Range(opened') = Range(opened) \cup {entry}
    BY <1>1, <1>4, <1>5, AppendElements
  <1>7. \A j \in 1 .. Len(opened') : j \in 1 .. Len(opened) \/ j = Len(opened) + 1
    BY <1>1, <1>6
  <1>8. FidsFit'
    BY <1>3, <1>4, <1>6, <1>7 DEF FidsFit
  <1>9. FidsIncrease'
    <2>1. SUFFICES ASSUME NEW i \in 1 .. Len(opened'), NEW j \in 1 .. Len(opened'), i < j
                   PROVE  opened'[i].fid < opened'[j].fid
      BY DEF FidsIncrease
    <2>2. i \in 1 .. Len(opened)
      BY <1>1, <1>6, <2>1
    <2>3. CASE j \in 1 .. Len(opened)
      BY <1>6, <2>1, <2>2, <2>3 DEF FidsIncrease
    <2>4. CASE j = Len(opened) + 1
      BY <1>2, <1>4, <1>6, <2>2, <2>4
    <2>5. QED
      BY <1>7, <2>3, <2>4
  <1>10. \A e \in Range(opened) : e.fid < NextFid /\ e.fid # NextFid
    <2>1. \A j \in 1 .. Len(opened) : opened[j].fid \in 1 .. MaxFid
      BY DEF FidsFit
    <2>2. \A j \in 1 .. Len(opened) : opened[j].fid # NextFid
      BY <1>2, <1>3, <2>1
    <2>3. QED
      BY <1>1, <1>2, <2>2 DEF Range
  <1>11. OpenedAs(new) = {}
    BY <1>10 DEF OpenedAs
  <1>12. \A fid : {e \in Range(opened') : e.fid = fid}
                    = {e \in Range(opened) : e.fid = fid} \cup (IF fid = new THEN {entry} ELSE {})
    BY <1>4, <1>6
  <1>13. \A fid : OpenedAs(fid)' = OpenedAs(fid) \cup (IF fid = new THEN {name} ELSE {})
    BY <1>4, <1>12 DEF OpenedAs
  <1>14. \E e : e.fid = new /\ e.name = name /\ Range(opened') = Range(opened) \cup {e}
    BY <1>4, <1>6
  <1>15. QED
    BY <1>3, <1>6, <1>8, <1>9, <1>11, <1>13, <1>14

\* A close takes away the one entry of its FID.
LEMMA CloseRemoves ==
    ASSUME TypeOK, FidsFit, FidsIncrease, NEW fid \in Keys, opened' = Without(fid)
    PROVE  /\ opened' \in Seq(Entries) /\ FidsFit' /\ FidsIncrease' /\ fid \in 1 .. MaxFid
           /\ OpenedAs(fid)' = {}
           /\ \A other : other # fid => OpenedAs(other)' = OpenedAs(other)
           /\ Range(opened') = {e \in Range(opened) : e.fid # fid}
  <1> DEFINE i == Place(fid)
             n == Len(opened)
  <1>1. opened \in Seq(Entries) /\ MaxFid \in Nat \ {0} /\ n \in Nat
    BY BoundsAssumption DEF TypeOK, Entries
  <1>2. i \in 1 .. n /\ opened[i].fid = fid
    BY <1>1, OpenedPlaces DEF Place
  <1>3. \A j \in 1 .. n : opened[j].fid \in 1 .. MaxFid
    BY DEF FidsFit
  <1>4. \A j, k \in 1 .. n : j < k => opened[j].fid < opened[k].fid
    BY DEF FidsIncrease
  <1>5. \A j \in 1 .. n : j # i => opened[j].fid # fid
    BY <1>1, <1>2, <1>3, <1>4
  <1>6. opened' = RemoveAt(opened, i)
    BY DEF Without
  <1> HIDE DEF i
  <1>7. /\ opened' \in Seq(Entries) /\ Len(opened') = n - 1
        /\ \A j \in 1 .. n - 1 : opened'[j] = IF j < i THEN opened[j] ELSE opened[j + 1]
    BY <1>1, <1>2, <1>6, RemoveElements
  <1> HIDE DEF n
  <1> DEFINE from(j) == IF j < i THEN j ELSE j + 1
  <1>8. \A j \in 1 .. n - 1 : /\ from(j) \in 1 .. n /\ from(j) # i
                              /\ opened'[j] = opened[from(j)]
    BY <1>1, <1>2, <1>7
  <1>9. \A j, k \in 1 .. n - 1 : j < k => from(j) < from(k)
    BY <1>1, <1>2
  <1>10. \A k \in 1 .. n : k # i => \E j \in 1 .. n - 1 : from(j) = k
    <2>1. ASSUME NEW k \in 1 .. n, k < i
          PROVE  k \in 1 .. n - 1 /\ from(k) = k
      BY <1>1, <1>2, <2>1
    <2>2. ASSUME NEW k \in 1 .. n, k > i
          PROVE  k - 1 \in 1 .. n - 1 /\ from(k - 1) = k
      BY <1>1, <1>2, <2>2
    <2>3. \A k \in 1 .. n : k # i => k < i \/ k > i
      BY <1>1, <1>2
    <2> HIDE DEF from
    <2>4. QED
      BY <2>1, <2>2, <2>3
  <1> HIDE DEF from
  <1>11. FidsFit'
    BY <1>3, <1>7, <1>8 DEF FidsFit
  <1>12. FidsIncrease'
    BY <1>4, <1>7, <1>8, <1>9 DEF FidsIncrease
  <1>13. Range(opened') = {opened[k] : k \in {j \in 1 .. n : j # i}}
    <2>1. Range(opened') = {opened'[j] : j \in 1 .. n - 1}
      BY <1>1, <1>7 DEF Range
    <2>2. QED
      BY <1>8, <1>10, <2>1
  <1>14. Range(opened) = {opened[k] : k \in 1 .. n}
    BY <1>1 DEF Range, n
  <1>15. \A other : {e \in Range(opened') : e.fid = other}
                      = IF other = fid THEN {} ELSE {e \in Range(opened) : e.fid = other}
    BY <1>2, <1>5, <1>13, <1>14
  <1>16. \A other : OpenedAs(other)' = IF other = fid THEN {} ELSE OpenedAs(other)
    BY <1>15 DEF OpenedAs
  <1>17. fid \in 1 .. MaxFid
    BY <1>2, <1>3
  <1>18. Range(opened') = {e \in Range(opened) : e.fid # fid}
    BY <1>2, <1>5, <1>13, <1>14
  <1>19. QED
    BY <1>7, <1>11, <1>12, <1>16, <1>17, <1>18

\* The open under a FID of the table is its entry.
LEMMA EntryFound ==
    ASSUME TypeOK, NEW fid \in Keys
    PROVE  Entry(fid) \in Range(opened) /\ Entry(fid).fid = fid /\ Entry(fid).name \in Names
  <1>1. \E e \in Range(opened) : e.fid = fid
    BY DEF Keys
  <1>2. Entry(fid) \in Range(opened) /\ Entry(fid).fid = fid
    BY <1>1 DEF Entry
  <1>3. opened \in Seq(Entries)
    BY DEF TypeOK, Entries
  <1>4. \A e \in Range(opened) : e.name \in Names
    <2>1. \A j \in 1 .. Len(opened) : opened[j] \in Entries
      BY <1>3
    <2>2. \A entry \in Entries : entry.name \in Names
      BY DEF Entries
    <2>3. QED
      BY <1>3, <2>1, <2>2 DEF Range
  <1>5. QED
    BY <1>2, <1>4

\* The hook's files have no descriptor, the others have one.
LEMMA OwnedOrDescribed ==
    ASSUME TypeOK, FidsIncrease, DescriptorsAgree, NEW fid \in Keys
    PROVE  fid \in descriptors <=> ~Own(fid)
  <1>1. opened \in Seq(Entries)
    BY DEF TypeOK, Entries
  <1>2. Entry(fid) \in Range(opened) /\ Entry(fid).fid = fid /\ Entry(fid).name \in Names
    BY EntryFound
  <1>3. ASSUME NEW e \in Range(opened), e.fid = fid
        PROVE  e = Entry(fid)
    <2>1. PICK i \in 1 .. Len(opened), j \in 1 .. Len(opened) : e = opened[i] /\ Entry(fid) = opened[j]
      BY <1>1, <1>2, <1>3 DEF Range
    <2>2. opened[i].fid = opened[j].fid /\ opened[i].fid \in Int
      <3>1. opened[i] \in Entries
        BY <1>1
      <3>2. opened[i].fid \in 1 .. MaxFid + 1 /\ MaxFid \in Nat
        BY <3>1, BoundsAssumption DEF Entries, Fids
      <3>3. QED
        BY <1>2, <1>3, <2>1, <3>2
    <2>3. i < j => opened[i].fid < opened[j].fid
      BY DEF FidsIncrease
    <2>4. j < i => opened[j].fid < opened[i].fid
      BY DEF FidsIncrease
    <2>5. QED
      BY <2>1, <2>2, <2>3, <2>4, <1>1
  <1>4. fid \in descriptors <=> Entry(fid).name \in RealFiles
    BY <1>2, <1>3 DEF DescriptorsAgree
  <1>5. QED
    BY <1>2, <1>4, NamesAssumption DEF Own, Virtual, Names
-----------------------------------------------------------------------------
(* The invariant, step by step.                                             *)

LEMMA EmptyTypes ==
    /\ <<>> \in Seq([fid : Fids, name : Names])
    /\ [fid \in Fids |-> {}] \in [Fids -> SUBSET Names]
    /\ NoReply.fid \in 0 .. MaxFid
  <1>1. NoReply.fid \in 0 .. MaxFid
    BY BoundsAssumption DEF NoReply
  <1>2. [fid \in Fids |-> {}] \in [Fids -> SUBSET Names]
    OBVIOUS
  <1>3. QED
    BY <1>1, <1>2

LEMMA InitSession == Init => SessionInv
  <1> SUFFICES ASSUME Init PROVE SessionInv
    OBVIOUS
  <1>1. TypeOK
    BY EmptyTypes DEF Init, TypeOK
  <1>2. Range(opened) = {}
    BY DEF Init, Range
  <1>3. HandlesAgree
    BY <1>2 DEF Init, HandlesAgree, OpenedAs
  <1>4. FidsFit /\ FidsIncrease /\ DescriptorsAgree
    BY <1>2 DEF Init, FidsFit, FidsIncrease, DescriptorsAgree
  <1>5. QED
    BY <1>1, <1>3, <1>4 DEF SessionInv

\* What an answer may be that leaves the tables as they are.
IsAnswer ==
    /\ UNCHANGED <<opened, descriptors, held>>
    /\ reply'.fid \in 0 .. MaxFid
    /\ reply'.command = "CLOSE" => reply'.fid = 0
    /\ reply'.command = "FLUSH" /\ reply'.fid # 0 =>
          reply'.status = "ok" \/ OpenedAs(reply'.fid) \cap RealFiles # {}

LEMMA AnswerKeeps ==
    ASSUME SessionInv, IsAnswer, connected' \in BOOLEAN, shares' \subseteq Tids
    PROVE  SessionInv'
  <1>1. TypeOK'
    BY DEF SessionInv, TypeOK, IsAnswer
  <1>2. FidsFit' /\ FidsIncrease' /\ HandlesAgree' /\ DescriptorsAgree'
    BY DEF SessionInv, FidsFit, FidsIncrease, HandlesAgree, OpenedAs, DescriptorsAgree, IsAnswer
  <1>3. QED
    BY <1>1, <1>2 DEF SessionInv

\* Forgetting the connection starts over.
LEMMA DropKeeps == SessionInv /\ Drop => SessionInv'
  <1> SUFFICES ASSUME SessionInv, Drop PROVE SessionInv'
    OBVIOUS
  <1>1. TypeOK'
    BY EmptyTypes DEF Drop, TypeOK
  <1>2. Range(opened') = {}
    BY DEF Drop, Range
  <1>3. HandlesAgree'
    BY <1>2 DEF Drop, HandlesAgree, OpenedAs
  <1>4. FidsFit' /\ FidsIncrease' /\ DescriptorsAgree'
    BY <1>2 DEF Drop, FidsFit, FidsIncrease, DescriptorsAgree
  <1>5. QED
    BY <1>1, <1>3, <1>4 DEF SessionInv

\* An open that brings a descriptor for a real file, none for a game.
Opened(command, name) ==
    /\ name \in Names /\ command \in {"NT_CREATE_ANDX", "OPEN_ANDX"}
    /\ Open(command, name, IF name \in RealFiles THEN {NextFid} ELSE {})
    /\ NextFid <= MaxFid

\* It keeps the invariant.
LEMMA OpenKeeps ==
    ASSUME SessionInv, NEW command, NEW name, Opened(command, name)
    PROVE  SessionInv'
  <1> DEFINE more == IF name \in RealFiles THEN {NextFid} ELSE {}
  <1>0. name \in Names /\ Open(command, name, more) /\ NextFid <= MaxFid
    BY DEF Opened
  <1> HIDE DEF more
  <1>1. PICK new : new = NextFid
    OBVIOUS
  <1>2. TypeOK /\ FidsFit /\ FidsIncrease /\ HandlesAgree
    BY DEF SessionInv
  <1>3. /\ opened' \in Seq(Entries) /\ FidsFit' /\ FidsIncrease' /\ new \in 1 .. MaxFid
        /\ OpenedAs(new)' = {name}
        /\ \A fid : fid # new => OpenedAs(fid)' = OpenedAs(fid)
        /\ \E e : e.fid = new /\ e.name = name /\ Range(opened') = Range(opened) \cup {e}
    BY <1>0, <1>1, <1>2, OpenAdds
  <1>4. /\ held' = [held EXCEPT ![new] = {name}] /\ UNCHANGED <<connected, shares>>
        /\ descriptors' = descriptors \cup more
        /\ reply' = [command |-> command, status |-> "ok", fid |-> new]
    BY <1>0, <1>1 DEF Open, Replied
  <1>5. new \in Fids /\ held \in [Fids -> SUBSET Names]
    BY <1>2, <1>3, BoundsAssumption DEF Fids, TypeOK
  <1>6. TypeOK'
    <2>1. more \subseteq Fids
      BY <1>1, <1>5 DEF more
    <2>2. QED
      BY <1>0, <1>2, <1>3, <1>4, <1>5, <2>1 DEF TypeOK, Entries
  <1>7. HandlesAgree'
    BY <1>2, <1>3, <1>4, <1>5 DEF HandlesAgree
  <1>8. DescriptorsAgree'
    <2>1. PICK e : e.fid = new /\ e.name = name /\ Range(opened') = Range(opened) \cup {e}
      BY <1>3
    <2>2. descriptors = {x.fid : x \in {y \in Range(opened) : y.name \in RealFiles}}
      BY DEF SessionInv, DescriptorsAgree
    <2>3. more = IF e.name \in RealFiles THEN {e.fid} ELSE {}
      BY <1>1, <2>1 DEF more
    <2>4. descriptors' = {x.fid : x \in {y \in Range(opened') : y.name \in RealFiles}}
      BY ONLY <1>4, <2>1, <2>2, <2>3
    <2>5. QED
      BY <2>4 DEF DescriptorsAgree
  <1>9. QED
    BY <1>3, <1>6, <1>7, <1>8 DEF SessionInv

\* A close that ends the entry and, if it has one, the descriptor.
Closed(fid) ==
    /\ fid \in Keys
    /\ Forget(fid)
    /\ descriptors' = descriptors \ {fid}

\* It keeps the invariant.
LEMMA CloseKeeps ==
    ASSUME SessionInv, NEW fid, Closed(fid)
    PROVE  SessionInv'
  <1>0. /\ fid \in Keys /\ opened' = Without(fid) /\ held' = [held EXCEPT ![fid] = {}]
        /\ reply' = [command |-> "CLOSE", status |-> "ok", fid |-> fid]
        /\ UNCHANGED <<connected, shares>> /\ descriptors' = descriptors \ {fid}
    BY DEF Closed, Forget, Replied
  <1>1. TypeOK /\ FidsFit /\ FidsIncrease /\ HandlesAgree
    BY DEF SessionInv
  <1>2. /\ opened' \in Seq(Entries) /\ FidsFit' /\ FidsIncrease' /\ fid \in 1 .. MaxFid
        /\ OpenedAs(fid)' = {}
        /\ \A other : other # fid => OpenedAs(other)' = OpenedAs(other)
        /\ Range(opened') = {e \in Range(opened) : e.fid # fid}
    BY <1>0, <1>1, CloseRemoves
  <1>3. fid \in Fids /\ held \in [Fids -> SUBSET Names]
    BY <1>1, <1>2, BoundsAssumption DEF Fids, TypeOK
  <1>4. TypeOK'
    BY <1>0, <1>1, <1>2, <1>3, BoundsAssumption DEF TypeOK, Entries
  <1>5. HandlesAgree'
    BY <1>0, <1>1, <1>2, <1>3 DEF HandlesAgree
  <1>6. DescriptorsAgree'
    <2>1. descriptors = {x.fid : x \in {y \in Range(opened) : y.name \in RealFiles}}
      BY DEF SessionInv, DescriptorsAgree
    <2>2. descriptors' = {x.fid : x \in {y \in Range(opened') : y.name \in RealFiles}}
      BY ONLY <1>0, <1>2, <2>1
    <2>3. QED
      BY <2>2 DEF DescriptorsAgree
  <1>7. QED
    BY <1>2, <1>4, <1>5, <1>6 DEF SessionInv

\* What each request comes to: an answer that leaves the tables as they are, the
\* end of the connection, an open or a close.
LEMMA StepCases ==
    ASSUME SessionInv, Next
    PROVE  \/ IsAnswer /\ connected' \in BOOLEAN /\ shares' \subseteq Tids
           \/ Drop
           \/ \E command, name : Opened(command, name)
           \/ \E fid : Closed(fid)
  <1> DEFINE Answered == IsAnswer /\ connected' \in BOOLEAN /\ shares' \subseteq Tids
             Opens == \E command, name : Opened(command, name)
             Closes == \E fid : Closed(fid)
  <1>1. TypeOK /\ FidsFit /\ FidsIncrease /\ DescriptorsAgree /\ MaxFid \in Nat \ {0}
    BY BoundsAssumption DEF SessionInv
  <1>2. \A fid \in Keys : fid \in 1 .. MaxFid
    BY <1>1, OpenedPlaces DEF FidsFit, TypeOK, Entries
  <1>3. ASSUME NEW command, NEW status, NEW fid \in 0 .. MaxFid, Answer(command, status, fid),
               fid = 0 \/ command \notin {"CLOSE", "FLUSH"} \/ (command = "FLUSH" /\ status = "ok")
        PROVE  Answered
    BY <1>1, <1>3 DEF Answer, Replied, IsAnswer, TypeOK
  <1>4. ASSUME NEW command, NEW status, Refuse(command, status)
        PROVE  Answered
    <2>1. Answer(command, status, 0) /\ 0 \in 0 .. MaxFid
      BY <1>1, <1>4 DEF Refuse
    <2> HIDE DEF Answered
    <2>2. QED
      BY <1>3, <2>1
  <1>5. ASSUME NEW tid \in Tids, NEW share, TreeConnect(tid, share)
        PROVE  Answered
    <2>1. CASE SearchShare(share)
      BY <1>1, <1>5, <2>1 DEF TreeConnect, Replied, IsAnswer, TypeOK
    <2>2. CASE ~SearchShare(share)
      <3>1. Refuse("TREE_CONNECT", "not found")
        BY <1>5, <2>2 DEF TreeConnect
      <3> HIDE DEF Answered
      <3>2. QED
        BY <1>4, <3>1
    <2>3. QED
      BY <2>1, <2>2
  <1>6. ASSUME Connect \/ \E tid \in Tids : TreeDisconnect(tid)
        PROVE  Answered
    <2>1. CASE Connect
      BY <1>1, <1>6, <2>1 DEF Connect, IsAnswer, TypeOK, NoReply
    <2>2. ASSUME NEW tid \in Tids, TreeDisconnect(tid)
          PROVE  Answered
      BY <1>1, <1>6, <2>2 DEF TreeDisconnect, Replied, IsAnswer, TypeOK
    <2>3. QED
      BY <1>6, <2>1, <2>2
  <1>7. ASSUME Disconnect
        PROVE  Drop
    BY <1>7 DEF Disconnect
  <1>8. ASSUME NEW command \in {"NT_CREATE_ANDX", "OPEN_ANDX"}, NEW path \in Paths, NEW tid \in Tids, Create(command, path, tid)
        PROVE  Answered \/ Drop \/ Opens
    <2> DEFINE name == BaseName(path)
    <2>1. name \in Names
      BY PathsAssumption DEF BaseName, Names
    <2>2. CASE name \in Games
      <3>1. OpenGame(command, name) /\ name \notin RealFiles
        BY <1>8, <2>2, NamesAssumption DEF Create
      <3> HIDE DEF name
      <3>2. CASE Refuse(command, "access denied")
        <4> HIDE DEF Answered
        <4>1. QED
          BY <1>4, <3>2
      <3>3. ASSUME Packs(command, NextFid, FileSize[name]), Open(command, name, {})
            PROVE  Opens
        <4>1. Opened(command, name)
          BY <2>1, <3>1, <3>3 DEF Packs, Opened
        <4>2. QED
          BY <4>1
      <3>4. QED
        BY <3>1, <3>2, <3>3 DEF OpenGame
    <2>3. CASE name \notin Games
      <3>1. OpenReal(command, path, tid) /\ name \in RealFiles
        BY <1>8, <2>1, <2>3 DEF Create, Names
      <3>2. CASE Refuse(command, "bad tid") \/ Refuse(command, "no such file")
        <4> HIDE DEF Answered
        <4>1. QED
          BY <1>4, <3>2
      <3>3. ASSUME Packs(command, NextFid, 0), Open(command, BaseName(path), {NextFid})
            PROVE  Opens
        <4>1. Open(command, name, {NextFid})
          BY <3>3
        <4> HIDE DEF name
        <4>2. Opened(command, name)
          BY <2>1, <3>1, <3>3, <4>1 DEF Packs, Opened
        <4>3. QED
          BY <4>2
      <3>4. QED
        BY <3>1, <3>2, <3>3 DEF OpenReal
    <2>4. QED
      BY <2>2, <2>3
  <1>9. ASSUME NEW command, command \notin {"CLOSE", "FLUSH"},
               NEW fid \in Fids, ReadFid(command, fid)
        PROVE  Answered \/ Drop
    <2>1. ASSUME NEW status, fid \in Keys, Answer(command, status, fid)
          PROVE  Answered
      <3>1. fid \in 0 .. MaxFid
        BY <1>1, <1>2, <2>1
      <3> HIDE DEF Answered
      <3>2. QED
        BY <1>3, <1>9, <2>1, <3>1
    <2>2. CASE Refuse(command, "invalid handle")
      <3> HIDE DEF Answered
      <3>1. QED
        BY <1>4, <2>2
    <2>3. fid \in descriptors => fid \in Keys
      BY <1>1 DEF DescriptorsAgree, Keys
    <2> HIDE DEF Answered
    <2>4. CASE ReadGame(command, fid) /\ fid \in Keys
      BY <2>1, <2>4 DEF ReadGame
    <2>5. CASE StockRead(command, fid)
      BY <2>1, <2>2, <2>3, <2>5 DEF StockRead
    <2>6. QED
      BY <1>9, <2>4, <2>5 DEF ReadFid
  <1>10. ASSUME NEW command, NEW tid \in Tids, NEW fid \in Fids, Checked(command, tid, fid)
         PROVE  Answered
    <2>1. Refuse(command, "bad tid") \/ Refuse(command, "invalid handle")
      BY <1>10 DEF Checked
    <2> HIDE DEF Answered
    <2>2. QED
      BY <1>4, <2>1
  <1>11. ASSUME NEW tid \in Tids, NEW fid \in Fids, Flush(tid, fid)
         PROVE  Answered
    <2>1. CASE fid \in Keys /\ Answer("FLUSH", "ok", fid)
      <3>1. fid \in 0 .. MaxFid
        BY <1>1, <1>2, <2>1
      <3> HIDE DEF Answered
      <3>2. QED
        BY <1>3, <2>1, <3>1
    <2>2. CASE fid \in Keys /\ ~Own(fid) /\ Answer("FLUSH", "access denied", fid)
      <3>1. fid \in 1 .. MaxFid
        BY <1>2, <2>2
      <3>2. Entry(fid) \in Range(opened) /\ Entry(fid).fid = fid /\ Entry(fid).name \in Names
        BY <1>1, <2>2, EntryFound
      <3>3. Entry(fid).name \in RealFiles
        BY <2>2, <3>2 DEF Own, Virtual, Names
      <3>4. OpenedAs(fid) \cap RealFiles # {}
        BY <3>2, <3>3 DEF OpenedAs
      <3>5. /\ reply'.fid = fid /\ reply'.command = "FLUSH"
            /\ UNCHANGED <<connected, shares, opened, descriptors, held>>
        BY <2>2 DEF Answer, Replied
      <3>6. QED
        BY <1>1, <3>1, <3>4, <3>5 DEF IsAnswer, TypeOK
    <2> HIDE DEF Answered
    <2>3. QED
      BY <1>10, <1>11, <2>1, <2>2 DEF Flush, Found, StockFlush
  <1>12. ASSUME NEW tid \in Tids, NEW fid \in Fids, Close(tid, fid)
         PROVE  Answered \/ Closes
    <2> HIDE DEF Answered
    <2>1. CASE Checked("CLOSE", tid, fid)
      BY <1>10, <2>1
    <2>2. CASE ~Checked("CLOSE", tid, fid)
      <3>1. fid \in Keys /\ (fid \in descriptors <=> ~Own(fid))
        BY <1>1, <1>12, <2>2, OwnedOrDescribed DEF Close, Found
      <3>2. Forget(fid) /\ descriptors' = descriptors \ {fid}
        BY <1>12, <2>2, <3>1 DEF Close, StockClose
      <3>3. Closed(fid)
        BY <3>1, <3>2 DEF Closed
      <3>4. QED
        BY <3>3
    <2>3. QED
      BY <2>1, <2>2
  <1> HIDE DEF Answered, Opens, Closes
  <1>13. Answered \/ Drop \/ Opens \/ Closes
    <2>1. ASSUME NEW tid \in Tids, NEW path \in Paths, NtCreate(path, tid) \/ OpenAndX(path, tid)
          PROVE  Answered \/ Drop \/ Opens
      BY <1>8, <2>1 DEF NtCreate, OpenAndX
    <2>2. ASSUME NEW fid \in Fids, ReadAndX(fid) \/ Read(fid)
          PROVE  Answered \/ Drop
      BY <1>9, <2>2 DEF ReadAndX, Read
    <2>3. ASSUME NEW tid \in Tids, NEW word, NEW case, TreeConnect(tid, Share(word, case))
          PROVE  Answered
      BY <1>5, <2>3
    <2>4. QED
      BY <1>6, <1>7, <1>11, <1>12, <2>1, <2>2, <2>3 DEF Next
  <1>14. QED
    BY <1>13 DEF Answered, Opens, Closes

LEMMA StepKeepsSession == SessionInv /\ [Next]_vars => SessionInv'
  <1>1. SessionInv /\ Next => SessionInv'
    BY StepCases, AnswerKeeps, DropKeeps, OpenKeeps, CloseKeeps
  <1>2. SessionInv /\ UNCHANGED vars => SessionInv'
    BY DEF SessionInv, TypeOK, FidsFit, FidsIncrease, HandlesAgree, OpenedAs, DescriptorsAgree, vars
  <1>3. QED
    BY <1>1, <1>2

\* FIDs, table and the client's view of both stay in step through every open,
\* close, failed request and lost connection.
THEOREM SessionInvariant == Spec => []SessionInv
  BY InitSession, StepKeepsSession, PTL DEF Spec

-----------------------------------------------------------------------------
(* What follows.                                                            *)

\* The state of a connection has its types in every reachable state.
THEOREM SessionTypeCorrect == Spec => []TypeOK
  <1>1. SessionInv => TypeOK
    BY DEF SessionInv
  <1>2. QED
    BY <1>1, SessionInvariant, PTL

\* No FID is handed out while it is still open, whatever was closed before and
\* in whatever order: FIDs increase along the table.
THEOREM FidsNeverReused == Spec => []FidsIncrease
  <1>1. SessionInv => FidsIncrease
    BY DEF SessionInv
  <1>2. QED
    BY <1>1, SessionInvariant, PTL

\* What a client opened and did not close is what the server has open, under the
\* same FID and name, and nothing else is.
THEOREM ClientHoldsWhatIsOpen == Spec => []HandlesAgree
  <1>1. SessionInv => HandlesAgree
    BY DEF SessionInv
  <1>2. QED
    BY <1>1, SessionInvariant, PTL

\* The OS descriptors a connection has open are those of the real files its client
\* has open: the hooks leave none behind and take none away.
THEOREM NoDescriptorLost == Spec => []DescriptorsAgree
  <1>1. SessionInv => DescriptorsAgree
    BY DEF SessionInv
  <1>2. QED
    BY <1>1, SessionInvariant, PTL

\* On a connection that stays up an open FID ends exactly by a CLOSE that gets to
\* it, of a game and of a real file alike, and no FLUSH of a game is denied.
THEOREM HandlesServedThroughout == Spec => HandlesServed
  <1> DEFINE Served ==
        \A fid \in Fids : OpenedAs(fid) # {} /\ connected' =>
            /\ OpenedAs(fid)' # OpenedAs(fid) <=> Reached("CLOSE", fid)
            /\ Reached("FLUSH", fid) /\ OpenedAs(fid) \subseteq Games => reply'.status = "ok"
  <1>1. SessionInv /\ Next => Served
    <2> SUFFICES ASSUME SessionInv, Next PROVE Served
      OBVIOUS
    <2>1. TypeOK /\ FidsFit /\ FidsIncrease
      BY DEF SessionInv
    <2>2. CASE IsAnswer
      <3>1. ASSUME NEW fid \in Fids
            PROVE  OpenedAs(fid)' = OpenedAs(fid) /\ ~Reached("CLOSE", fid)
        BY <2>2, BoundsAssumption DEF IsAnswer, OpenedAs, Reached, Fids
      <3>2. ASSUME NEW fid \in Fids, Reached("FLUSH", fid), OpenedAs(fid) \subseteq Games
            PROVE  reply'.status = "ok"
        <4>1. fid # 0 /\ reply'.fid = fid /\ reply'.command = "FLUSH"
          BY <3>2, BoundsAssumption DEF Reached, Fids
        <4>2. OpenedAs(fid) \cap RealFiles = {}
          BY <3>2, NamesAssumption
        <4>3. QED
          BY <2>2, <4>1, <4>2 DEF IsAnswer
      <3>3. QED
        BY <3>1, <3>2
    <2>3. CASE Drop
      BY <2>3 DEF Drop
    <2>4. ASSUME NEW command, NEW name, Opened(command, name)
          PROVE  Served
      <3>1. PICK new : new = NextFid
        OBVIOUS
      <3>2. OpenedAs(new) = {} /\ \A fid : fid # new => OpenedAs(fid)' = OpenedAs(fid)
        BY <2>1, <2>4, <3>1, OpenAdds DEF Opened
      <3>3. reply'.command = command /\ command \in {"NT_CREATE_ANDX", "OPEN_ANDX"}
        BY <2>4 DEF Opened, Open, Replied
      <3>4. \A fid : ~Reached("CLOSE", fid) /\ ~Reached("FLUSH", fid)
        BY <2>4, <3>3 DEF Reached
      <3>5. QED
        BY <3>2, <3>4
    <2>5. ASSUME NEW fid, Closed(fid)
          PROVE  Served
      <3>1. OpenedAs(fid)' = {} /\ \A other : other # fid => OpenedAs(other)' = OpenedAs(other)
        BY <2>1, <2>5, CloseRemoves DEF Closed, Forget
      <3>2. reply'.command = "CLOSE" /\ reply'.fid = fid
        BY <2>5 DEF Closed, Forget, Replied
      <3>3. \A other : ~Reached("FLUSH", other) /\ (Reached("CLOSE", other) <=> other = fid)
        BY <3>2 DEF Reached
      <3>4. QED
        BY <3>1, <3>3
    <2> HIDE DEF Served
    <2>6. QED
      BY <2>2, <2>3, <2>4, <2>5, StepCases
  <1>2. SessionInv /\ [Next]_vars => [Served]_vars
    BY <1>1
  <1> HIDE DEF Served
  <1>3. Spec => [][Served]_vars
    BY <1>2, SessionInvariant, PTL DEF Spec
  <1>4. QED
    BY <1>3 DEF HandlesServed, Served
===============================================================================
