----------------------------- MODULE SearchProofs -----------------------------
(***************************************************************************)
(* Proofs about the directory searches of an SMB1 connection, for any       *)
(* games, record lengths, limits and number of searches under way.          *)
(***************************************************************************)
EXTENDS Search, SequenceLemmas, FiniteSetTheorems, TLAPS

-----------------------------------------------------------------------------
(* Pages.                                                                   *)

\* A page ends at the first entry that overflows, or with the last.
LEMMA PageEnds ==
    ASSUME NEW items \in Seq(Records), NEW limits, NEW n, n = PageLength(items, limits)
    PROVE  /\ n \in 0 .. Len(items)
           /\ \A i \in 1 .. n : ~Overflows(items, i, limits)
           /\ n = Len(items) \/ Overflows(items, n + 1, limits)
  <1> DEFINE N == Len(items)
             T == {k \in 0 .. N : k = N \/ Overflows(items, k + 1, limits)}
             Ends_(k) == /\ \A i \in 1 .. k : ~Overflows(items, i, limits)
                         /\ k = N \/ Overflows(items, k + 1, limits)
  <1>1. N \in Nat
    OBVIOUS
  <1> HIDE DEF N
  <1>2. PICK m \in T : \A k \in T : m <= k
    <2>1. T \in SUBSET Nat /\ N \in T
      BY <1>1
    <2> HIDE DEF T
    <2>2. QED
      BY <2>1, LeastNatural
  <1>3. m \in 0 .. N /\ (m = N \/ Overflows(items, m + 1, limits))
    OBVIOUS
  <1>4. ASSUME NEW i \in 1 .. m, Overflows(items, i, limits)
        PROVE  FALSE
    <2>1. i - 1 \in 0 .. N /\ (i - 1) + 1 = i /\ i - 1 < m
      BY <1>1, <1>3
    <2>2. i - 1 \in T
      BY <1>4, <2>1
    <2> HIDE DEF T
    <2>3. m <= i - 1
      BY <1>2, <2>2
    <2>4. QED
      BY <1>1, <1>3, <2>1, <2>3
  <1>5. Ends_(m)
    BY <1>3, <1>4
  <1>6. n = CHOOSE k \in 0 .. N : Ends_(k)
    BY DEF PageLength, N
  <1> HIDE DEF Ends_
  <1>7. n \in 0 .. N /\ Ends_(n)
    BY <1>3, <1>5, <1>6
  <1>8. QED
    BY <1>7 DEF Ends_, N

\* Where a prefix of the entries ends.
LEMMA PrefixEnds ==
    ASSUME NEW entries \in Seq(Records), NEW j \in 0 .. Len(entries)
    PROVE  TotalSize(SubSeq(entries, 1, j)) = Ends(entries, EntrySize)[j]
  <1> DEFINE p == SubSeq(entries, 1, j)
             S == Records
  <1>1. EntrySize \in [S -> Nat]
    BY EntrySizeAssumption
  <1>2. Len(p) = j /\ \A i \in 0 .. j : Ends(p, EntrySize)[i] = Ends(entries, EntrySize)[i]
    <2> HIDE DEF S
    <2>1. entries \in Seq(S)
      BY DEF S
    <2>2. QED
      BY <1>1, <2>1, EndsOfPrefix
  <1>3. j \in 0 .. j
    OBVIOUS
  <1> HIDE DEF p
  <1>4. TotalSize(p) = Ends(p, EntrySize)[Len(p)]
    BY DEF TotalSize
  <1>5. QED
    BY <1>2, <1>3, <1>4 DEF p

\* One entry more moves the end of a page by that entry's length.
LEMMA NextEnd ==
    ASSUME NEW entries \in Seq(Records), NEW j \in 1 .. Len(entries)
    PROVE  Ends(entries, EntrySize)[j] = Ends(entries, EntrySize)[j - 1] + EntrySize[entries[j]]
  <1> DEFINE S == Records
  <1>1. EntrySize \in [S -> Nat] /\ entries \in Seq(S)
    BY EntrySizeAssumption
  <1> HIDE DEF S
  <1>2. QED
    BY <1>1, EndsSteps

\* A page of a search that has entries left is well formed, for any limits.
LEMMA PageIsWellFormed ==
    ASSUME NEW items \in Seq(Records), items # <<>>, NEW limits \in Nat \X Nat,
           NEW n, n = PageLength(items, limits), NEW p, p = PageOf(items, limits)
    PROVE  /\ p \in Pages /\ WellFormed(p) /\ p.entries = SubSeq(items, 1, n)
           /\ n \in 1 .. Len(items)
  <1> DEFINE entries == SubSeq(items, 1, n)
             N == Len(items)
  <1>1. N \in Nat \ {0}
    OBVIOUS
  <1>2. /\ n \in 0 .. N
        /\ \A i \in 1 .. n : ~Overflows(items, i, limits)
        /\ n = N \/ Overflows(items, n + 1, limits)
    BY PageEnds
  <1>3. n \in 1 .. N
    <2>1. CASE n = 0
      <3>1. ~Overflows(items, n + 1, limits)
        BY <2>1 DEF Overflows
      <3>2. QED
        BY <1>1, <1>2, <2>1, <3>1
    <2>2. QED
      BY <1>1, <1>2, <2>1
  <1>4. /\ entries \in Seq(Records) /\ Len(entries) = n
        /\ \A j \in 1 .. n : entries[j] = items[j]
    BY <1>3
  <1>5. p.entries = entries /\ p.next = Chain(entries) /\ p.limits = limits
        /\ p = [by |-> "hook", entries |-> entries, next |-> Chain(entries), limits |-> limits]
    BY DEF PageOf
  <1>6. \A j \in 1 .. n : entries[j] \in Records /\ EntrySize[entries[j]] \in Nat \ {0}
    <2>1. \A j \in 1 .. n : entries[j] \in Records
      <3> HIDE DEF entries
      <3>1. QED
        BY <1>4
    <2>2. QED
      BY <2>1, EntrySizeAssumption
  <1> HIDE DEF entries
  <1>7. Chain(entries) \in Seq(Nat)
        /\ \A j \in 1 .. n : Chain(entries)[j] = IF j = n THEN 0 ELSE EntrySize[entries[j]]
    <2>1. Chain(entries) = [j \in 1 .. n |-> IF j = n THEN 0 ELSE EntrySize[entries[j]]]
      BY <1>4 DEF Chain
    <2>2. \A j \in 1 .. n : (IF j = n THEN 0 ELSE EntrySize[entries[j]]) \in Nat
      BY <1>6
    <2>3. n \in Nat
      BY <1>3
    <2>4. QED
      BY <2>1, <2>2, <2>3
  <1>8. p \in Pages
    BY <1>4, <1>5, <1>7 DEF Pages
  <1> DEFINE e == Ends(entries, EntrySize)
             S == Records
  <1>9. \A j \in 1 .. n : e[j] = e[j - 1] + EntrySize[entries[j]]
    BY <1>4, NextEnd
  <1>10. \A j \in 0 .. n : TotalSize(SubSeq(entries, 1, j)) = e[j]
    BY <1>4, PrefixEnds
  <1> HIDE DEF e
  <1>11. ASSUME NEW j \in 1 .. n - 1
         PROVE  p.next[j] > 0 /\ Start(p, j) + p.next[j] = Start(p, j + 1)
    <2>1. j \in 1 .. n /\ j # n /\ j - 1 \in 0 .. n /\ (j + 1) - 1 = j /\ j \in 0 .. n
      BY <1>3
    <2>2. p.next[j] = EntrySize[entries[j]] /\ EntrySize[entries[j]] \in Nat \ {0}
      BY <1>5, <1>6, <1>7, <2>1
    <2>3. Start(p, j) = e[j - 1] /\ Start(p, j + 1) = e[j]
      BY <1>5, <1>10, <2>1 DEF Start
    <2>4. QED
      BY <1>9, <2>1, <2>2, <2>3
  <1>12. n = 1 \/ (TotalSize(entries) <= limits[1] /\ n <= limits[2])
    <2>1. SUFFICES ASSUME n # 1
                   PROVE  TotalSize(entries) <= limits[1] /\ n <= limits[2]
      OBVIOUS
    <2>2. n > 1 /\ n \in 1 .. n /\ n \in Nat
      BY <1>3, <2>1
    <2>3. ~(TotalSize(SubSeq(items, 1, n)) > limits[1] \/ n - 1 >= limits[2])
      BY <1>2, <2>2 DEF Overflows
    <2>4. TotalSize(SubSeq(items, 1, n)) \in Nat
      <3>1. Ends(items, EntrySize) \in [0 .. N -> Nat]
        <4>1. EntrySize \in [S -> Nat] /\ items \in Seq(S)
          BY EntrySizeAssumption
        <4> HIDE DEF S
        <4>2. QED
          BY <4>1, EndsSteps
      <3>2. n \in 0 .. N
        BY <1>3
      <3>3. QED
        BY <3>1, <3>2, PrefixEnds
    <2>5. limits[1] \in Nat /\ limits[2] \in Nat
      OBVIOUS
    <2>6. QED
      BY <2>2, <2>3, <2>4, <2>5 DEF entries
  <1>13. n >= 1 /\ p.next[n] = 0
    BY <1>3, <1>5, <1>7
  <1>14. WellFormed(p)
    BY <1>4, <1>5, <1>11, <1>12, <1>13 DEF WellFormed
  <1>15. QED
    BY <1>3, <1>5, <1>8, <1>14 DEF entries

\* What is shown of some entries and what is left of them make them up.
LEMMA PageAndRest ==
    ASSUME NEW items \in Seq(Records), NEW n \in 0 .. Len(items),
           NEW got \in Seq(Records)
    PROVE  LET entries == SubSeq(items, 1, n)
               left == SubSeq(items, n + 1, Len(items))
           IN  /\ left \in Seq(Records) /\ got \o entries \in Seq(Records)
               /\ (got \o entries) \o left = got \o items
               /\ left = <<>> => got \o entries = got \o items
  <1> DEFINE S == Records
             entries == SubSeq(items, 1, n)
             left == SubSeq(items, n + 1, Len(items))
  <1>1. items \in Seq(S) /\ got \in Seq(S)
    OBVIOUS
  <1> HIDE DEF S
  <1>2. /\ entries \in Seq(S) /\ left \in Seq(S)
        /\ entries \o left = items
    BY <1>1, CutInTwo
  <1> HIDE DEF entries, left
  <1>3. (got \o entries) \o left = got \o (entries \o left)
    <2>1. \A a, b, c \in Seq(S) : (a \o b) \o c = a \o (b \o c)
      BY ONLY ConcatAssociative, SMTT(20)
    <2>2. QED
      BY ONLY <1>1, <1>2, <2>1
  <1>4. got \o entries \in Seq(S)
    BY ONLY <1>1, <1>2, ConcatElements
  <1>5. ASSUME left = <<>>
        PROVE  entries = items
    <2>1. entries \o <<>> = items
      BY ONLY <1>2, <1>5
    <2>2. entries \o <<>> = entries
      BY ONLY <1>2
    <2>3. QED
      BY ONLY <2>1, <2>2
  <1>6. QED
    BY <1>2, <1>3, <1>4, <1>5 DEF S, entries, left

-----------------------------------------------------------------------------
(* Search IDs.                                                              *)

LEMMA SidsAreFinite == LiveSids \subseteq 1 .. MaxSid /\ IsFiniteSet(LiveSids)
  <1>1. MaxSid \in Nat /\ LiveSids \in SUBSET (1 .. MaxSid)
    BY BoundsAssumption DEF LiveSids, Sids
  <1>2. IsFiniteSet(1 .. MaxSid)
    BY <1>1, FS_Interval
  <1>3. QED
    BY <1>1, <1>2, FS_Subset

\* The SID of a new search is above all that are live.
LEMMA NewSidIsNew == NewSid \in Nat \ {0} /\ NewSid \notin LiveSids
  <1>1. CASE LiveSids = {}
    BY <1>1 DEF NewSid
  <1>2. CASE LiveSids # {}
    <2>1. LiveSids \subseteq 1 .. MaxSid /\ MaxSid \in Nat
      BY SidsAreFinite, BoundsAssumption
    <2> DEFINE T == {MaxSid - i : i \in LiveSids}
    <2>2. T \in SUBSET Nat /\ T # {}
      <3>1. \A i \in LiveSids : MaxSid - i \in Nat
        BY <2>1
      <3>2. QED
        BY <1>2, <3>1
    <2>3. PICK m \in T : \A n \in T : m <= n
      <3> HIDE DEF T
      <3>1. QED
        BY <2>2, LeastNatural
    <2>4. PICK x \in LiveSids : m = MaxSid - x
      OBVIOUS
    <2>5. \A y \in LiveSids : MaxSid - x <= MaxSid - y
      BY <2>3, <2>4
    <2>6. \A y \in LiveSids : x >= y
      BY <2>1, <2>5
    <2>7. /\ Max(LiveSids) \in LiveSids
          /\ \A y \in LiveSids : Max(LiveSids) >= y
      BY <2>6 DEF Max
    <2>8. NewSid = Max(LiveSids) + 1
      BY <1>2 DEF NewSid
    <2>9. QED
      <3> DEFINE max == Max(LiveSids)
      <3>1. max \in 1 .. MaxSid /\ NewSid = max + 1 /\ \A y \in LiveSids : max >= y
        BY <2>1, <2>7, <2>8
      <3>2. \A y \in LiveSids : y \in Nat
        BY <2>1
      <3> HIDE DEF max
      <3>3. max + 1 \notin LiveSids /\ max + 1 \in Nat \ {0}
        BY <2>1, <3>1, <3>2
      <3>4. QED
        BY <3>1, <3>3
  <1>3. QED
    BY <1>1, <1>2

-----------------------------------------------------------------------------
(* The invariant.                                                           *)

Others(s) == {search[t].sid : t \in OpenSearches \ {s}}

\* A step that changes one search, and leaves the SIDs of the others alone.
LEMMA OneSearchKeeps ==
    ASSUME SearchInv, NEW s \in Searches, NEW rec \in SearchRecords, NEW pg \in Pages,
           search' = [search EXCEPT ![s] = rec], page' = [page EXCEPT ![s] = pg],
           sids' \in [Sids -> Seq(Records)], abandoned' \in 0 .. AbandonBound,
           \A sid \in Others(s) : sids'[sid] = sids[sid],
           rec.state = "open" =>
               /\ rec.sid \in Sids /\ rec.sid \notin Others(s) /\ sids'[rec.sid] # <<>>
               /\ rec.got \o sids'[rec.sid] = rec.wanted,
           rec.state = "ended" => rec.got = rec.wanted,
           rec.state # "invalid handle",
           pg.by = "hook" => WellFormed(pg)
    PROVE  /\ TypeOK' /\ SidsApart' /\ PagesAddUp' /\ PagesWellFormed'
           /\ HeldSids' = Others(s) \cup (IF rec.state = "open" THEN {rec.sid} ELSE {})
  <1>1. TypeOK /\ SidsApart /\ PagesAddUp /\ PagesWellFormed
    BY DEF SearchInv
  <1>2. /\ search'[s] = rec /\ \A t \in Searches \ {s} : search'[t] = search[t]
        /\ page'[s] = pg /\ \A t \in Searches \ {s} : page'[t] = page[t]
        /\ search' \in [Searches -> SearchRecords] /\ page' \in [Searches -> Pages]
    BY <1>1 DEF TypeOK
  <1>3. TypeOK'
    BY <1>2 DEF TypeOK
  <1>4. OpenSearches' = (OpenSearches \ {s}) \cup (IF rec.state = "open" THEN {s} ELSE {})
    BY <1>2, ZenonT(40) DEF OpenSearches
  <1>5. \A t \in OpenSearches \ {s} :
           /\ t \in Searches \ {s} /\ search[t].state = "open"
           /\ search'[t] = search[t] /\ search[t].sid \in Others(s)
           /\ search[t].sid \in LiveSids
    BY <1>1, <1>2, ZenonT(40) DEF OpenSearches, Others, SidsApart, HeldSids
  <1>6. HeldSids' = Others(s) \cup (IF rec.state = "open" THEN {rec.sid} ELSE {})
    <2>1. HeldSids' = {search'[t].sid : t \in OpenSearches'}
      BY DEF HeldSids
    <2>2. CASE rec.state = "open"
      BY <1>2, <1>4, <1>5, <2>1, <2>2 DEF Others
    <2>3. CASE rec.state # "open"
      <3>1. OpenSearches' = OpenSearches \ {s}
        BY <1>4, <2>3
      <3>2. {search'[t].sid : t \in OpenSearches \ {s}} = Others(s)
        <4>1. \A t \in OpenSearches \ {s} : search'[t].sid = search[t].sid
          BY <1>5
        <4>2. QED
          BY ONLY <4>1 DEF Others
      <3>3. QED
        BY <2>1, <2>3, <3>1, <3>2
    <2>4. QED
      BY <2>2, <2>3
  <1>7. SidsApart'
    <2>1. ASSUME NEW i \in HeldSids'
          PROVE  i \in LiveSids'
      <3>1. CASE i \in Others(s)
        <4>1. i \in LiveSids
          <5>1. PICK t \in OpenSearches \ {s} : i = search[t].sid
            BY <3>1 DEF Others
          <5>2. QED
            BY <1>5, <5>1
        <4>2. QED
          BY <3>1, <4>1 DEF LiveSids
      <3>2. CASE rec.state = "open" /\ i = rec.sid
        BY <3>2 DEF LiveSids
      <3>3. QED
        BY <1>6, <2>1, <3>1, <3>2
    <2>2. ASSUME NEW t \in OpenSearches', NEW u \in OpenSearches',
                 search'[t].sid = search'[u].sid
          PROVE  t = u
      <3>1. CASE t \in OpenSearches \ {s} /\ u \in OpenSearches \ {s}
        <4>1. search[t].sid = search[u].sid /\ t \in OpenSearches /\ u \in OpenSearches
          BY <1>5, <2>2, <3>1
        <4>2. QED
          BY <1>1, <4>1 DEF SidsApart
      <3>2. CASE t = s /\ u \in OpenSearches \ {s} /\ rec.state = "open"
        BY <1>2, <1>5, <2>2, <3>2
      <3>3. CASE u = s /\ t \in OpenSearches \ {s} /\ rec.state = "open"
        BY <1>2, <1>5, <2>2, <3>3
      <3>4. QED
        BY <1>4, <2>2, <3>1, <3>2, <3>3
    <2>3. QED
      BY <2>1, <2>2 DEF SidsApart
  <1>8. PagesAddUp'
    <2>1. SUFFICES ASSUME NEW t \in Searches
                   PROVE  /\ search'[t].state = "open" =>
                                search'[t].got \o sids'[search'[t].sid] = search'[t].wanted
                          /\ search'[t].state = "ended" => search'[t].got = search'[t].wanted
                          /\ search'[t].state # "invalid handle"
      BY DEF PagesAddUp
    <2>2. CASE t = s
      BY <1>2, <2>2
    <2>3. CASE t # s
      <3>1. search'[t] = search[t]
        BY <1>2, <2>3
      <3>2. /\ search[t].state = "open" => search[t].got \o sids[search[t].sid] = search[t].wanted
            /\ search[t].state = "ended" => search[t].got = search[t].wanted
            /\ search[t].state # "invalid handle"
        BY <1>1 DEF PagesAddUp
      <3>3. search[t].state = "open" => sids'[search[t].sid] = sids[search[t].sid]
        BY <1>5, <2>3 DEF OpenSearches
      <3>4. QED
        BY <3>1, <3>2, <3>3
    <2>4. QED
      BY <2>2, <2>3
  <1>9. PagesWellFormed'
    <2>1. \A t \in Searches : WellFormed(page[t])' <=> WellFormed(page'[t])
      BY DEF WellFormed, Start, TotalSize
    <2>2. \A t \in Searches : page'[t].by = "hook" => WellFormed(page'[t])
      BY <1>1, <1>2 DEF PagesWellFormed
    <2>3. QED
      BY <2>1, <2>2 DEF PagesWellFormed
  <1>10. QED
    BY <1>3, <1>6, <1>7, <1>8, <1>9

\* A page takes the first entries and leaves the others.
Cuts(items, n, p, left) ==
    /\ items \in Seq(Records) /\ n \in 0 .. Len(items)
    /\ p \in Pages /\ p.entries = SubSeq(items, 1, n)
    /\ p.by = "hook" => WellFormed(p)
    /\ left = SubSeq(items, n + 1, Len(items))

LEMMA RestIsEntries ==
    ASSUME NEW items \in Seq(Records), NEW n \in 0 .. Len(items)
    PROVE  SubSeq(items, n + 1, Len(items)) \in Seq(Records)
  <1> DEFINE S == Records
  <1>1. items \in Seq(S)
    OBVIOUS
  <1> HIDE DEF S
  <1>2. SubSeq(items, n + 1, Len(items)) \in Seq(S)
    BY <1>1
  <1>3. QED
    BY <1>2 DEF S

\* The hooks cut their pages so, for any limits.
LEMMA HookCuts ==
    ASSUME NEW items \in Seq(Records), items # <<>>, NEW limits \in Limits,
           NEW n, n = PageLength(items, limits)
    PROVE  Cuts(items, n, PageOf(items, limits), Remaining(items, limits))
  <1> DEFINE p == PageOf(items, limits)
  <1>1. limits \in Nat \X Nat
    BY LimitsAssumption DEF Limits
  <1>2. p = PageOf(items, limits)
    OBVIOUS
  <1>3. Remaining(items, limits) = SubSeq(items, n + 1, Len(items))
    BY DEF Remaining
  <1> HIDE DEF p
  <1>4. /\ p \in Pages /\ WellFormed(p) /\ p.entries = SubSeq(items, 1, n)
        /\ n \in 1 .. Len(items)
    BY <1>1, <1>2, PageIsWellFormed
  <1>5. QED
    BY <1>3, <1>4 DEF Cuts, p

\* So does impacket, except that its pages may be of any form.
LEMMA StockCuts ==
    ASSUME NEW n \in 0 .. Len(Files)
    PROVE  Cuts(Files, n, StockPage(n), SubSeq(Files, n + 1, Len(Files)))
  <1>1. Files \in Seq(Records)
    BY FilesAssumption
  <1>2. SubSeq(Files, 1, n) \in Seq(Records)
    <2> DEFINE S == Records
    <2>1. Files \in Seq(S)
      BY <1>1
    <2> HIDE DEF S
    <2>2. SubSeq(Files, 1, n) \in Seq(S)
      BY <2>1
    <2>3. QED
      BY <2>2 DEF S
  <1>3. <<0, 0>> \in Nat \X Nat /\ <<>> \in Seq(Nat)
    OBVIOUS
  <1>4. StockPage(n) \in Pages
    BY <1>2, <1>3 DEF StockPage, Pages
  <1>5. StockPage(n).by = "stock" /\ StockPage(n).entries = SubSeq(Files, 1, n)
    BY DEF StockPage
  <1>6. QED
    BY <1>1, <1>4, <1>5 DEF Cuts

\* A page goes on with a search, and what is left is under the search's SID.
GoesOn(s, sid, wanted, got, items, n, p, left) ==
    /\ SearchInv /\ s \in Searches /\ sid \in Nat
    /\ wanted \in Seq(Records) /\ got \in Seq(Records)
    /\ Cuts(items, n, p, left) /\ got \o items = wanted
    /\ Receive(s, sid, wanted, got, p, left)
    /\ sids' \in [Sids -> Seq(Records)] /\ abandoned' = abandoned
    /\ \A i \in Others(s) : sids'[i] = sids[i]
    /\ left # <<>> => sid \in Sids /\ sid \notin Others(s) /\ sids'[sid] = left

\* Such a page keeps what PagesAddUp says of the search.
LEMMA ReceiveKeeps ==
    ASSUME NEW s, NEW sid, NEW wanted, NEW got, NEW items, NEW n, NEW p, NEW left,
           GoesOn(s, sid, wanted, got, items, n, p, left)
    PROVE  /\ TypeOK' /\ SidsApart' /\ PagesAddUp' /\ PagesWellFormed'
           /\ HeldSids' = Others(s) \cup (IF left # <<>> THEN {sid} ELSE {})
  <1> DEFINE rec == [state |-> IF left = <<>> THEN "ended" ELSE "open", sid |-> sid,
                     wanted |-> wanted, got |-> got \o p.entries]
  <1> USE DEF GoesOn, Cuts
  <1>2. /\ p \in Pages /\ (p.by = "hook" => WellFormed(p))
        /\ p.entries = SubSeq(items, 1, n) /\ n \in 0 .. Len(items)
    OBVIOUS
  <1>3. left = SubSeq(items, n + 1, Len(items))
    OBVIOUS
  <1>4. search' = [search EXCEPT ![s] = rec] /\ page' = [page EXCEPT ![s] = p]
    BY DEF Receive
  <1> DEFINE entries == p.entries
  <1>5. /\ left \in Seq(Records) /\ got \o entries \in Seq(Records)
        /\ (got \o entries) \o left = got \o items
        /\ left = <<>> => got \o entries = got \o items
    <2>1. n \in 0 .. Len(items) /\ entries = SubSeq(items, 1, n)
      BY <1>2
    <2> HIDE DEF entries
    <2> DEFINE shown == SubSeq(items, 1, n)
               rest == SubSeq(items, n + 1, Len(items))
    <2>2. /\ rest \in Seq(Records) /\ got \o shown \in Seq(Records)
          /\ (got \o shown) \o rest = got \o items
          /\ rest = <<>> => got \o shown = got \o items
      BY <2>1, PageAndRest
    <2> HIDE DEF shown, rest
    <2>3. left = rest /\ entries = shown
      BY <1>3, <2>1 DEF shown, rest
    <2>4. QED
      BY ONLY <2>2, <2>3
  <1>6. rec \in SearchRecords
    BY <1>5 DEF SearchRecords, States
  <1>7. /\ rec.sid = sid /\ rec.got = got \o entries /\ rec.wanted = wanted
        /\ rec.state = (IF left = <<>> THEN "ended" ELSE "open")
    OBVIOUS
  <1> HIDE DEF rec, entries
  <1>8. rec.state = "open" =>
           /\ rec.sid \in Sids /\ rec.sid \notin Others(s) /\ sids'[rec.sid] # <<>>
           /\ rec.got \o sids'[rec.sid] = rec.wanted
    BY <1>5, <1>7
  <1>9. /\ rec.state = "ended" => rec.got = rec.wanted
        /\ rec.state # "invalid handle" /\ (rec.state = "open" <=> left # <<>>)
    BY <1>5, <1>7
  <1>10. abandoned' \in 0 .. AbandonBound
    BY DEF SearchInv, TypeOK
  <1>11. /\ TypeOK' /\ SidsApart' /\ PagesAddUp' /\ PagesWellFormed'
         /\ HeldSids' = Others(s) \cup (IF rec.state = "open" THEN {rec.sid} ELSE {})
    BY <1>2, <1>4, <1>6, <1>8, <1>9, <1>10, OneSearchKeeps
  <1>12. QED
    BY <1>7, <1>9, <1>11

LEMMA SearchOfState ==
    ASSUME NEW state
    PROVE  [NoSearch EXCEPT !.state = state]
              = [state |-> state, sid |-> 0, wanted |-> <<>>, got |-> <<>>]
  BY DEF NoSearch

LEMMA NobodysPage == NoPage.by # "hook"
  BY DEF NoPage

LEMMA NoEntries == <<>> \in Seq(Records) /\ <<>> \in Seq(Nat)
  OBVIOUS

\* The record of a search that was ended without a page, and the page.
LEMMA StoppedRecord ==
    ASSUME NEW state \in {"free", "no file", "refused"}
    PROVE  /\ [NoSearch EXCEPT !.state = state] \in SearchRecords
           /\ [NoSearch EXCEPT !.state = state].state = state
           /\ NoPage \in Pages
  <1>1. [NoSearch EXCEPT !.state = state]
           = [state |-> state, sid |-> 0, wanted |-> <<>>, got |-> <<>>]
    BY SearchOfState
  <1>2. <<>> \in Seq(Records) /\ <<>> \in Seq(Nat)
    BY NoEntries
  <1>3. state \in States
    BY DEF States
  <1>4. [state |-> state, sid |-> 0, wanted |-> <<>>, got |-> <<>>] \in SearchRecords
    BY <1>2, <1>3 DEF SearchRecords
  <1>5. <<0, 0>> \in Nat \X Nat
    OBVIOUS
  <1>6. NoPage \in Pages
    BY <1>2, <1>5 DEF NoPage, Pages
  <1>7. QED
    BY <1>1, <1>4, <1>6

\* A search that stops being open without a page.
LEMMA StopKeeps ==
    ASSUME SearchInv, NEW s \in Searches,
           NEW state \in {"free", "no file", "refused"},
           search' = [search EXCEPT ![s] = [NoSearch EXCEPT !.state = state]],
           page' = [page EXCEPT ![s] = NoPage], sids' = sids,
           abandoned' \in 0 .. AbandonBound
    PROVE  /\ TypeOK' /\ SidsApart' /\ PagesAddUp' /\ PagesWellFormed'
           /\ HeldSids' = Others(s)
  <1> DEFINE rec == [NoSearch EXCEPT !.state = state]
  <1>1. rec \in SearchRecords /\ rec.state = state /\ rec.state # "open"
        /\ rec.state # "ended" /\ rec.state # "invalid handle"
    <2>1. rec \in SearchRecords /\ rec.state = state
      BY StoppedRecord
    <2> HIDE DEF rec
    <2>2. QED
      BY <2>1
  <1>2. NoPage \in Pages /\ NoPage.by # "hook"
    BY StoppedRecord DEF NoPage
  <1>3. sids' \in [Sids -> Seq(Records)]
    BY DEF SearchInv, TypeOK
  <1> HIDE DEF rec
  <1>4. search' = [search EXCEPT ![s] = rec]
    BY DEF rec
  <1>5. /\ TypeOK' /\ SidsApart' /\ PagesAddUp' /\ PagesWellFormed'
        /\ HeldSids' = Others(s) \cup (IF rec.state = "open" THEN {rec.sid} ELSE {})
    BY <1>1, <1>2, <1>3, <1>4, OneSearchKeeps
  <1>6. QED
    BY <1>1, <1>5

\* A search that is not open holds no SID, and one that is holds its own.
LEMMA OthersHold ==
    ASSUME SearchInv, NEW s \in Searches
    PROVE  /\ search[s].state # "open" => Others(s) = HeldSids
           /\ search[s].state = "open" =>
                 /\ HeldSids = Others(s) \cup {search[s].sid}
                 /\ search[s].sid \notin Others(s) /\ search[s].sid \in LiveSids
  <1>1. SidsApart
    BY DEF SearchInv
  <1>2. CASE search[s].state # "open"
    <2>1. OpenSearches \ {s} = OpenSearches
      BY <1>2 DEF OpenSearches
    <2>2. QED
      BY <1>2, <2>1 DEF Others, HeldSids
  <1>3. CASE search[s].state = "open"
    <2>1. s \in OpenSearches
      BY <1>3 DEF OpenSearches
    <2>2. HeldSids = Others(s) \cup {search[s].sid}
      BY <2>1 DEF HeldSids, Others
    <2>3. \A t \in OpenSearches \ {s} : search[t].sid # search[s].sid
      BY <1>1, <2>1 DEF SidsApart
    <2>4. search[s].sid \notin Others(s)
      BY <2>3 DEF Others
    <2>5. search[s].sid \in LiveSids
      BY <1>1, <2>1 DEF SidsApart, HeldSids
    <2>6. QED
      BY <1>3, <2>2, <2>4, <2>5
  <1>4. QED
    BY <1>2, <1>3

\* No SID is left behind by a step that lets every SID it keeps be held.
LEMMA OrphansStay ==
    ASSUME OrphansCounted, abandoned' = abandoned, abandoned \in Nat,
           LiveSids' \ HeldSids' \subseteq LiveSids \ HeldSids
    PROVE  OrphansCounted'
  <1> DEFINE A == LiveSids \ HeldSids
             B == LiveSids' \ HeldSids'
  <1>1. IsFiniteSet(A)
    <2>1. A \in SUBSET LiveSids
      OBVIOUS
    <2>2. QED
      BY <2>1, SidsAreFinite, FS_Subset
  <1>2. B \in SUBSET A
    OBVIOUS
  <1> HIDE DEF A, B
  <1>3. Cardinality(B) <= Cardinality(A) /\ IsFiniteSet(B)
    BY <1>1, <1>2, FS_Subset
  <1>4. Cardinality(B) \in Nat /\ Cardinality(A) \in Nat
    BY <1>1, <1>3, FS_CardinalityType
  <1>5. Cardinality(A) <= abandoned
    BY DEF OrphansCounted, A
  <1>6. Cardinality(B) <= abandoned'
    BY <1>3, <1>4, <1>5
  <1>7. QED
    BY <1>6 DEF OrphansCounted, B

LEMMA SearchInvStarts == Init => SearchInv
  <1> SUFFICES ASSUME Init PROVE SearchInv
    OBVIOUS
  <1>1. /\ \A i \in Sids : sids[i] = <<>>
        /\ \A s \in Searches : search[s] = NoSearch /\ page[s] = NoPage
        /\ abandoned = 0
    BY DEF Init
  <1>2. NoSearch.state = "free"
    BY DEF NoSearch
  <1>3. NoSearch \in SearchRecords /\ NoPage \in Pages
    <2>1. <<>> \in Seq(Records) /\ <<>> \in Seq(Nat)
      BY NoEntries
    <2>2. NoSearch \in SearchRecords
      BY <2>1 DEF NoSearch, SearchRecords, States
    <2>3. <<0, 0>> \in Nat \X Nat
      OBVIOUS
    <2>4. NoPage \in Pages
      BY <2>1, <2>3 DEF NoPage, Pages
    <2>5. QED
      BY <2>2, <2>4
  <1>4. TypeOK
    <2>1. sids \in [Sids -> Seq(Records)]
      BY NoEntries DEF Init
    <2>2. search \in [Searches -> SearchRecords] /\ page \in [Searches -> Pages]
      BY <1>3 DEF Init
    <2>3. abandoned \in 0 .. AbandonBound
      BY <1>1, BoundsAssumption
    <2>4. QED
      BY <2>1, <2>2, <2>3 DEF TypeOK
  <1>5. OpenSearches = {} /\ LiveSids = {}
    BY <1>1, <1>2 DEF OpenSearches, LiveSids
  <1>6. SidsApart
    BY <1>5 DEF SidsApart, HeldSids
  <1>7. PagesAddUp /\ PagesWellFormed
    <2>1. PagesAddUp
      BY <1>1, <1>2 DEF PagesAddUp
    <2>2. \A s \in Searches : page[s].by # "hook"
      BY <1>1, NobodysPage
    <2>3. QED
      BY <2>1, <2>2 DEF PagesWellFormed
  <1>8. OrphansCounted
    <2>1. LiveSids \ HeldSids = {}
      BY <1>5
    <2>2. Cardinality(LiveSids \ HeldSids) = 0
      BY ONLY <2>1, FS_EmptySet
    <2>3. abandoned = 0
      BY <1>1
    <2>4. QED
      BY ONLY <2>2, <2>3 DEF OrphansCounted
  <1>9. QED
    BY <1>4, <1>6, <1>7, <1>8 DEF SearchInv

LEMMA DropSearches == ASSUME SearchInv, Drop, abandoned' = abandoned PROVE SearchInv'
  <1>1. /\ \A i \in Sids : sids'[i] = <<>>
        /\ \A s \in Searches : search'[s] = NoSearch /\ page'[s] = NoPage
    BY DEF Drop
  <1>2. NoSearch.state = "free" /\ NoSearch \in SearchRecords /\ NoPage \in Pages
    <2>1. <<>> \in Seq(Records) /\ <<>> \in Seq(Nat)
      BY NoEntries
    <2>2. NoSearch.state = "free"
      BY DEF NoSearch
    <2>3. NoSearch \in SearchRecords
      BY <2>1 DEF NoSearch, SearchRecords, States
    <2>4. NoPage \in Pages
      <3>1. <<0, 0>> \in Nat \X Nat
        BY ONLY TRUE
      <3>2. QED
        BY <2>1, <3>1 DEF NoPage, Pages
    <2>5. QED
      BY <2>2, <2>3, <2>4
  <1>3. abandoned \in 0 .. AbandonBound /\ abandoned \in Nat
    BY BoundsAssumption DEF SearchInv, TypeOK
  <1>4. TypeOK'
    <2>1. sids' \in [Sids -> Seq(Records)]
      BY NoEntries DEF Drop
    <2>2. search' \in [Searches -> SearchRecords] /\ page' \in [Searches -> Pages]
      BY <1>2 DEF Drop
    <2>3. QED
      BY <1>3, <2>1, <2>2 DEF TypeOK
  <1>5. OpenSearches' = {} /\ LiveSids' = {}
    BY <1>1, <1>2 DEF OpenSearches, LiveSids
  <1>6. SidsApart'
    BY <1>5 DEF SidsApart, HeldSids
  <1>7. PagesAddUp' /\ PagesWellFormed'
    <2>1. PagesAddUp'
      BY <1>1, <1>2 DEF PagesAddUp
    <2>2. \A s \in Searches : page'[s].by # "hook"
      BY <1>1, NobodysPage
    <2>3. QED
      BY <2>1, <2>2 DEF PagesWellFormed
  <1>8. OrphansCounted'
    <2>1. LiveSids' \ HeldSids' = {}
      BY <1>5
    <2>2. Cardinality({}) = 0
      BY FS_EmptySet
    <2>3. QED
      BY <1>3, <2>1, <2>2 DEF OrphansCounted
  <1>9. QED
    BY <1>4, <1>6, <1>7, <1>8 DEF SearchInv

LEMMA AbandonedIsCounted ==
    ASSUME SearchInv, abandoned' = abandoned
    PROVE  abandoned' \in 0 .. AbandonBound /\ abandoned \in Nat
  BY BoundsAssumption DEF SearchInv, TypeOK

\* A search that is answered with an error, if it was not open before.
LEMMA FailKeeps ==
    ASSUME SearchInv, NEW s \in Searches, search[s].state # "open",
           NEW state \in {"free", "no file", "refused"}, Fail(s, state),
           abandoned' = abandoned
    PROVE  SearchInv'
  <1>1. abandoned' \in 0 .. AbandonBound /\ abandoned \in Nat
    BY AbandonedIsCounted
  <1>2. /\ TypeOK' /\ SidsApart' /\ PagesAddUp' /\ PagesWellFormed'
        /\ HeldSids' = Others(s)
    BY <1>1, StopKeeps DEF Fail
  <1>3. HeldSids' = HeldSids
    BY <1>2, OthersHold
  <1>4. LiveSids' = LiveSids
    BY DEF Fail, LiveSids
  <1>5. OrphansCounted'
    BY <1>1, <1>3, <1>4, OrphansStay DEF SearchInv
  <1>6. QED
    BY <1>2, <1>5 DEF SearchInv

\* A first page; the search gets a SID that no other holds if there is more.
LEMMA FirstPageKeeps ==
    ASSUME SearchInv, NEW s \in Searches, search[s].state # "open",
           NEW items, NEW n, NEW p, NEW left, Cuts(items, n, p, left),
           FirstPage(s, items, p, left), abandoned' = abandoned
    PROVE  SearchInv'
  <1> DEFINE sid == IF left = <<>> THEN FinalSid ELSE NewSid
  <1>0. /\ left # <<>> => sid \in Sids
        /\ Receive(s, sid, items, <<>>, p, left)
        /\ sids' = (IF left = <<>> THEN sids ELSE [sids EXCEPT ![sid] = left])
        /\ left = <<>> => sid = FinalSid
        /\ left # <<>> => sid = NewSid
    BY DEF FirstPage
  <1> HIDE DEF sid
  <1>1. TypeOK /\ abandoned \in Nat
    <2>1. TypeOK
      BY DEF SearchInv
    <2>2. abandoned \in Nat
      BY <2>1, BoundsAssumption DEF TypeOK
    <2>3. QED
      BY <2>1, <2>2
  <1>2. left \in Seq(Records) /\ items \in Seq(Records)
    BY RestIsEntries DEF Cuts
  <1>3. sid \in Nat /\ (left # <<>> => sid \notin LiveSids)
    BY <1>0, NewSidIsNew DEF FinalSid
  <1>4. Others(s) = HeldSids /\ HeldSids \subseteq LiveSids
    BY OthersHold DEF SearchInv, SidsApart
  <1>5. sids' \in [Sids -> Seq(Records)]
    BY <1>0, <1>1, <1>2 DEF TypeOK
  <1>6. \A i \in Others(s) : sids'[i] = sids[i]
    <2>1. \A i \in LiveSids : i \in Sids
      BY DEF LiveSids
    <2>2. QED
      BY <1>0, <1>1, <1>3, <1>4, <2>1 DEF TypeOK
  <1>7. left # <<>> => sid \in Sids /\ sid \notin Others(s) /\ sids'[sid] = left
    BY <1>0, <1>1, <1>3, <1>4 DEF TypeOK
  <1>8. <<>> \in Seq(Records) /\ <<>> \o items = items
    BY <1>2, NoEntries
  <1>9. /\ TypeOK' /\ SidsApart' /\ PagesAddUp' /\ PagesWellFormed'
        /\ HeldSids' = Others(s) \cup (IF left # <<>> THEN {sid} ELSE {})
    <2> DEFINE got == <<>>
    <2>1. got \in Seq(Records) /\ got \o items = items
      BY <1>8
    <2>2. Receive(s, sid, items, got, p, left)
      BY <1>0
    <2> HIDE DEF got
    <2>3. GoesOn(s, sid, items, got, items, n, p, left)
      BY <1>0, <1>2, <1>3, <1>5, <1>6, <1>7, <2>1, <2>2 DEF GoesOn
    <2>4. QED
      BY <2>3, ReceiveKeeps
  <1>10. LiveSids' = LiveSids \cup (IF left # <<>> THEN {sid} ELSE {})
    <2>1. CASE left = <<>>
      BY <1>0, <2>1 DEF LiveSids
    <2>2. CASE left # <<>>
      <3>1. \A i \in Sids : sids'[i] = IF i = sid THEN left ELSE sids[i]
        BY <1>0, <1>1, <2>2 DEF TypeOK
      <3>2. QED
        BY <1>0, <2>2, <3>1 DEF LiveSids
    <2>3. QED
      BY <2>1, <2>2
  <1>11. LiveSids' \ HeldSids' \subseteq LiveSids \ HeldSids
    BY <1>4, <1>9, <1>10
  <1>12. OrphansCounted'
    BY <1>1, <1>11, OrphansStay DEF SearchInv
  <1>13. QED
    BY <1>9, <1>12 DEF SearchInv

\* A further page; the SID goes when nothing is left.
LEMMA NextPageKeeps ==
    ASSUME SearchInv, NEW s \in Searches, NEW limits \in Limits, FindNext(s, limits)
    PROVE  SearchInv'
  <1> DEFINE sid == search[s].sid
             items == sids[sid]
             left == Remaining(items, limits)
  <1>1. TypeOK /\ abandoned \in Nat /\ search[s].state = "open" /\ abandoned' = abandoned
    <2>1. TypeOK
      BY DEF SearchInv
    <2>2. abandoned \in Nat
      BY <2>1, BoundsAssumption DEF TypeOK
    <2>3. search[s].state = "open" /\ abandoned' = abandoned
      BY DEF FindNext
    <2>4. QED
      BY <2>1, <2>2, <2>3
  <1>2. HeldSids = Others(s) \cup {sid} /\ sid \notin Others(s) /\ sid \in LiveSids
    BY <1>1, OthersHold
  <1>3. sid \in Sids /\ items \in Seq(Records) /\ items # <<>>
    BY <1>1, <1>2 DEF LiveSids, TypeOK
  <1>4. /\ Receive(s, sid, search[s].wanted, search[s].got, PageOf(items, limits), left)
        /\ sids' = [sids EXCEPT ![sid] = left]
    BY <1>2 DEF FindNext, Kept
  <1> DEFINE n == PageLength(items, limits)
             p == PageOf(items, limits)
  <1>5. Cuts(items, n, p, left) /\ left \in Seq(Records)
    <2> HIDE DEF items, n
    <2>1. n = PageLength(items, limits)
      BY DEF n
    <2>2. Cuts(items, n, p, left)
      BY <1>3, <2>1, HookCuts
    <2> HIDE DEF p, left
    <2>3. QED
      BY <2>2, RestIsEntries DEF Cuts
  <1>6. /\ search[s].wanted \in Seq(Records) /\ search[s].got \in Seq(Records)
        /\ sid \in Nat /\ search[s].got \o items = search[s].wanted
    <2>1. search[s] \in SearchRecords
      BY <1>1 DEF TypeOK
    <2>2. search[s].got \o items = search[s].wanted
      BY <1>1 DEF SearchInv, PagesAddUp
    <2>3. QED
      BY <2>1, <2>2 DEF SearchRecords
  <1> HIDE DEF items, left, n, p
  <1>7. sids' \in [Sids -> Seq(Records)] /\ sids'[sid] = left
        /\ \A i \in Sids \ {sid} : sids'[i] = sids[i]
    BY <1>1, <1>3, <1>4, <1>5 DEF TypeOK
  <1>8. \A i \in Others(s) : sids'[i] = sids[i]
    <2>1. \A i \in Others(s) : i \in Sids \ {sid}
      BY <1>2 DEF SearchInv, SidsApart, LiveSids
    <2>2. QED
      BY <1>7, <2>1
  <1>9. /\ TypeOK' /\ SidsApart' /\ PagesAddUp' /\ PagesWellFormed'
        /\ HeldSids' = Others(s) \cup (IF left # <<>> THEN {sid} ELSE {})
    <2> DEFINE wanted == search[s].wanted
               got == search[s].got
    <2> HIDE DEF sid, wanted, got
    <2>2. /\ Receive(s, sid, wanted, got, p, left) /\ got \o items = wanted
          /\ wanted \in Seq(Records) /\ got \in Seq(Records) /\ sid \in Nat
      BY <1>4, <1>6 DEF wanted, got, p
    <2>3. GoesOn(s, sid, wanted, got, items, n, p, left)
      BY <1>1, <1>2, <1>3, <1>5, <1>7, <1>8, <2>2 DEF GoesOn
    <2>4. QED
      BY <2>3, ReceiveKeeps
  <1>10. LiveSids' = (LiveSids \ {sid}) \cup (IF left # <<>> THEN {sid} ELSE {})
    BY <1>3, <1>7 DEF LiveSids
  <1>11. LiveSids' \ HeldSids' \subseteq LiveSids \ HeldSids
    BY <1>2, <1>9, <1>10
  <1>12. OrphansCounted'
    BY <1>1, <1>11, OrphansStay DEF SearchInv
  <1>13. QED
    BY <1>9, <1>12 DEF SearchInv

\* A client that walks away leaves one SID behind.
LEMMA AbandonKeeps ==
    ASSUME SearchInv, NEW s \in Searches, Abandon(s)
    PROVE  SearchInv'
  <1> DEFINE sid == search[s].sid
             A == LiveSids \ HeldSids
  <1>1. /\ abandoned \in Nat /\ abandoned' = abandoned + 1 /\ abandoned' \in 0 .. AbandonBound
        /\ search[s].state = "open"
    BY BoundsAssumption DEF SearchInv, TypeOK, Abandon
  <1>2. [NoSearch EXCEPT !.state = "free"] = NoSearch
    <2>1. [NoSearch EXCEPT !.state = "free"]
             = [state |-> "free", sid |-> 0, wanted |-> <<>>, got |-> <<>>]
      BY SearchOfState
    <2>2. QED
      BY ONLY <2>1 DEF NoSearch
  <1>3. /\ TypeOK' /\ SidsApart' /\ PagesAddUp' /\ PagesWellFormed'
        /\ HeldSids' = Others(s)
    <2>1. /\ search' = [search EXCEPT ![s] = [NoSearch EXCEPT !.state = "free"]]
          /\ page' = [page EXCEPT ![s] = NoPage] /\ sids' = sids
      BY <1>2 DEF Abandon
    <2>2. "free" \in {"free", "no file", "refused"}
      OBVIOUS
    <2>3. QED
      BY <1>1, <2>1, <2>2, StopKeeps
  <1>4. HeldSids = Others(s) \cup {sid}
    BY <1>1, OthersHold
  <1>5. LiveSids' = LiveSids
    BY DEF Abandon, LiveSids
  <1>6. LiveSids' \ HeldSids' \in SUBSET (A \cup {sid})
    BY <1>3, <1>4, <1>5
  <1>7. IsFiniteSet(A) /\ Cardinality(A) \in Nat
    <2>1. A \in SUBSET LiveSids
      OBVIOUS
    <2> HIDE DEF A
    <2>2. QED
      BY <2>1, SidsAreFinite, FS_Subset, FS_CardinalityType
  <1>8. Cardinality(A) <= abandoned
    BY DEF SearchInv, OrphansCounted
  <1> HIDE DEF A, sid
  <1>9. IsFiniteSet(A \cup {sid}) /\ Cardinality(A \cup {sid}) <= Cardinality(A) + 1
        /\ Cardinality(A \cup {sid}) \in Nat
    BY <1>7, FS_AddElement, FS_CardinalityType, SMTT(20)
  <1> DEFINE B == LiveSids' \ HeldSids'
  <1>10. B \in SUBSET (A \cup {sid})
    BY <1>6
  <1> HIDE DEF B
  <1>11. Cardinality(B) <= Cardinality(A \cup {sid}) /\ Cardinality(B) \in Nat
    BY <1>9, <1>10, FS_Subset, FS_CardinalityType
  <1>12. Cardinality(B) <= abandoned'
    BY <1>1, <1>7, <1>8, <1>9, <1>11
  <1>13. OrphansCounted'
    BY <1>12 DEF OrphansCounted, B
  <1>14. QED
    BY <1>3, <1>13 DEF SearchInv

\* A step that changes nothing.
LEMMA SameSearches == ASSUME SearchInv, UNCHANGED vars PROVE SearchInv'
  <1>1. TypeOK' /\ SidsApart' /\ PagesAddUp'
    BY DEF SearchInv, vars, TypeOK, SidsApart, HeldSids, OpenSearches, LiveSids, PagesAddUp
  <1>2. PagesWellFormed'
    BY DEF SearchInv, vars, PagesWellFormed, WellFormed, Start, TotalSize
  <1>3. OrphansCounted'
    BY DEF SearchInv, vars, OrphansCounted, HeldSids, OpenSearches, LiveSids
  <1>4. QED
    BY <1>1, <1>2, <1>3 DEF SearchInv

LEMMA SearchInvStays == SearchInv /\ [Next]_vars => SearchInv'
  <1> SUFFICES ASSUME SearchInv, [Next]_vars PROVE SearchInv'
    OBVIOUS
  <1>1. ASSUME NEW s \in Searches, NEW folder \in Folders, NEW glob \in Globs,
               NEW known \in BOOLEAN, NEW unicode \in BOOLEAN, NEW limits \in Limits,
               FindFirst(s, folder, glob, known, unicode, limits)
        PROVE  SearchInv'
    <2> DEFINE items == Entries(folder, glob)
               left == Remaining(items, limits)
               n == PageLength(items, limits)
    <2>1. search[s].state # "open" /\ abandoned' = abandoned
      BY <1>1 DEF FindFirst
    <2>2. items \in Seq(Records)
      <3>1. Games \in Seq(Records)
        BY GamesAssumption
      <3>2. Matching(Games, glob) \in Seq(Records)
        <4> DEFINE S == Records
        <4>1. Games \in Seq(S)
          BY <3>1
        <4> HIDE DEF S
        <4>2. Matching(Games, glob) \in Seq(S)
          BY <4>1, MatchingProperties
        <4>3. QED
          BY <4>2 DEF S
      <3>3. QED
        BY <3>2, NoEntries DEF Entries
    <2>3. ASSUME NEW state \in {"no file", "refused"}, Fail(s, state)
          PROVE  SearchInv'
      BY <2>1, <2>3, FailKeeps
    <2>4. CASE Drop
      BY <2>1, <2>4, DropSearches
    <2>5. CASE items # <<>> /\ FirstPage(s, items, PageOf(items, limits), left)
      <3>1. n = PageLength(items, limits) /\ left = Remaining(items, limits)
        OBVIOUS
      <3> HIDE DEF items, left, n
      <3>2. Cuts(items, n, PageOf(items, limits), left)
        BY <2>2, <2>5, <3>1, HookCuts
      <3>3. QED
        BY <2>1, <2>5, <3>2, FirstPageKeeps
    <2>6. QED
      BY <1>1, <2>3, <2>4, <2>5 DEF FindFirst
  <1>2. ASSUME NEW s \in Searches, FindFirstStock(s)
        PROVE  SearchInv'
    <2>1. search[s].state # "open" /\ abandoned' = abandoned
      BY <1>2 DEF FindFirstStock
    <2>2. CASE Fail(s, "refused")
      BY <2>1, <2>2, FailKeeps
    <2>3. CASE Drop
      BY <2>1, <2>3, DropSearches
    <2>4. ASSUME NEW n \in 0 .. Len(Files),
                 FirstPage(s, Files, StockPage(n), SubSeq(Files, n + 1, Len(Files)))
          PROVE  SearchInv'
      <3> DEFINE p == StockPage(n)
                 left == SubSeq(Files, n + 1, Len(Files))
      <3>1. Cuts(Files, n, p, left)
        BY StockCuts
      <3> HIDE DEF p, left
      <3>2. FirstPage(s, Files, p, left)
        BY <2>4 DEF p, left
      <3>3. QED
        BY <2>1, <3>1, <3>2, FirstPageKeeps
    <2>5. QED
      BY <1>2, <2>2, <2>3, <2>4 DEF FindFirstStock
  <1>3. ASSUME Disconnect
        PROVE  SearchInv'
    BY <1>3, DropSearches DEF Disconnect
  <1>4. QED
    BY <1>1, <1>2, <1>3, NextPageKeeps, AbandonKeeps, SameSearches DEF Next

-----------------------------------------------------------------------------
(* Theorems.                                                                *)

\* However searches interleave, every open one has a SID of its own under which
\* the server keeps exactly what its client was not shown yet.
THEOREM SearchInvariant == Spec => []SearchInv
  BY SearchInvStarts, SearchInvStays, PTL DEF Spec

\* The types of SIDs, searches and pages.
THEOREM SearchTypeCorrect == Spec => []TypeOK
  BY SearchInvariant, PTL DEF SearchInv

\* No search loses its SID to another, and its pages make up the whole result.
THEOREM SearchesAddUp == Spec => []PagesAddUp
  BY SearchInvariant, PTL DEF SearchInv

\* Every page has an entry, fits the limits unless it has only one, and its
\* NextEntryOffsets lead from its first entry to its last, for any lengths.
THEOREM FindPagesWellFormed == Spec => []PagesWellFormed
  BY SearchInvariant, PTL DEF SearchInv

\* The server keeps no more SIDs than there are searches open or walked away from.
THEOREM SidsAreBounded == Spec => []NoIdleSids
  <1>1. SearchInv => NoIdleSids
    <2> SUFFICES ASSUME SearchInv PROVE NoIdleSids
      OBVIOUS
    <2> DEFINE A == LiveSids \ HeldSids
               f == [s \in OpenSearches |-> search[s].sid]
    <2>1. IsFiniteSet(OpenSearches)
      <3>1. OpenSearches \in SUBSET Searches
        BY DEF OpenSearches
      <3>2. QED
        BY <3>1, BoundsAssumption, FS_Subset
    <2>2. f \in Surjection(OpenSearches, HeldSids)
      BY DEF Surjection, HeldSids
    <2>3. /\ IsFiniteSet(HeldSids) /\ Cardinality(HeldSids) <= Cardinality(OpenSearches)
          /\ Cardinality(HeldSids) \in Nat /\ Cardinality(OpenSearches) \in Nat
      <3> HIDE DEF f
      <3>1. QED
        BY <2>1, <2>2, FS_Surjection, FS_CardinalityType
    <2>4. IsFiniteSet(A) /\ Cardinality(A) \in Nat
      <3>1. A \in SUBSET LiveSids
        OBVIOUS
      <3> HIDE DEF A
      <3>2. QED
        BY <3>1, SidsAreFinite, FS_Subset, FS_CardinalityType
    <2>5. LiveSids = A \cup HeldSids /\ A \cap HeldSids = {}
      BY DEF SearchInv, SidsApart
    <2>6. Cardinality(A) <= abandoned /\ abandoned \in Nat
      BY BoundsAssumption DEF SearchInv, OrphansCounted, TypeOK
    <2> HIDE DEF A
    <2>7. Cardinality(LiveSids) = Cardinality(A) + Cardinality(HeldSids)
      <3>1. Cardinality(A \cup HeldSids)
              = Cardinality(A) + Cardinality(HeldSids) - Cardinality(A \cap HeldSids)
        BY <2>3, <2>4, FS_Union
      <3>2. Cardinality(A \cap HeldSids) = 0
        BY <2>5, FS_EmptySet
      <3>3. QED
        BY <2>3, <2>4, <2>5, <3>1, <3>2
    <2>8. Cardinality(LiveSids) <= abandoned + Cardinality(OpenSearches)
      BY <2>3, <2>4, <2>6, <2>7
    <2>9. QED
      BY <2>8 DEF NoIdleSids, OpenSearches
  <1>2. QED
    BY <1>1, SearchInvariant, PTL
===============================================================================
