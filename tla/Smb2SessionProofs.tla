-------------------------- MODULE Smb2SessionProofs --------------------------
(***************************************************************************)
(* Proofs about the listings of an SMB2 connection, for any games, record   *)
(* lengths, patterns, buffers and padding.                                  *)
(***************************************************************************)
EXTENDS Smb2Session, SequenceLemmas, TLAPS

-----------------------------------------------------------------------------
(* Listings.                                                                *)

\* The games that match, and how many.
LEMMA MatchesAreGames ==
    ASSUME NEW glob
    PROVE  /\ Matches(glob) \in Seq(Range(Games))
           /\ Len(Matches(glob)) \in 0 .. Len(Games)
           /\ Range(Matches(glob)) = Range(Games) \cap glob
  <1> DEFINE S == Range(Games)
  <1>1. Games \in Seq(S)
    BY GamesAssumption
  <1>2. Len(Games) \in Nat /\ Matches(glob) = Matching(Games, glob)
    BY <1>1 DEF Matches
  <1>3. /\ Matches(glob) \in Seq(S) /\ Len(Matches(glob)) <= Len(Games)
        /\ Range(Matches(glob)) = Range(Games) \cap glob
    <2> HIDE DEF S
    <2>1. QED
      BY <1>1, <1>2, MatchingProperties
  <1>4. Len(Matches(glob)) \in Nat
    BY <1>3
  <1>5. QED
    BY <1>2, <1>3, <1>4

\* A page continues what was shown where the cursor stands.
LEMMA SeenGoesOn ==
    ASSUME NEW m \in Seq(Range(Games)), NEW c \in 0 .. Len(m), NEW n \in 0 .. Len(m) - c,
           NEW left, left = SubSeq(m, c + 1, Len(m))
    PROVE  UpTo(SubSeq(m, 1, c) \o SubSeq(left, 1, n), Len(m)) = SubSeq(m, 1, c + n)
  <1> DEFINE a == SubSeq(m, 1, c)
             b == SubSeq(left, 1, n)
             s == SubSeq(m, 1, c + n)
  <1>1. Len(m) \in Nat /\ c \in Nat /\ n \in Nat /\ c + n <= Len(m)
    OBVIOUS
  <1>2. /\ a \in Seq(Range(Games)) /\ Len(a) = c
        /\ \A j \in 1 .. c : a[j] = m[j]
    OBVIOUS
  <1>3. /\ left \in Seq(Range(Games)) /\ Len(left) = Len(m) - c
        /\ \A j \in 1 .. Len(m) - c : left[j] = m[c + j]
    OBVIOUS
  <1>4. /\ b \in Seq(Range(Games)) /\ Len(b) = n
        /\ \A j \in 1 .. n : b[j] = m[c + j]
    <2>1. b \in Seq(Range(Games)) /\ Len(b) = n /\ \A j \in 1 .. n : b[j] = left[j]
      BY <1>1, <1>3
    <2>2. QED
      BY <1>1, <1>3, <2>1
  <1>5. /\ s \in Seq(Range(Games)) /\ Len(s) = c + n
        /\ \A j \in 1 .. c + n : s[j] = m[j]
    BY <1>1
  <1> HIDE DEF a, b, s
  <1>6. a \o b = s
    <2>1. /\ a \o b \in Seq(Range(Games)) /\ Len(a \o b) = c + n
          /\ \A j \in 1 .. c + n : (a \o b)[j] = IF j <= c THEN a[j] ELSE b[j - c]
      BY <1>2, <1>4, ConcatElements, ZenonT(40)
    <2>2. ASSUME NEW j \in 1 .. c + n
          PROVE  (a \o b)[j] = s[j]
      <3>1. (a \o b)[j] = IF j <= c THEN a[j] ELSE b[j - c]
        BY <2>1
      <3>2. CASE j <= c
        <4>1. j \in 1 .. c
          BY <1>1, <3>2
        <4>2. QED
          BY <1>2, <1>5, <3>1, <3>2, <4>1
      <3>3. CASE ~(j <= c)
        <4>1. j - c \in 1 .. n /\ c + (j - c) = j
          BY <1>1, <3>3
        <4>2. QED
          BY <1>4, <1>5, <3>1, <3>3, <4>1
      <3>4. QED
        BY <3>2, <3>3
    <2>3. QED
      BY <1>1, <1>5, <2>1, <2>2, SMTT(20)
  <1>7. UpTo(s, Len(m)) = s
    <2>1. SubSeq(s, 1, c + n) = s
      BY <1>1, <1>5
    <2>2. CASE c + n < Len(m)
      BY <1>5, <2>1, <2>2 DEF UpTo
    <2>3. CASE c + n = Len(m)
      BY <1>5, <2>1, <2>3 DEF UpTo
    <2>4. QED
      BY <1>1, <2>2, <2>3
  <1>8. QED
    BY <1>6, <1>7 DEF a, b, s

\* What was shown in full stays as it is.
LEMMA SeenStays ==
    ASSUME NEW m \in Seq(Range(Games)), NEW t \in Seq(Range(Games))
    PROVE  UpTo(m \o t, Len(m)) = m
  <1>1. Len(m \o t) = Len(m) + Len(t) /\ Len(m) \in Nat /\ Len(t) \in Nat
    OBVIOUS
  <1>2. UpTo(m \o t, Len(m)) = SubSeq(m \o t, 1, Len(m))
    BY <1>1 DEF UpTo
  <1>3. SubSeq(m \o t, 1, Len(m)) = m
    OBVIOUS
  <1>4. QED
    BY <1>2, <1>3

-----------------------------------------------------------------------------
(* The invariant.                                                           *)

\* A step that leaves the open files and the client's handles alone.
Quiet ==
    /\ opened' = opened /\ held' = held /\ created' = created
    /\ connected' \in BOOLEAN /\ shares' \subseteq Tids
    /\ last' \in {last, AllOnes}

LEMMA QuietKeeps == ASSUME HandlesInv, Quiet PROVE HandlesInv'
  <1>1. TypeOK'
    BY DEF HandlesInv, TypeOK, Quiet, AllOnes
  <1>2. HandlesAgree'
    BY DEF HandlesInv, HandlesAgree, Quiet, Open, Virtual
  <1>3. SeenSoFar'
    BY DEF HandlesInv, SeenSoFar, SeenToCursor, Quiet
  <1>4. QED
    BY <1>1, <1>2, <1>3 DEF HandlesInv

LEMMA DropKeeps == ASSUME HandlesInv, Drop PROVE HandlesInv'
  <1>1. opened' = <<>> /\ held' = <<>> /\ DOMAIN (opened') = {} /\ DOMAIN (held') = {}
    BY DEF Drop
  <1>2. TypeOK'
    <2>1. created' = created /\ created \in 0 .. MaxCreates /\ created \in Nat
      BY BoundsAssumption DEF HandlesInv, TypeOK, Drop
    <2>2. connected' = FALSE /\ shares' = {} /\ last' = 0
      BY DEF Drop, AllOnes
    <2>3. \A T : opened' \in [DOMAIN (opened') -> T] /\ held' \in [DOMAIN (held') -> T]
      BY <1>1
    <2>4. DOMAIN (held') \subseteq 1 .. created' /\ DOMAIN (opened') \subseteq 1 .. created'
      BY <1>1
    <2>5. connected' \in BOOLEAN /\ shares' \subseteq Tids
      BY <2>2
    <2>6. last' \in 0 .. created'
      BY <2>1, <2>2
    <2>7. QED
      BY <2>1, <2>3, <2>4, <2>5, <2>6 DEF TypeOK
  <1>3. HandlesAgree' /\ SeenSoFar'
    BY <1>1 DEF HandlesAgree, SeenSoFar
  <1>4. QED
    BY <1>2, <1>3 DEF HandlesInv

\* A new handle is at the start of its listing, and no one was shown any of it.
LEMMA OpeningKeeps ==
    ASSUME HandlesInv, NEW name \in Names, NEW glob \in Globs \cup {{}},
           created < MaxCreates, OpenFile(name, glob), last' \in {last, created'},
           connected' = connected
    PROVE  HandlesInv'
  <1> DEFINE id == created + 1
             entry == [name |-> name, cursor |-> 0]
             handle == [name |-> name, glob |-> glob, seen |-> <<>>]
  <1>1. created \in Nat /\ MaxCreates \in Nat \ {0}
    BY BoundsAssumption DEF HandlesInv, TypeOK
  <1>2. created' = id /\ id \in 1 .. MaxCreates /\ 1 .. id = (1 .. created) \cup {id}
    BY <1>1 DEF OpenFile
  <1>3. id \notin DOMAIN opened /\ id \notin DOMAIN held
    BY <1>1 DEF HandlesInv, TypeOK
  <1>4. /\ DOMAIN (opened') = DOMAIN opened \cup {id} /\ opened'[id] = entry
        /\ \A k \in DOMAIN opened : opened'[k] = opened[k]
        /\ opened' = [k \in DOMAIN (opened') |-> opened'[k]]
    BY <1>3 DEF OpenFile, Registered, With
  <1>5. /\ DOMAIN (held') = DOMAIN held \cup {id} /\ held'[id] = handle
        /\ \A k \in DOMAIN held : held'[k] = held[k]
        /\ held' = [k \in DOMAIN (held') |-> held'[k]]
    BY <1>3 DEF OpenFile, With
  <1>6. entry \in [name : Names, cursor : -1 .. Len(Games)]
    <2>1. Games \in Seq(Range(Games)) /\ Games # <<>>
      BY GamesAssumption
    <2>2. Len(Games) \in Nat \ {0}
      BY <2>1
    <2>3. 0 \in -1 .. Len(Games)
      BY <2>2
    <2>4. QED
      BY <2>3
  <1>7. handle \in [name : Names, glob : Globs \cup {{}}, seen : Seq(Range(Games))]
    OBVIOUS
  <1>8. /\ entry.name = name /\ entry.cursor = 0
        /\ handle.name = name /\ handle.glob = glob /\ handle.seen = <<>>
    OBVIOUS
  <1> HIDE DEF id, entry, handle
  <1>9. TypeOK'
    <2>1. \A k \in DOMAIN opened : opened[k] \in [name : Names, cursor : -1 .. Len(Games)]
      BY DEF HandlesInv, TypeOK
    <2>2. \A k \in DOMAIN held :
             held[k] \in [name : Names, glob : Globs \cup {{}}, seen : Seq(Range(Games))]
      BY DEF HandlesInv, TypeOK
    <2>3. opened' \in [DOMAIN (opened') -> [name : Names, cursor : -1 .. Len(Games)]]
      BY <1>4, <1>6, <2>1
    <2>4. held' \in [DOMAIN (held') -> [name : Names, glob : Globs \cup {{}},
                                         seen : Seq(Range(Games))]]
      BY <1>5, <1>7, <2>2
    <2>5. DOMAIN (opened') \subseteq 1 .. created' /\ DOMAIN (held') \subseteq 1 .. created'
      BY <1>2, <1>4, <1>5 DEF HandlesInv, TypeOK
    <2>6. created' \in 0 .. MaxCreates /\ last' \in 0 .. created'
      BY <1>1, <1>2 DEF HandlesInv, TypeOK, id
    <2>7. connected' \in BOOLEAN /\ shares' \subseteq Tids
      BY DEF HandlesInv, TypeOK, OpenFile
    <2>8. QED
      BY <2>3, <2>4, <2>5, <2>6, <2>7 DEF TypeOK
  <1>10. HandlesAgree'
    <2>1. \A k \in DOMAIN (held') : k \in DOMAIN (opened') /\ opened'[k].name = held'[k].name
      BY <1>3, <1>4, <1>5, <1>8 DEF HandlesInv, HandlesAgree, Open
    <2>2. ASSUME NEW k \in DOMAIN (opened'), k \notin DOMAIN (held')
          PROVE  opened'[k].name \in Range(Games)
      BY <1>3, <1>4, <1>5, <2>2 DEF HandlesInv, HandlesAgree, Open, Virtual
    <2>3. QED
      BY <2>1, <2>2 DEF HandlesAgree, Open, Virtual
  <1>11. SeenSoFar'
    <2>1. SUFFICES ASSUME NEW k \in DOMAIN (held')
                   PROVE  IF held'[k].name = Root THEN SeenToCursor(k)' ELSE held'[k].seen = <<>>
      BY DEF SeenSoFar
    <2>2. CASE k \in DOMAIN held
      <3>1. held'[k] = held[k] /\ opened'[k] = opened[k]
        BY <1>4, <1>5, <2>2 DEF HandlesInv, HandlesAgree, Open
      <3>2. IF held[k].name = Root THEN SeenToCursor(k) ELSE held[k].seen = <<>>
        BY <2>2 DEF HandlesInv, SeenSoFar
      <3>3. SeenToCursor(k) => SeenToCursor(k)'
        BY <3>1 DEF SeenToCursor
      <3>4. QED
        BY <3>1, <3>2, <3>3
    <2>3. CASE k = id
      <3>1. Matches(glob) \in Seq(Range(Games))
        BY MatchesAreGames
      <3>2. SubSeq(Matches(glob), 1, 0) = <<>> /\ 0 \in 0 .. Len(Matches(glob))
        BY <3>1
      <3>3. /\ held'[k].glob = glob /\ held'[k].seen = <<>> /\ opened'[k].cursor = 0
        BY <1>4, <1>5, <1>8, <2>3
      <3>4. SeenToCursor(k)'
        BY <3>2, <3>3 DEF SeenToCursor
      <3>5. QED
        BY <3>3, <3>4
    <2>4. QED
      BY <1>5, <2>2, <2>3
  <1>12. QED
    BY <1>9, <1>10, <1>11 DEF HandlesInv

\* A page is shown from the cursor, which moves past it.
LEMMA ListingKeeps ==
    ASSUME HandlesInv, NEW id, Open(id), opened[id].name = Root,
           NEW buffer, NEW known, List(id, buffer, known), connected
    PROVE  HandlesInv'
  <1> DEFINE items == Matches(held[id].glob)
             cursor == opened[id].cursor
             left == SubSeq(items, Start(cursor) + 1, Len(items))
  <1>1. TypeOK /\ HandlesAgree /\ SeenSoFar
    BY DEF HandlesInv
  <1>2. id \in DOMAIN held /\ held[id].name = Root
    <2>1. Root \notin Range(Games)
      BY NamesAssumption
    <2>2. id \in DOMAIN held
      BY <1>1, <2>1 DEF HandlesAgree, Virtual, Open
    <2>3. QED
      BY <1>1, <2>2 DEF HandlesAgree
  <1>3. /\ held[id].seen \in Seq(Range(Games)) /\ held[id].glob \in Globs \cup {{}}
        /\ cursor \in -1 .. Len(Games)
    <2>1. /\ held[id] \in [name : Names, glob : Globs \cup {{}}, seen : Seq(Range(Games))]
          /\ opened[id] \in [name : Names, cursor : -1 .. Len(Games)]
      BY <1>1, <1>2 DEF TypeOK, Open
    <2>2. QED
      BY <2>1
  <1>4. items \in Seq(Range(Games)) /\ Len(items) \in 0 .. Len(Games) /\ Len(Games) \in Nat
    <2>1. Games \in Seq(Range(Games))
      BY GamesAssumption
    <2>2. QED
      BY <2>1, MatchesAreGames
  <1>5. CASE items # <<>> /\ ~known /\ Answer("invalid info class")
    <2>1. Quiet
      BY <1>1, <1>5 DEF Answer, Replied, Quiet, TypeOK
    <2>2. QED
      BY <2>1, QuietKeeps
  <1>6. ASSUME NEW n \in 0 .. Len(left), Taken(left, n, buffer),
               Show(id, SubSeq(left, 1, n)),
               opened' = [opened EXCEPT ![id].cursor = Advanced(@, n, Len(items))],
               UNCHANGED <<connected, shares, created, last>>
        PROVE  HandlesInv'
    <2> DEFINE entries == SubSeq(left, 1, n)
               seen == UpTo(held[id].seen \o entries, Len(items))
    <2>1. Start(cursor) \in Nat /\ (cursor >= 0 => Start(cursor) = cursor)
      BY <1>3, <1>4 DEF Start
    <2>2. /\ left \in Seq(Range(Games))
          /\ cursor \in 0 .. Len(items) => Len(left) = Len(items) - cursor
      <3> DEFINE s == Start(cursor)
      <3> HIDE DEF items, cursor
      <3>1. s \in Nat /\ (cursor >= 0 => s = cursor)
        BY <2>1
      <3> HIDE DEF s
      <3>2. SubSeq(items, s + 1, Len(items)) \in Seq(Range(Games))
        BY <1>4, <3>1
      <3>3. ASSUME cursor \in 0 .. Len(items)
            PROVE  Len(SubSeq(items, s + 1, Len(items))) = Len(items) - cursor
        BY <1>4, <3>1, <3>3
      <3>4. QED
        BY <3>2, <3>3 DEF s
    <2>3. n \in Nat /\ entries \in Seq(Range(Games))
      <3> HIDE DEF left
      <3>1. QED
        BY <2>2
    <2>4. held' = [held EXCEPT ![id].seen = seen]
      BY <1>6 DEF Show
    <2>5. /\ DOMAIN (held') = DOMAIN held /\ DOMAIN (opened') = DOMAIN opened
          /\ \A k \in DOMAIN held : held'[k].name = held[k].name /\ held'[k].glob = held[k].glob
          /\ \A k \in DOMAIN held : k # id => held'[k] = held[k]
          /\ \A k \in DOMAIN opened : opened'[k].name = opened[k].name
          /\ \A k \in DOMAIN opened : k # id => opened'[k] = opened[k]
          /\ held'[id].seen = seen /\ opened'[id].cursor = Advanced(cursor, n, Len(items))
      <3> HIDE DEF items, seen
      <3>1. QED
        BY <1>1, <1>2, <1>6, <2>4 DEF TypeOK, Open
    <2>8. Advanced(cursor, n, Len(items)) \in -1 .. Len(Games)
      <3> HIDE DEF left, items, cursor
      <3>1. QED
        BY <1>3, <1>4, <2>3 DEF Advanced
    <2>9. seen \in Seq(Range(Games))
      <3> DEFINE all == held[id].seen \o entries
      <3>1. all \in Seq(Range(Games))
        <4> HIDE DEF entries
        <4>1. QED
          BY <1>3, <2>3, ConcatElements
      <3> HIDE DEF all, items
      <3>2. UpTo(all, Len(items)) \in Seq(Range(Games))
        BY <1>4, <3>1 DEF UpTo
      <3>3. QED
        BY <3>2 DEF all
    <2>10. TypeOK'
      <3> DEFINE Held == [name : Names, glob : Globs \cup {{}}, seen : Seq(Range(Games))]
                 Files == [name : Names, cursor : -1 .. Len(Games)]
      <3>1. held \in [DOMAIN held -> Held] /\ opened \in [DOMAIN opened -> Files]
        BY <1>1 DEF TypeOK
      <3>2. held' \in [DOMAIN held -> Held]
        <4>1. [held[id] EXCEPT !.seen = seen] \in Held
          <5> HIDE DEF seen
          <5>1. QED
            BY <1>2, <2>9, <3>1
        <4>2. held' = [held EXCEPT ![id] = [held[id] EXCEPT !.seen = seen]]
          BY <2>4
        <4> HIDE DEF seen, Held
        <4>3. QED
          BY <3>1, <4>1, <4>2
      <3>3. opened' \in [DOMAIN opened -> Files]
        <4> DEFINE next == Advanced(cursor, n, Len(items))
        <4>1. [opened[id] EXCEPT !.cursor = next] \in Files
          <5> HIDE DEF next
          <5>1. QED
            BY <2>8, <3>1 DEF Open, next
        <4>2. opened' = [opened EXCEPT ![id] = [opened[id] EXCEPT !.cursor = next]]
          BY <1>6
        <4> HIDE DEF next, Files
        <4>3. QED
          BY <3>1, <4>1, <4>2
      <3> HIDE DEF Held, Files
      <3>4. held' \in [DOMAIN (held') -> Held] /\ opened' \in [DOMAIN (opened') -> Files]
        BY <2>5, <3>2, <3>3
      <3> USE DEF Held, Files
      <3>5. QED
        BY <1>1, <1>6, <2>5, <3>4 DEF TypeOK
    <2>11. HandlesAgree'
      <3>1. \A k \in DOMAIN held : k \in DOMAIN opened /\ opened[k].name = held[k].name
        BY <1>1 DEF HandlesAgree, Open
      <3>2. \A k \in DOMAIN opened : k \notin DOMAIN held => opened[k].name \in Range(Games)
        BY <1>1 DEF HandlesAgree, Open, Virtual
      <3>3. QED
        BY <2>5, <3>1, <3>2 DEF HandlesAgree, Open, Virtual
    <2>12. SeenToCursor(id)'
      <3>1. SeenToCursor(id)
        BY <1>1, <1>2 DEF SeenSoFar
      <3>2. held'[id].glob = held[id].glob
        BY <1>2, <2>5
      <3>3. CASE held[id].seen = items
        <4>1. seen = items
          <5> HIDE DEF entries, items
          <5>1. QED
            BY <1>4, <2>3, <3>3, SeenStays
        <4>2. QED
          BY <2>5, <3>2, <4>1 DEF SeenToCursor
      <3>4. CASE cursor \in 0 .. Len(items) /\ held[id].seen = SubSeq(items, 1, cursor)
        <4>1. n \in 0 .. Len(items) - cursor /\ cursor \in Nat /\ Start(cursor) = cursor
          <5> HIDE DEF left, items, cursor
          <5>1. QED
            BY <1>4, <1>6, <2>1, <2>2, <3>4
        <4>2. seen = SubSeq(items, 1, cursor + n)
          <5> HIDE DEF items, cursor
          <5>1. left = SubSeq(items, cursor + 1, Len(items))
            BY <4>1
          <5> HIDE DEF left
          <5>2. QED
            BY <1>4, <3>4, <4>1, <5>1, SeenGoesOn
        <4>3. CASE cursor + n >= Len(items)
          <5>1. cursor + n = Len(items)
            <6> HIDE DEF items, cursor
            <6>1. QED
              BY <1>4, <4>1, <4>3
          <5>2. SubSeq(items, 1, Len(items)) = items
            <6> HIDE DEF items
            <6>1. QED
              BY <1>4
          <5>3. QED
            BY <2>5, <3>2, <4>2, <5>1, <5>2 DEF SeenToCursor
        <4>4. CASE ~(cursor + n >= Len(items))
          <5>1. opened'[id].cursor = cursor + n
            BY <2>5, <4>4 DEF Advanced
          <5>2. cursor + n \in 0 .. Len(items)
            <6> HIDE DEF items, cursor
            <6>1. QED
              BY <1>4, <4>1
          <5>3. QED
            BY <2>5, <3>2, <4>2, <5>1, <5>2 DEF SeenToCursor
        <4>5. QED
          BY <4>3, <4>4
      <3>5. QED
        BY <3>1, <3>3, <3>4 DEF SeenToCursor
    <2>13. SeenSoFar'
      <3>1. SUFFICES ASSUME NEW k \in DOMAIN (held')
                     PROVE  IF held'[k].name = Root THEN SeenToCursor(k)' ELSE held'[k].seen = <<>>
        BY DEF SeenSoFar
      <3>2. CASE k = id
        BY <1>2, <2>5, <2>12, <3>2
      <3>3. CASE k # id
        <4>1. k \in DOMAIN held /\ held'[k] = held[k] /\ opened'[k] = opened[k]
          BY <1>1, <2>5, <3>3 DEF HandlesAgree, Open
        <4>2. IF held[k].name = Root THEN SeenToCursor(k) ELSE held[k].seen = <<>>
          BY <1>1, <4>1 DEF SeenSoFar
        <4>3. SeenToCursor(k) => SeenToCursor(k)'
          BY <4>1 DEF SeenToCursor
        <4>4. QED
          BY <4>1, <4>2, <4>3
      <3>4. QED
        BY <3>2, <3>3
    <2>14. QED
      BY <2>10, <2>11, <2>13 DEF HandlesInv
  <1>7. QED
    BY <1>5, <1>6 DEF List

\* A CLOSE takes the handle from the client, and from the server unless it is
\* a game's.
LEMMA ClosingKeeps ==
    ASSUME HandlesInv, NEW id, Open(id),
           opened' = IF Virtual(id) THEN opened ELSE Restrict(opened, DOMAIN opened \ {id}),
           held' = Restrict(held, DOMAIN held \ {id}),
           UNCHANGED <<connected, shares, created, last>>
    PROVE  HandlesInv'
  <1>1. TypeOK /\ HandlesAgree /\ SeenSoFar
    BY DEF HandlesInv
  <1>2. /\ DOMAIN (held') = DOMAIN held \ {id}
        /\ \A k \in DOMAIN held \ {id} : held'[k] = held[k]
        /\ held' = [k \in DOMAIN (held') |-> held'[k]]
    BY DEF Restrict
  <1>3. /\ DOMAIN opened \ {id} \subseteq DOMAIN (opened')
        /\ DOMAIN (opened') \subseteq DOMAIN opened
        /\ \A k \in DOMAIN (opened') : opened'[k] = opened[k]
        /\ opened' = [k \in DOMAIN (opened') |-> opened'[k]]
        /\ id \in DOMAIN (opened') => Virtual(id)
    <2>1. opened = [k \in DOMAIN opened |-> opened[k]]
      BY <1>1 DEF TypeOK
    <2>2. QED
      BY <2>1 DEF Restrict
  <1>4. TypeOK'
    <2> DEFINE Held == [name : Names, glob : Globs \cup {{}}, seen : Seq(Range(Games))]
               Files == [name : Names, cursor : -1 .. Len(Games)]
    <2>1. held \in [DOMAIN held -> Held] /\ opened \in [DOMAIN opened -> Files]
      BY <1>1 DEF TypeOK
    <2> HIDE DEF Held, Files
    <2>2. held' \in [DOMAIN (held') -> Held] /\ opened' \in [DOMAIN (opened') -> Files]
      BY <1>2, <1>3, <2>1
    <2> USE DEF Held, Files
    <2>3. DOMAIN (held') \subseteq DOMAIN held /\ DOMAIN (opened') \subseteq DOMAIN opened
      BY <1>2, <1>3
    <2>4. QED
      BY <1>1, <2>2, <2>3 DEF TypeOK
  <1>5. HandlesAgree'
    <2>1. \A k \in DOMAIN held : k \in DOMAIN opened /\ opened[k].name = held[k].name
      BY <1>1 DEF HandlesAgree, Open
    <2>2. \A k \in DOMAIN opened : k \notin DOMAIN held => opened[k].name \in Range(Games)
      BY <1>1 DEF HandlesAgree, Open, Virtual
    <2>3. \A k \in DOMAIN (held') : k \in DOMAIN (opened') /\ opened'[k].name = held'[k].name
      BY <1>2, <1>3, <2>1
    <2>4. \A k \in DOMAIN (opened') :
             k \notin DOMAIN (held') => opened'[k].name \in Range(Games)
      BY <1>2, <1>3, <2>2 DEF Virtual
    <2>5. QED
      BY <2>3, <2>4 DEF HandlesAgree, Open, Virtual
  <1>6. SeenSoFar'
    <2>1. SUFFICES ASSUME NEW k \in DOMAIN (held')
                   PROVE  IF held'[k].name = Root THEN SeenToCursor(k)' ELSE held'[k].seen = <<>>
      BY DEF SeenSoFar
    <2>2. k \in DOMAIN held /\ held'[k] = held[k] /\ opened'[k] = opened[k]
      BY <1>1, <1>2, <1>3 DEF HandlesAgree, Open
    <2>3. IF held[k].name = Root THEN SeenToCursor(k) ELSE held[k].seen = <<>>
      BY <1>1, <2>2 DEF SeenSoFar
    <2>4. SeenToCursor(k) => SeenToCursor(k)'
      BY <2>2 DEF SeenToCursor
    <2>5. QED
      BY <2>2, <2>3, <2>4
  <1>7. QED
    BY <1>4, <1>5, <1>6 DEF HandlesInv

LEMMA HandlesInvStarts == Init => HandlesInv
  <1> SUFFICES ASSUME Init PROVE HandlesInv
    OBVIOUS
  <1>1. DOMAIN held = {} /\ DOMAIN opened = {} /\ created = 0 /\ last = 0
    BY DEF Init, AllOnes
  <1>2. \A T : opened \in [DOMAIN opened -> T] /\ held \in [DOMAIN held -> T]
    BY DEF Init
  <1>3. created \in 0 .. MaxCreates /\ last \in 0 .. created
    BY <1>1, BoundsAssumption
  <1>4. connected = FALSE /\ shares = {}
    BY DEF Init
  <1>5. TypeOK
    BY <1>1, <1>2, <1>3, <1>4 DEF TypeOK
  <1>6. HandlesAgree /\ SeenSoFar
    BY <1>1 DEF HandlesAgree, SeenSoFar
  <1>7. QED
    BY <1>5, <1>6 DEF HandlesInv

LEMMA HandlesInvStays == HandlesInv /\ [Next]_vars => HandlesInv'
  <1> SUFFICES ASSUME HandlesInv, [Next]_vars PROVE HandlesInv'
    OBVIOUS
  <1>1. TypeOK
    BY DEF HandlesInv
  <1>2. ASSUME NEW status, Answer(status)
        PROVE  HandlesInv'
    <2>1. Quiet
      BY <1>1, <1>2 DEF Answer, Replied, Quiet, TypeOK
    <2>2. QED
      BY <2>1, QuietKeeps
  <1>3. ASSUME NEW id, NEW tid, StockRefuses(id, tid)
        PROVE  HandlesInv'
    BY <1>2, <1>3 DEF StockRefuses
  <1>4. Connect \/ NextMessage \/ (UNCHANGED vars) => Quiet
    BY <1>1 DEF Connect, NextMessage, vars, Quiet, TypeOK
  <1>5. Disconnect => Drop
    BY DEF Disconnect
  <1>6. \A tid \in Tids : TreeConnect(tid) \/ TreeDisconnect(tid) => Quiet
    BY <1>1 DEF TreeConnect, TreeDisconnect, Replied, Quiet, TypeOK
  <1>7. ASSUME NEW g \in Range(Games), CreateGame(g)
        PROVE  HandlesInv'
    <2>1. CASE UuidGenerates /\ OpenFile(g, {}) /\ UNCHANGED last
      <3>1. g \in Names /\ {} \in Globs \cup {{}} /\ connected' = connected
        BY <2>1 DEF Names, OpenFile
      <3>2. created < MaxCreates
        BY <1>7 DEF CreateGame
      <3>3. QED
        BY <2>1, <3>1, <3>2, OpeningKeeps
    <2>2. CASE Drop
      BY <2>2, DropKeeps
    <2>3. CASE Answer("access denied")
      BY <1>2, <2>3
    <2>4. QED
      BY <1>7, <2>1, <2>2, <2>3 DEF CreateGame
  <1>8. ASSUME NEW name \in RealFiles \cup {Root}, NEW glob \in Globs \cup {{}},
               NEW tid \in Tids, CreateReal(name, glob, tid)
        PROVE  HandlesInv'
    <2>1. CASE tid \in shares
      <3>1. /\ OpenFile(name, glob) /\ last' = created' /\ created < MaxCreates
            /\ name \in Names /\ connected' = connected
        BY <1>8, <2>1 DEF CreateReal, Names, OpenFile
      <3>2. QED
        BY <3>1, OpeningKeeps
    <2>2. CASE tid \notin shares
      BY <1>2, <1>8, <2>2 DEF CreateReal
    <2>3. QED
      BY <2>1, <2>2
  <1>9. ASSUME NEW field \in Ids \cup {AllOnes}, NEW tid \in Tids, Read(field, tid)
        PROVE  HandlesInv'
    BY <1>2, <1>3, <1>9, DropKeeps DEF Read
  <1>10. ASSUME NEW field \in Ids \cup {AllOnes}, NEW tid \in Tids,
                NEW aboutFile, NEW known, QueryInfo(field, tid, aboutFile, known)
         PROVE  HandlesInv'
    BY <1>2, <1>3, <1>10 DEF QueryInfo
  <1>11. ASSUME NEW field \in Ids \cup {AllOnes}, NEW tid \in Tids,
                NEW buffer \in Buffers, NEW known \in BOOLEAN,
                QueryDirectory(field, tid, buffer, known)
         PROVE  HandlesInv'
    <2> DEFINE id == Resolve(field)
    <2>1. CASE Open(id) /\ opened[id].name = Root
      <3>1. List(id, buffer, known) /\ connected
        BY <1>11, <2>1 DEF QueryDirectory
      <3> HIDE DEF id
      <3>2. QED
        BY <2>1, <3>1, ListingKeeps
    <2>2. CASE ~(Open(id) /\ opened[id].name = Root)
      BY <1>2, <1>3, <1>11, <2>2 DEF QueryDirectory
    <2>3. QED
      BY <2>1, <2>2
  <1>12. ASSUME NEW field \in Ids \cup {AllOnes}, NEW tid \in Tids, Close(field, tid)
         PROVE  HandlesInv'
    <2> DEFINE id == Resolve(field)
    <2>1. CASE StockRefuses(id, tid)
      BY <1>3, <2>1
    <2>2. CASE /\ Open(id)
               /\ opened' = IF Virtual(id) THEN opened
                                           ELSE Restrict(opened, DOMAIN opened \ {id})
               /\ held' = Restrict(held, DOMAIN held \ {id})
               /\ UNCHANGED <<connected, shares, created, last>>
      <3> HIDE DEF id
      <3>1. QED
        BY <2>2, ClosingKeeps
    <2>3. QED
      BY <1>12, <2>1, <2>2 DEF Close, Replied
  <1>13. QED
    BY <1>4, <1>5, <1>6, <1>7, <1>8, <1>9, <1>10, <1>11, <1>12, QuietKeeps, DropKeeps DEF Next

-----------------------------------------------------------------------------
(* Theorems.                                                                *)

\* Whatever a connection's requests are, what a client was shown of a directory
\* ends where the cursor the handlers keep for it stands.
THEOREM HandlesInvariant == Spec => []HandlesInv
  BY HandlesInvStarts, HandlesInvStays, PTL DEF Spec

\* The cursor of an open directory is -1 or an index of a game, and what is open
\* or held has a FileID that was handed out.
THEOREM Smb2TypeCorrect == Spec => []TypeOK
  BY HandlesInvariant, PTL DEF HandlesInv

\* The server and its client agree about the open files, but for the games that
\* the stock CLOSE leaves behind.
THEOREM ClientAndServerAgree == Spec => []HandlesAgree
  BY HandlesInvariant, PTL DEF HandlesInv

\* A first listing skips and repeats nothing: what was shown is the beginning of
\* the list of all games that match.
THEOREM NothingSkipped == Spec => []FirstPass
  <1>1. HandlesInv => FirstPass
    <2>1. SUFFICES ASSUME HandlesInv, NEW id \in DOMAIN held
                   PROVE  IsPrefix(held[id].seen, Matches(held[id].glob))
      BY DEF FirstPass
    <2> DEFINE m == Matches(held[id].glob)
    <2>2. m \in Seq(Range(Games))
      BY MatchesAreGames
    <2>3. held[id].seen = m \/ \E c \in 0 .. Len(m) : held[id].seen = SubSeq(m, 1, c)
      <3>1. CASE held[id].name = Root
        BY <2>1, <3>1 DEF HandlesInv, SeenSoFar, SeenToCursor
      <3>2. CASE held[id].name # Root
        <4>1. held[id].seen = <<>>
          BY <2>1, <3>2 DEF HandlesInv, SeenSoFar
        <4> HIDE DEF m
        <4>2. SubSeq(m, 1, 0) = <<>> /\ 0 \in 0 .. Len(m)
          BY <2>2
        <4>3. QED
          BY <4>1, <4>2
      <3>3. QED
        BY <3>1, <3>2
    <2> HIDE DEF m
    <2>4. IsPrefix(m, m)
      BY <2>2 DEF IsPrefix
    <2>5. ASSUME NEW c \in 0 .. Len(m)
          PROVE  IsPrefix(SubSeq(m, 1, c), m)
      <3> DEFINE s == SubSeq(m, 1, c)
      <3>1. Len(s) = c /\ Len(s) <= Len(m) /\ SubSeq(s, 1, Len(s)) = s
        BY <2>2
      <3>2. QED
        BY <3>1 DEF IsPrefix
    <2>6. QED
      BY <2>3, <2>4, <2>5 DEF m
  <1>2. QED
    BY <1>1, HandlesInvariant, PTL
=============================================================================
