----------------------------- MODULE Smb2Session -----------------------------
(***************************************************************************)
(* The open files and directory listings of one SMB2 connection: the hooked *)
(* CREATE, READ, QUERY_INFO and QUERY_DIRECTORY handlers of                  *)
(* ps2smb/smb/server.py over impacket's connData, with the helpers of       *)
(* smb/compat.py and smb/listing.py.  A connection serves its requests one  *)
(* at a time.  Probing and reading a game may go either way, as in          *)
(* Smb1Session.  The share directory and the manifest are left to the stock *)
(* handlers, and so is every CLOSE.                                         *)
(***************************************************************************)
EXTENDS Listing

CONSTANTS
    Games,           \* the games, in catalog order
    RecordLength,    \* length of each game's find record, unpadded
    Align,           \* find records are padded to a multiple of this
    Root,            \* the share directory
    RealFiles,       \* the other files of the share: the manifest
    Globs,           \* search patterns: the sets of games they match
    Buffers,         \* OutputBufferLength values clients send
    Tids,            \* tree IDs a client may send
    UuidGenerates,   \* whether uuid.generate exists: it does not in Python's
    MaxCreates       \* files opened in a behaviour (a bound)

\* main() exits if the catalog has no usable game.
ASSUME GamesAssumption ==
    Games \in Seq(Range(Games)) /\ IsInjective(Games) /\ Games # <<>>
ASSUME NamesAssumption == Range(Games) \cap (RealFiles \cup {Root}) = {}
ASSUME RecordAssumption ==
    RecordLength \in [Range(Games) -> Nat \ {0}] /\ Align \in Nat \ {0}
ASSUME BoundsAssumption ==
    MaxCreates \in Nat \ {0} /\ Buffers \subseteq Nat /\ UuidGenerates \in BOOLEAN

VARIABLES
    connected,   \* the connection is up
    shares,      \* connData["ConnectedShares"]: its tree IDs
    created,     \* how many FileIDs were handed out
    opened,      \* connData["OpenedFiles"]: FileID to file and cursor
    last,        \* connData["LastRequest"]["SMB2_CREATE"]: its FileID
    held,        \* the client: what each FileID it holds stands for
    reply,       \* the status of the last reply
    page         \* the directory page it carries, and of which FileID

vars == <<connected, shares, created, opened, last, held, reply, page>>

Names == Range(Games) \cup RealFiles \cup {Root}
Ids == 1 .. MaxCreates
AllOnes == 0     \* "use the previous create"; also: no such create
NoPage == [id |-> AllOnes, entries |-> <<>>]

\* A reply that carries no page, and one that changes nothing either.
Replied(status) == reply' = status /\ page' = NoPage

Answer(status) ==
    Replied(status) /\ UNCHANGED <<connected, shares, created, opened, last, held>>

\* A handler raised: impacket closes the connection and forgets its data.
Drop ==
    /\ connected' = FALSE
    /\ shares' = {} /\ opened' = <<>> /\ last' = AllOnes
    /\ held' = <<>> /\ Replied("none")
    /\ UNCHANGED created

\* resolve_file_id: all ones stand for the last CREATE on record.
Resolve(id) == IF id = AllOnes THEN last ELSE id

Open(id) == id \in DOMAIN opened
Virtual(id) == Open(id) /\ opened[id].name \in Range(Games)

\* What the stock handlers answer first: a bad tree ID, an unknown FileID.
StockRefuses(id, tid) ==
    \/ tid \notin shares /\ Answer("bad tid")
    \/ tid \in shares /\ ~Open(id) /\ Answer("invalid handle")

-----------------------------------------------------------------------------
(* Connections and shares.                                                  *)

Connect ==
    /\ ~connected
    /\ connected' = TRUE
    /\ UNCHANGED <<shares, created, opened, last, held, reply, page>>

TreeConnect(tid) ==
    /\ connected /\ tid \notin shares
    /\ shares' = shares \cup {tid}
    /\ Replied("ok")
    /\ UNCHANGED <<connected, created, opened, last, held>>

TreeDisconnect(tid) ==
    /\ connected /\ tid \in shares
    /\ shares' = shares \ {tid}
    /\ Replied("ok")
    /\ UNCHANGED <<connected, created, opened, last, held>>

Disconnect == connected /\ Drop

\* impacket may forget the last requests between two messages.
NextMessage ==
    /\ connected /\ last # AllOnes
    /\ last' = AllOnes
    /\ UNCHANGED <<connected, shares, created, opened, held, reply, page>>

-----------------------------------------------------------------------------
(* Opening, reading, asking for information.                                *)

\* A table with one entry more.
With(table, id, entry) ==
    [k \in DOMAIN table \cup {id} |-> IF k = id THEN entry ELSE table[k]]

RegisteredNone(id, name) == opened    \* faulty variant
\* register_open, and what the stock handler stores.
Registered(id, name) == With(opened, id, [name |-> name, cursor |-> 0])

\* The client gets a FileID, and settles what it will list with it.
OpenFile(name, glob) ==
    LET id == created + 1
    IN  /\ created' = id
        /\ opened' = Registered(id, name)
        /\ held' = With(held, id, [name |-> name, glob |-> glob, seen |-> <<>>])
        /\ Replied("ok")
        /\ UNCHANGED <<connected, shares>>

\* The hook does not look at the tree ID, and leaves LastRequest as it is.
CreateGame(name) ==
    /\ connected /\ created < MaxCreates
    /\ \/ Answer("access denied")
       \/ Drop
       \/ UuidGenerates /\ OpenFile(name, {}) /\ UNCHANGED last

CreateReal(name, glob, tid) ==
    /\ connected /\ created < MaxCreates
    /\ IF tid \in shares
         THEN OpenFile(name, glob) /\ last' = created'
         ELSE Answer("bad tid")

\* A game is read only through a connected share; anything else is stock.
Read(field, tid) ==
    LET id == Resolve(field)
    IN  /\ connected
        /\ IF tid \in shares /\ Virtual(id)
             THEN \/ \E status \in {"ok", "end of file", "access denied"} : Answer(status)
                  \/ Drop
             ELSE \/ StockRefuses(id, tid)
                  \/ tid \in shares /\ Open(id) /\ Answer("ok")

\* The hook answers questions about a game as a file, whatever the tree ID.
QueryInfo(field, tid, aboutFile, known) ==
    LET id == Resolve(field)
    IN  /\ connected
        /\ IF Virtual(id) /\ aboutFile
             THEN Answer(IF known THEN "ok" ELSE "invalid handle")
             ELSE \/ StockRefuses(id, tid)
                  \/ tid \in shares /\ Open(id) /\ Answer("ok")

-----------------------------------------------------------------------------
(* Listing.                                                                 *)

\* virtual_entries at the share root.
Matches(glob) == Matching(Games, glob)

Pad(g) == (-RecordLength[g]) % Align

\* The bytes an entry takes in the page.
PaddedLength == [g \in Range(Games) |-> RecordLength[g] + Pad(g)]

TotalSize(entries) == Ends(entries, PaddedLength)[Len(entries)]

FitsStrictly(total, length, buffer) == total + length < buffer    \* faulty variant
\* The first entry always fits, and padding does not count.
Fits(total, length, buffer) == total + length < buffer \/ total = 0

\* n entries of those left are taken: as many as fit one after the other.
Taken(left, n, buffer) ==
    LET fits(i) == Fits(TotalSize(SubSeq(left, 1, i - 1)), RecordLength[left[i]], buffer)
    IN  (\A i \in 1 .. n : fits(i)) /\ (n = Len(left) \/ ~fits(n + 1))

StartOver(cursor) == 0    \* faulty variant
\* The cursor is -1 after the last entry, and is read as 0.
Start(cursor) == IF cursor < 0 THEN 0 ELSE cursor

\* Faulty variant: one step for each page.
AdvancedOnce(cursor, n, count) == IF cursor + 1 >= count THEN -1 ELSE cursor + 1

\* The cursor moves by one for each entry, and is reset at the end.
Advanced(cursor, n, count) == IF cursor + n >= count THEN -1 ELSE cursor + n

\* The client takes what it sees until it has as many entries as match.
UpTo(entries, n) == SubSeq(entries, 1, IF Len(entries) < n THEN Len(entries) ELSE n)

Show(id, entries) ==
    /\ reply' = "ok"
    /\ page' = [id |-> id, entries |-> entries]
    /\ held' = [held EXCEPT ![id].seen = UpTo(@ \o entries, Len(Matches(held[id].glob)))]

\* The hook lists the share root, whatever the tree ID.  It always succeeds.
List(id, buffer, known) ==
    LET items == Matches(held[id].glob)
        left == SubSeq(items, Start(opened[id].cursor) + 1, Len(items))
    IN  \/ items # <<>> /\ ~known /\ Answer("invalid info class")
        \/ /\ items = <<>> \/ known
           /\ \E n \in {m \in 0 .. Len(left) : Taken(left, m, buffer)} :
                /\ Show(id, SubSeq(left, 1, n))
                /\ opened' = [opened EXCEPT ![id].cursor = Advanced(@, n, Len(items))]
           /\ UNCHANGED <<connected, shares, created, last>>

\* A client sends the pattern it settled on when it opened the directory.
QueryDirectory(field, tid, buffer, known) ==
    LET id == Resolve(field)
    IN  /\ connected
        /\ IF Open(id) /\ opened[id].name = Root
             THEN List(id, buffer, known)
             ELSE \/ StockRefuses(id, tid)
                  \/ tid \in shares /\ Open(id) /\ Answer("not a directory")

\* Always stock.  It cannot close the descriptor of a game, and keeps the
\* entry; the client forgets the FileID all the same.
Close(field, tid) ==
    LET id == Resolve(field)
    IN  /\ connected
        /\ \/ StockRefuses(id, tid)
           \/ /\ tid \in shares /\ Open(id)
              /\ opened' = IF Virtual(id) THEN opened
                                          ELSE Restrict(opened, DOMAIN opened \ {id})
              /\ held' = Restrict(held, DOMAIN held \ {id})
              /\ Replied(IF Virtual(id) THEN "invalid handle" ELSE "ok")
              /\ UNCHANGED <<connected, shares, created, last>>

-----------------------------------------------------------------------------

Init ==
    /\ connected = FALSE
    /\ shares = {} /\ created = 0
    /\ opened = <<>> /\ last = AllOnes
    /\ held = <<>> /\ reply = "none" /\ page = NoPage

Next ==
    \/ Connect \/ Disconnect \/ NextMessage
    \/ \E g \in Range(Games) : CreateGame(g)
    \/ \E tid \in Tids :
         \/ TreeConnect(tid) \/ TreeDisconnect(tid)
         \/ \E name \in RealFiles : CreateReal(name, {}, tid)
         \/ \E glob \in Globs : CreateReal(Root, glob, tid)
         \/ \E field \in Ids \cup {AllOnes} :
              \/ Read(field, tid) \/ Close(field, tid)
              \/ \E aboutFile, known \in BOOLEAN : QueryInfo(field, tid, aboutFile, known)
              \/ \E buffer \in Buffers, known \in BOOLEAN :
                   QueryDirectory(field, tid, buffer, known)

Spec == Init /\ [][Next]_vars

\* A client that lists a directory goes on asking, at a level the server knows.
KeepsListing(id) ==
    /\ id \in DOMAIN held /\ held[id].name = Root
    /\ \E tid \in Tids, buffer \in Buffers : QueryDirectory(id, tid, buffer, TRUE)

FairSpec == Spec /\ \A id \in Ids : WF_vars(KeepsListing(id))

-----------------------------------------------------------------------------
(* Properties.                                                              *)

\* The types; a cursor is -1 or a number of entries.
TypeOK ==
    /\ connected \in BOOLEAN /\ shares \subseteq Tids
    /\ created \in 0 .. MaxCreates /\ last \in 0 .. created
    /\ DOMAIN held \subseteq 1 .. created /\ DOMAIN opened \subseteq 1 .. created
    /\ opened \in [DOMAIN opened -> [name : Names, cursor : -1 .. Len(Games)]]
    /\ held \in [DOMAIN held -> [name : Names, glob : Globs \cup {{}},
                                 seen : Seq(Range(Games))]]

\* What a client opened and did not close is open on the server under the same
\* name; what is open beyond that are games, which no CLOSE can remove.
HandlesAgree ==
    /\ \A id \in DOMAIN held : Open(id) /\ opened[id].name = held[id].name
    /\ \A id \in DOMAIN opened : id \notin DOMAIN held => Virtual(id)

\* Until every match was shown, the pages of a handle show the matches in
\* order, none skipped or repeated, whatever buffers the client sends and
\* whatever it does with other handles in between.
FirstPass ==
    \A id \in DOMAIN held : IsPrefix(held[id].seen, Matches(held[id].glob))

-----------------------------------------------------------------------------
(* The invariant the proofs of module Smb2SessionProofs rest on.            *)

\* What a client was shown of a directory ends where the server's cursor is,
\* until it was shown everything.
SeenToCursor(id) ==
    LET matches == Matches(held[id].glob)
        cursor == opened[id].cursor
    IN  \/ held[id].seen = matches
        \/ cursor \in 0 .. Len(matches) /\ held[id].seen = SubSeq(matches, 1, cursor)

SeenSoFar ==
    \A id \in DOMAIN held :
        IF held[id].name = Root THEN SeenToCursor(id) ELSE held[id].seen = <<>>

HandlesInv == TypeOK /\ HandlesAgree /\ SeenSoFar

-----------------------------------------------------------------------------
(* Liveness.                                                                *)

\* A client that goes on asking is shown every match, however small its buffer.
AllShown ==
    \A id \in Ids :
        (id \in DOMAIN held /\ held[id].name = Root) ~>
            (id \notin DOMAIN held \/ held[id].seen = Matches(held[id].glob))

\* "query/list hooked for SMB1 + SMB2" (README.md:35): a client that goes on
\* asking is once shown a page without entries, which tells it that there are no more.
ListingEnds ==
    \A id \in Ids :
        (id \in DOMAIN held /\ held[id].name = Root) ~>
            (id \notin DOMAIN held \/ (page.id = id /\ page.entries = <<>>))
===============================================================================
