-------------------------------- MODULE Search --------------------------------
(***************************************************************************)
(* Directory searches of one SMB1 connection: FIND_FIRST2 and FIND_NEXT2    *)
(* (ps2smb/smb/server.py) over the paging and chaining of find entries      *)
(* (ps2smb/smb/listing.py).  The server answers a search page by page and   *)
(* keeps what is left under a search ID (SID) in connData["SIDs"]; a client *)
(* may have several searches open, and may walk away from one.  A search of *)
(* another tree is started by impacket's own FIND_FIRST2, which keeps what  *)
(* is left in the same dictionary, and continued by the hook.  An entry is  *)
(* a game or a file; its record is known by its length, padding included,   *)
(* and by whether a client that takes no Unicode can be told its name.      *)
(***************************************************************************)
EXTENDS Listing

CONSTANTS
    Games,           \* the games, in catalog order
    Files,           \* what a tree other than the share root holds
    EntrySize,       \* padded length of each find record
    NonAscii,        \* the games with another letter than ASCII in their name
    Searches,        \* searches a client may have under way at a time
    Globs,           \* last path components: the sets of games they match
    DataLimits,      \* MaxDataCount values clients send
    CountLimits,     \* SearchCount values clients send
    AbandonBound,    \* searches a client may walk away from
    MaxSid           \* SIDs allocated (a bound: overlapping searches only go up)

Records == Range(Games) \cup Range(Files)
Folders == {"root", "cd", "dvd", "other"}
Sids == 1 .. MaxSid
FinalSid == 128      \* the SID of a reply that ends its search at once

ASSUME GamesAssumption == Games \in Seq(Records) /\ IsInjective(Games)
ASSUME FilesAssumption == Files \in Seq(Records)
ASSUME EntrySizeAssumption == EntrySize \in [Records -> Nat \ {0}]
ASSUME LimitsAssumption ==
    DataLimits \subseteq Nat /\ CountLimits \subseteq Nat
ASSUME BoundsAssumption ==
    AbandonBound \in Nat /\ MaxSid \in Nat /\ IsFiniteSet(Searches)

VARIABLES
    sids,       \* connData["SIDs"]: the entries left of each search with a SID
    search,     \* what each client search asked for and has seen
    page,       \* the page last sent for each search
    abandoned   \* searches walked away from

vars == <<sids, search, page, abandoned>>

NoSearch == [state |-> "free", sid |-> 0, wanted |-> <<>>, got |-> <<>>]
NoPage == [by |-> "nobody", entries |-> <<>>, next |-> <<>>, limits |-> <<0, 0>>]

-----------------------------------------------------------------------------
(* listing.py                                                               *)

\* virtual_entries: every match at the share root or under \CD\, none under
\* \DVD\; any other path is matched whole, and no game has a backslash.
Entries(folder, glob) ==
    IF folder \in {"root", "cd"} THEN Matching(Games, glob) ELSE <<>>

TotalSize(entries) == Ends(entries, EntrySize)[Len(entries)]

\* collect_find_page stops before the first entry, but for the very first,
\* that would exceed a limit.
OverflowsEmpty(items, i, limits) ==    \* faulty variant: even the very first
    TotalSize(SubSeq(items, 1, i)) > limits[1] \/ i - 1 >= limits[2]

Overflows(items, i, limits) ==
    i > 1 /\ (TotalSize(SubSeq(items, 1, i)) > limits[1] \/ i - 1 >= limits[2])

PageLength(items, limits) ==
    CHOOSE n \in 0 .. Len(items) :
        /\ \A i \in 1 .. n : ~Overflows(items, i, limits)
        /\ n = Len(items) \/ Overflows(items, n + 1, limits)

\* Faulty variant: the last entry points on.
ChainEndless(entries) == [j \in 1 .. Len(entries) |-> EntrySize[entries[j]]]

\* chain_entries: NextEntryOffset of each entry, 0 for the last.
Chain(entries) ==
    [j \in 1 .. Len(entries) |-> IF j = Len(entries) THEN 0 ELSE EntrySize[entries[j]]]

PageOf(items, limits) ==
    LET entries == SubSeq(items, 1, PageLength(items, limits))
    IN  [by |-> "hook", entries |-> entries, next |-> Chain(entries), limits |-> limits]

\* Faulty variant: the entry that did not fit is skipped.
RemainingNext(items, limits) == SubSeq(items, PageLength(items, limits) + 2, Len(items))

Remaining(items, limits) == SubSeq(items, PageLength(items, limits) + 1, Len(items))

\* smb1_find_item: fname.encode raises if the client takes no Unicode.
Encodable(items, unicode) == unicode \/ Range(items) \cap NonAscii = {}

-----------------------------------------------------------------------------
(* The handlers.                                                            *)

LiveSids == {i \in Sids : sids[i] # <<>>}
SidByCount == Cardinality(LiveSids) + 1    \* faulty variant
NewSid == IF LiveSids = {} THEN 1 ELSE Max(LiveSids) + 1

Limits == DataLimits \X CountLimits

\* The client learns what the page holds, and whether it was the last.
Receive(s, sid, wanted, got, shown, left) ==
    /\ page' = [page EXCEPT ![s] = shown]
    /\ search' = [search EXCEPT ![s] =
          [state |-> IF left = <<>> THEN "ended" ELSE "open", sid |-> sid,
           wanted |-> wanted, got |-> got \o shown.entries]]

\* The first page of a search: what does not fit is kept under a new SID.
FirstPage(s, wanted, shown, left) ==
    LET sid == IF left = <<>> THEN FinalSid ELSE NewSid
    IN  /\ left # <<>> => sid \in Sids
        /\ Receive(s, sid, wanted, <<>>, shown, left)
        /\ sids' = IF left = <<>> THEN sids ELSE [sids EXCEPT ![sid] = left]

\* A search that is answered with an error leaves nothing behind.
Fail(s, state) ==
    /\ search' = [search EXCEPT ![s] = [NoSearch EXCEPT !.state = state]]
    /\ page' = [page EXCEPT ![s] = NoPage]
    /\ UNCHANGED sids

\* The connection ends: impacket forgets its data.
Drop ==
    /\ sids' = [i \in Sids |-> <<>>]
    /\ search' = [s \in Searches |-> NoSearch]
    /\ page' = [s \in Searches |-> NoPage]

\* The items are built before any is sent: an unknown level, an empty result
\* and a name that cannot be encoded fail the search.  The last is an exception,
\* which impacket turns into an error or into the end of the connection.
FindFirst(s, folder, glob, known, unicode, limits) ==
    LET items == Entries(folder, glob)
    IN  /\ search[s].state # "open"
        /\ \/ items = <<>> /\ Fail(s, "no file")
           \/ items # <<>> /\ ~known /\ Fail(s, "refused")
           \/ known /\ ~Encodable(items, unicode) /\ (Fail(s, "refused") \/ Drop)
           \/ /\ items # <<>> /\ known /\ Encodable(items, unicode)
              /\ FirstPage(s, items, PageOf(items, limits), Remaining(items, limits))
        /\ UNCHANGED abandoned

\* A search of another tree is left to impacket, which fails it or sends as
\* many entries as it likes; its SIDs are the last key of the dictionary plus
\* one, and keys only go in above all others.
StockPage(n) ==
    [by |-> "stock", entries |-> SubSeq(Files, 1, n), next |-> <<>>, limits |-> <<0, 0>>]

FindFirstStock(s) ==
    /\ search[s].state # "open"
    /\ \/ Fail(s, "refused")
       \/ Drop
       \/ /\ Files # <<>>
          /\ \E n \in 0 .. Len(Files) :
               FirstPage(s, Files, StockPage(n), SubSeq(Files, n + 1, Len(Files)))
    /\ UNCHANGED abandoned

\* Faulty variant: a finished search is not deleted.
KeptAlways(items, left) == IF left = <<>> THEN items ELSE left
\* What the server keeps of a search, nothing after its last page.
Kept(items, left) == left

FindNext(s, limits) ==
    LET sid == search[s].sid
    IN  /\ search[s].state = "open"
        /\ \/ /\ sid \in LiveSids
              /\ Receive(s, sid, search[s].wanted, search[s].got,
                         PageOf(sids[sid], limits), Remaining(sids[sid], limits))
              /\ sids' = [sids EXCEPT ![sid] = Kept(@, Remaining(@, limits))]
           \/ sid \notin LiveSids /\ Fail(s, "invalid handle")
        /\ UNCHANGED abandoned

Disconnect == Drop /\ UNCHANGED abandoned

\* The client stops asking; the server keeps the SID until the connection ends.
Abandon(s) ==
    /\ search[s].state = "open"
    /\ abandoned < AbandonBound
    /\ abandoned' = abandoned + 1
    /\ search' = [search EXCEPT ![s] = NoSearch]
    /\ page' = [page EXCEPT ![s] = NoPage]
    /\ UNCHANGED sids

-----------------------------------------------------------------------------

Init ==
    /\ sids = [i \in Sids |-> <<>>]
    /\ search = [s \in Searches |-> NoSearch]
    /\ page = [s \in Searches |-> NoPage]
    /\ abandoned = 0

Next ==
    \/ Disconnect
    \/ \E s \in Searches :
         \/ \E folder \in Folders, glob \in Globs, known, unicode \in BOOLEAN :
              \E limits \in Limits : FindFirst(s, folder, glob, known, unicode, limits)
         \/ FindFirstStock(s)
         \/ \E limits \in Limits : FindNext(s, limits)
         \/ Abandon(s)

Spec == Init /\ [][Next]_vars

\* A client that has not been told EndOfSearch asks for the next page.
FairSpec ==
    Spec /\ \A s \in Searches : WF_vars(\E limits \in Limits : FindNext(s, limits))

-----------------------------------------------------------------------------
(* Properties.                                                              *)

States == {"free", "open", "ended", "no file", "refused", "invalid handle"}

SearchRecords ==
    [state : States, sid : Nat, wanted : Seq(Records), got : Seq(Records)]
Pages == [by : {"nobody", "hook", "stock"}, entries : Seq(Records), next : Seq(Nat),
          limits : Nat \X Nat]

TypeOK ==
    /\ sids \in [Sids -> Seq(Records)]
    /\ search \in [Searches -> SearchRecords]
    /\ page \in [Searches -> Pages]
    /\ abandoned \in 0 .. AbandonBound

\* Nothing is lost, repeated, reordered or cut short however searches
\* interleave, those impacket started among them: what a client has seen and
\* what the server keeps for it make up the whole result, and no search loses
\* its SID to another.
PagesAddUp ==
    \A s \in Searches :
        /\ search[s].state = "open" => search[s].got \o sids[search[s].sid] = search[s].wanted
        /\ search[s].state = "ended" => search[s].got = search[s].wanted
        /\ search[s].state # "invalid handle"

\* A SID is kept only for a search that has pages left and was not finished.
NoIdleSids ==
    Cardinality(LiveSids) <=
        abandoned + Cardinality({s \in Searches : search[s].state = "open"})

\* Every page of the hooks has an entry, fits the client's buffer and its count
\* unless it has one entry only, and following NextEntryOffset from its start
\* visits its entries in order and ends at the last ("all-zero offsets make it
\* loop").
Start(p, j) == TotalSize(SubSeq(p.entries, 1, j - 1))

WellFormed(p) ==
    LET n == Len(p.entries)
    IN  /\ n >= 1
        /\ n = 1 \/ (TotalSize(p.entries) <= p.limits[1] /\ n <= p.limits[2])
        /\ \A j \in 1 .. n - 1 : p.next[j] > 0 /\ Start(p, j) + p.next[j] = Start(p, j + 1)
        /\ p.next[n] = 0

PagesWellFormed ==
    \A s \in Searches : page[s].by = "hook" => WellFormed(page[s])

-----------------------------------------------------------------------------
(* The invariant the proofs of module SearchProofs rest on.                 *)

OpenSearches == {s \in Searches : search[s].state = "open"}
HeldSids == {search[s].sid : s \in OpenSearches}

\* An open search has a SID of its own, and pages left under it.
SidsApart ==
    /\ HeldSids \subseteq LiveSids
    /\ \A s, t \in OpenSearches : search[s].sid = search[t].sid => s = t

\* A SID that no search holds was left behind by a client that walked away.
OrphansCounted == Cardinality(LiveSids \ HeldSids) <= abandoned

SearchInv == TypeOK /\ SidsApart /\ PagesAddUp /\ PagesWellFormed /\ OrphansCounted

-----------------------------------------------------------------------------
(* Liveness.                                                                *)

\* A client that keeps asking reaches the end of its search, whatever limits
\* it sends ("a zero-entry reply makes OPL re-issue FIND_NEXT2 forever").
SearchesEnd == \A s \in Searches : (search[s].state = "open") ~> (search[s].state # "open")
===============================================================================
