----------------------------- MODULE Smb1Session -----------------------------
(***************************************************************************)
(* The open files of one SMB1 connection: the hooked NT_CREATE_ANDX,        *)
(* OPEN_ANDX, READ_ANDX, READ, FLUSH and CLOSE handlers of                   *)
(* ps2smb/smb/server.py over impacket's connData, and the share lookup that *)
(* ps2smb/smb/compat.py patches into it.  A connection serves its requests  *)
(* one at a time.  What probing and reading a game come to is the subject   *)
(* of modules Probe and RemoteFile; here they may go either way.  Real      *)
(* files (the manifest) are left to impacket's stock handlers.              *)
(***************************************************************************)
EXTENDS Integers, SequencesExt

CONSTANTS
    Games,       \* the keys of GameSMBServer.games: file names in lower case
    RealFiles,   \* other names: files of the share directory
    FileSize,    \* bytes of each game
    Paths,       \* the paths clients open
    Tids,        \* tree IDs a client may send
    MaxFid,      \* the largest FID a reply can carry (16 bits)
    MaxSize,     \* the largest size an OPEN_ANDX reply can carry (32 bits)
    MaxOpen      \* files a client keeps open (a bound)

\* A path is its components, each a word in the client's choice of letter case.
ASSUME NamesAssumption == Games \cap RealFiles = {}
ASSUME PathsAssumption ==
    \A path \in Paths : path # <<>> /\ Last(path).word \in Games \cup RealFiles
ASSUME SizeAssumption == FileSize \in [Games -> Nat \ {0}] /\ MaxSize \in Nat
ASSUME BoundsAssumption == MaxFid \in Nat \ {0} /\ MaxOpen \in Nat \ {0}

VARIABLES
    connected,   \* the connection is up
    shares,      \* connData["ConnectedShares"]: its tree IDs
    opened,      \* connData["OpenedFiles"], an insertion-ordered dictionary
    descriptors, \* the FIDs this connection has an OS file descriptor open for
    held,        \* the client: the name it opened under each FID it holds
    reply        \* the last reply: to which command, with what

vars == <<connected, shares, opened, descriptors, held, reply>>

Names == Games \cup RealFiles
Fids == 1 .. MaxFid + 1
NoReply == [command |-> "none", status |-> "none", fid |-> 0]

Replied(command, status, fid) ==
    reply' = [command |-> command, status |-> status, fid |-> fid]

\* A reply that changes nothing.
Answer(command, status, fid) ==
    /\ Replied(command, status, fid)
    /\ UNCHANGED <<connected, shares, opened, descriptors, held>>

\* A refusal before the file is looked at; the others name their FID.
Refuse(command, status) == Answer(command, status, 0)

\* An entry of OpenedFiles holds an OS file descriptor or a VirtualFileHandle.
Virtual(entry) == entry.name \in Games

Keys == {entry.fid : entry \in Range(opened)}
Entry(fid) == CHOOSE entry \in Range(opened) : entry.fid = fid
OpenedAs(fid) == {entry.name : entry \in {e \in Range(opened) : e.fid = fid}}

OwnAll(fid) == TRUE     \* faulty variant
OwnNone(fid) == FALSE   \* faulty variant

\* The file is the hook's to read, flush and close; the rest goes to the stock
\* handlers, which take what they find for a descriptor.
Own(fid) == Virtual(Entry(fid))

\* A handler raised, or its reply could not be packed: impacket closes the
\* connection and forgets its data, its descriptors with it.
Drop ==
    /\ connected' = FALSE
    /\ shares' = {}
    /\ opened' = <<>>
    /\ descriptors' = {}
    /\ held' = [fid \in Fids |-> {}]
    /\ reply' = NoReply

-----------------------------------------------------------------------------
(* Connections and shares.                                                  *)

Connect ==
    /\ ~connected
    /\ connected' = TRUE
    /\ reply' = NoReply
    /\ UNCHANGED <<shares, opened, descriptors, held>>

\* The configuration: addShare stores the name in upper case, and
\* register_share_alias adds it in lower case.
Share(word, case) == [word |-> word, case |-> case]
Sections == {Share("served", "upper"), Share("served", "lower")}

\* searchShare: the name as sent, then in upper, then in lower case.
SearchShare(share) ==
    \E case \in {share.case, "upper", "lower"} : Share(share.word, case) \in Sections

TreeConnect(tid, share) ==
    /\ connected
    /\ tid \notin shares
    /\ IF SearchShare(share)
         THEN /\ shares' = shares \cup {tid}
              /\ Replied("TREE_CONNECT", "ok", 0)
              /\ UNCHANGED <<connected, opened, descriptors, held>>
         ELSE Refuse("TREE_CONNECT", "not found")

\* The open files of a tree stay open.
TreeDisconnect(tid) ==
    /\ connected
    /\ tid \in shares
    /\ shares' = shares \ {tid}
    /\ Replied("TREE_DISCONNECT", "ok", 0)
    /\ UNCHANGED <<connected, opened, descriptors, held>>

Disconnect == connected /\ Drop

-----------------------------------------------------------------------------
(* Opening.                                                                 *)

\* normalize_virtual_name: the last component, in lower case.
BaseName(path) == Last(path).word

NextFidByCount == Len(opened) + 1    \* faulty variant

\* One more than the FID opened last, or 1.  The stock handlers do the same.
NextFid == IF opened = <<>> THEN 1 ELSE Last(opened).fid + 1

\* The fields of a reply; EndOfFile of NT_CREATE_ANDX has 64 bits.
PacksAnyFid(command, fid, size) == TRUE    \* faulty variant
Packs(command, fid, size) ==
    fid <= MaxFid /\ (command = "OPEN_ANDX" => size <= MaxSize)

Open(command, name, new) ==
    /\ opened' = Append(opened, [fid |-> NextFid, name |-> name])
    /\ descriptors' = descriptors \cup new
    /\ held' = [held EXCEPT ![NextFid] = {name}]
    /\ Replied(command, "ok", NextFid)
    /\ UNCHANGED <<connected, shares>>

\* A game: ensure_probed may raise RemoteFileError; any other exception, and a
\* reply that cannot be packed, end the connection.  The tree ID is not looked at.
OpenGame(command, name) ==
    \/ Refuse(command, "access denied")
    \/ Drop
    \/ Packs(command, NextFid, FileSize[name]) /\ Open(command, name, {})

\* Any other name goes to the stock handler, which wants a connected share and
\* knows no folders.
OpenReal(command, path, tid) ==
    \/ tid \notin shares /\ Refuse(command, "bad tid")
    \/ tid \in shares /\ Len(path) > 1 /\ Refuse(command, "no such file")
    \/ /\ tid \in shares /\ Len(path) = 1
       /\ IF Packs(command, NextFid, 0)
            THEN Open(command, BaseName(path), {NextFid})
            ELSE Drop

Create(command, path, tid) ==
    /\ connected
    /\ Len(opened) < MaxOpen
    /\ IF BaseName(path) \in Games
         THEN OpenGame(command, BaseName(path))
         ELSE OpenReal(command, path, tid)

NtCreate(path, tid) == Create("NT_CREATE_ANDX", path, tid)
OpenAndX(path, tid) == Create("OPEN_ANDX", path, tid)

-----------------------------------------------------------------------------
(* Using and closing.                                                       *)

\* Reading a game may raise RemoteFileError, which is denied, or something else.
ReadGame(command, fid) ==
    \/ Answer(command, "ok", fid)
    \/ Answer(command, "access denied", fid)
    \/ Drop

\* os.lseek and os.read, whose exceptions are denied; a game has no descriptor.
StockRead(command, fid) ==
    \/ fid \notin Keys /\ Refuse(command, "invalid handle")
    \/ fid \in Keys /\ Answer(command, "access denied", fid)
    \/ fid \in descriptors /\ Answer(command, "ok", fid)

\* READ_ANDX and READ do not look at the tree ID.
ReadFid(command, fid) ==
    /\ connected
    /\ IF fid \in Keys /\ Own(fid) THEN ReadGame(command, fid) ELSE StockRead(command, fid)

ReadAndX(fid) == ReadFid("READ_ANDX", fid)
Read(fid) == ReadFid("READ", fid)

\* FLUSH and CLOSE first check the tree ID, then the FID.
Checked(command, tid, fid) ==
    /\ connected
    /\ \/ tid \notin shares /\ Refuse(command, "bad tid")
       \/ tid \in shares /\ fid \notin Keys /\ Refuse(command, "invalid handle")

Found(tid, fid) == connected /\ tid \in shares /\ fid \in Keys

\* os.fsync, whose exceptions are denied.
StockFlush(fid) ==
    \/ Answer("FLUSH", "access denied", fid)
    \/ fid \in descriptors /\ Answer("FLUSH", "ok", fid)

Flush(tid, fid) ==
    \/ Checked("FLUSH", tid, fid)
    \/ Found(tid, fid) /\ Own(fid) /\ Answer("FLUSH", "ok", fid)
    \/ Found(tid, fid) /\ ~Own(fid) /\ StockFlush(fid)

WithoutNone(fid) == opened    \* faulty variant: the entry stays

\* del connData["OpenedFiles"][fid]; the client forgets the FID on success.
Place(fid) == CHOOSE j \in DOMAIN opened : opened[j].fid = fid
Without(fid) == RemoveAt(opened, Place(fid))

Forget(fid) ==
    /\ opened' = Without(fid)
    /\ held' = [held EXCEPT ![fid] = {}]
    /\ Replied("CLOSE", "ok", fid)
    /\ UNCHANGED <<connected, shares>>

\* os.close; when it raises, as for a game, the entry stays.
StockClose(fid) ==
    IF fid \in descriptors
      THEN Forget(fid) /\ descriptors' = descriptors \ {fid}
      ELSE Answer("CLOSE", "access denied", fid)

Close(tid, fid) ==
    \/ Checked("CLOSE", tid, fid)
    \/ Found(tid, fid) /\ Own(fid) /\ Forget(fid) /\ UNCHANGED descriptors
    \/ Found(tid, fid) /\ ~Own(fid) /\ StockClose(fid)

-----------------------------------------------------------------------------

Init ==
    /\ connected = FALSE
    /\ shares = {}
    /\ opened = <<>>
    /\ descriptors = {}
    /\ held = [fid \in Fids |-> {}]
    /\ reply = NoReply

Next ==
    \/ Connect
    \/ Disconnect
    \/ \E tid \in Tids :
         \/ TreeDisconnect(tid)
         \/ \E word \in {"served", "other"}, case \in {"upper", "lower", "mixed"} :
              TreeConnect(tid, Share(word, case))
         \/ \E path \in Paths : NtCreate(path, tid) \/ OpenAndX(path, tid)
    \/ \E fid \in Fids :
         \/ ReadAndX(fid) \/ Read(fid)
         \/ \E tid \in Tids : Flush(tid, fid) \/ Close(tid, fid)

Spec == Init /\ [][Next]_vars

-----------------------------------------------------------------------------
(* Properties.                                                              *)

TypeOK ==
    /\ connected \in BOOLEAN
    /\ shares \subseteq Tids
    /\ opened \in Seq([fid : Fids, name : Names])
    /\ descriptors \subseteq Fids
    /\ held \in [Fids -> SUBSET Names]
    /\ reply.fid \in 0 .. MaxFid

\* A new FID is never one that is still open: the FIDs of the dictionary go up
\* in the order they were opened, whatever was closed in between.
FidsIncrease ==
    \A i, j \in 1 .. Len(opened) : i < j => opened[i].fid < opened[j].fid

\* Client and server agree on what is open, and under which FID.
HandlesAgree == \A fid \in Fids : held[fid] = OpenedAs(fid)

\* The OS descriptors open are those of the real files in the table: however the
\* hooks and the stock handlers share the opens and closes among them, none is
\* left open without an entry, and no entry of a file has lost its descriptor.
DescriptorsAgree ==
    descriptors = {entry.fid : entry \in {e \in Range(opened) : e.name \in RealFiles}}

\* The command got as far as the open file fid.
Reached(command, fid) == reply'.command = command /\ reply'.fid = fid

\* An open FID ends exactly by a CLOSE that gets to it, whether the hook or the
\* stock handler closes it, or with the connection: not by a failed read, a lost
\* tree or the close of another FID; and the FLUSH of a game is not denied.
HandlesServed ==
    [][\A fid \in Fids : OpenedAs(fid) # {} /\ connected' =>
        /\ OpenedAs(fid)' # OpenedAs(fid) <=> Reached("CLOSE", fid)
        /\ Reached("FLUSH", fid) /\ OpenedAs(fid) \subseteq Games => reply'.status = "ok"]_vars

-----------------------------------------------------------------------------
(* The invariant the proofs of module Smb1SessionProofs rest on.            *)

\* Every open FID fits a reply: a handler that finds it does not, drops it.
FidsFit == \A j \in 1 .. Len(opened) : opened[j].fid \in 1 .. MaxFid

SessionInv == TypeOK /\ FidsFit /\ FidsIncrease /\ HandlesAgree /\ DescriptorsAgree
===============================================================================
