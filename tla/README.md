# ps2smb: specifications, model checking and proofs

TLA+ models of ps2smb (`src/`), an SMB server that shows remote ISO files as
files of a share: an SMB read becomes reads of cached chunks, a missing chunk
becomes an HTTP range request. The models follow the Python source line by line
in control and abstract its data; `PROJECT.json` maps every definition to its
lines.

## 1. Inventory

| Part | Source | State | Operations |
|---|---|---|---|
| Chunk cache | `ps2smb/cache.py` | chunk files and temporary files on disk, the present set, one lock per chunk | `scan`, `has_chunk`, `read_chunk`, `store_chunk`, `get_or_download` |
| Remote file, reading | `ps2smb/remote.py`, read handlers of `ps2smb/smb/server.py` | the pending prefetch set; the local variables of every read in progress | `read`, `_fetch_range`, `prefetch` and its worker thread, `_prefetch_after` |
| Remote file, probing | `ps2smb/remote.py` | `size`, `accept_ranges`, `probed`, `error`, the probe lock | `probe`, `ensure_probed`; read without the lock by listings and `status` |
| Catalog, game table | `ps2smb/catalog.py`, `GameSMBServer.__init__` | the list of games, counts of used names, the table by lower-cased filename | `load_catalog`, `sanitize` |
| SMB1 search | `smb/server.py` 393-469, `smb/listing.py` | `connData["SIDs"]` | `FIND_FIRST2`, `FIND_NEXT2` |
| SMB1 session | `smb/server.py` 473-702, `smb/virtual.py`, share lookup of `smb/compat.py` | `connData["OpenedFiles"]`, `connData["ConnectedShares"]` | tree connect, `NT_CREATE_ANDX`, `OPEN_ANDX`, `READ_ANDX`, `READ`, `FLUSH`, `CLOSE` |
| SMB2 session | `smb/server.py` 169-389, `smb/listing.py`, `resolve_file_id` of `smb/compat.py` | `OpenedFiles`, `LastRequest`, the enumeration cursor of each handle | `CREATE`, `READ`, `QUERY_INFO`, `QUERY_DIRECTORY` |
| Status interface | `ps2smb/admin.py` | none of its own | `GET /games`, `/cache`, `/downloads`, `/errors` |
| Catalog scraper | `archive_scraper/scraper.py` | none | `build_catalog` |
| Shims, entry point, smoke script | `smb/compat.py`, `ps2smb/server.py`, `smb_smoke.py` | none | start-up glue, one-shot scripts |

How they interact. impacket runs one thread per SMB connection and serves the
requests of a connection one at a time. An open probes the game's `RemoteFile`
(one per game, shared by all connections) and stores a handle in `OpenedFiles`.
A read through the handle calls `get_or_download` for each chunk, then
`prefetch` for the chunks that follow, each in a thread of its own. All threads
meet in the one `ChunkCache`. The status page runs in threads of another server
and reads everybody's fields without locks.

What is hard here: threads meeting in the cache, in `prefetch` and in `probe`;
an index in memory that must agree with a directory; crashes between the steps
of a store, and a restart under other settings; hosts that answer short, late,
never, or with something else; chunk arithmetic at the edges of a file; tables
of handles and search IDs under any order of client requests. The list, by
source line, is `hazards` in `PROJECT.json`.

What makes each part correct:

- cache: what is on disk and what is returned is the whole chunk asked for; one
  thread at a time downloads a chunk; the present set agrees with the
  directory; nobody waits for a chunk he did not ask for;
- reads: exactly the bytes asked for or an error; only touched chunks are
  downloaded; the pending set is what is being prefetched; reads end;
- probe: one probe, one final verdict, the same for everybody, never shown half;
- catalog: unique URLs and filenames, every game reachable;
- search: pages add up to the listing, IDs do not clash, a search ends;
- SMB1 session: a FID means the file its client opened under it, until it is
  closed; hooks and stock handlers divide games and real files rightly;
- SMB2 session: a FileID means what its client opened, a listing shows every
  match once, in order, and then ends (it does not, see `smb2_listing`).

## 2. Modules

| Module | Models | EXTENDS / INSTANCE |
|---|---|---|
| `ChunkStore` | what the cache promises: ask, store, give, fail, lose | |
| `ChunkCache` | `cache.py`, threads, disk, crashes | INSTANCE `ChunkStore` |
| `RemoteFile` | reads and prefetch, composed with the cache | EXTENDS `ChunkCache`, INSTANCE `ChunkStore` |
| `Probe` | the capability probe and its unlocked readers | |
| `Listing` | which games match a pattern, where the records of a page end | |
| `Search` | SMB1 searches of a connection | EXTENDS `Listing` |
| `Smb1Session` | tree connects and open files of an SMB1 connection | |
| `Smb2Session` | open files and listings of an SMB2 connection | EXTENDS `Listing` |
| `Sanitize` | `sanitize`, a function on names | |
| `Catalog` | `load_catalog` and the table of games | EXTENDS `Sanitize` |
| `Scraper` | the catalog `build_catalog` makes of a page | |
| `...Proofs` | theorems about the module of that name | EXTENDS it and `TLAPS` |
| `SequenceLemmas` | what the proofs need about sequences, sums and filters | EXTENDS `Listing`, `TLAPS` |
| `MC...` | constants of the runs | EXTENDS the module |

**ChunkCache.** `pc[t]` says where thread `t` is inside `get_or_download`:
`check` (`has_chunk`), `read` (`open` and `read` of the file), `discard` (the
except clause), `acquire`, then `check` again with the lock held, `fetch` (the
HTTP transfer), `open`, `write`, `replace`, `mark` (the statements of
`store_chunk`) and `release`. Each is one action because another thread may run,
or the process may die, between any two of them. A file on disk is `absent`,
`torn`, `cached` (in the page cache only) or `synced`. The bytes of file `f` are
the pairs `<<f, i>>`, so that bytes from the wrong place are not equal to the
right ones. `chunkSize` is a variable because `--chunk-mib` may change at a
restart. Environment: `DeleteFile`, `Kill`, `PowerLoss` (loses unsynced bytes
and any directory entry, as nobody syncs the directory), `Start` (`main` scans
all files). Each kind of fault has a budget, `FaultBound`. `FailuresCaused` says
what the abstract store, which may always fail, does not: a call fails only by a
transfer or a store of its own, not because a chunk file is gone or cannot be
read, nor because another thread's download failed.

**ChunkStore** has three variables: the stored chunks, what each caller asked
for, the last answer. `ImplementsStore` maps the cache to it: `files` is what
is on disk, a caller is waiting from the call until the answer is decided.
TLC checks the refinement (as a property of `cache_faults`).

**RemoteFile** adds what a client thread does around the calls: `stage[t]` is
`reading`, `waiting` (inside the cache), `prefetch`, `claim`, `spawn`. A worker
is `fetching` until its finally clause. The cache's `Download` is replaced by
`FetchRange`, which checks status and length as `_fetch_range` does. A request
says whether the handler reads ahead: `READ_ANDX` and SMB2 READ do, the legacy
`READ` does not. The probe is left to `Probe`: a handle exists only after a
successful probe, whose verdict is final. `ImplementsReads` maps the whole stack
to `ChunkStore` a second time: the keys are the reads clients make, their
contents the bytes of the remote file, a caller is waiting while its handler
runs. Everything between a read and its answer is a stutter at that level.

**Probe.** Openers go through `wait`, `head`, `get`, `total`, `except`,
`settle`, `leave` under the lock; each field that unlocked readers see is
assigned in a step of its own (`accept_ranges` in `get`, `size` in `head` or
`total`, `error` in `except`, `probed` in `settle`). A Content-Length may be
absent, garbled or negative, which `int` takes.
Pollers read the fields one by one (`Poll`, `PollField`), as `status` does, or
the size alone (`List`), as a directory listing does. The host picks an answer
to each request from `HeadResponses` and `GetResponses`. `received` counts the
bytes of bodies the probe has transferred.

**Search.** An entry is a game, or a file of another tree, and its record length
with padding. `FindFirst` is the hook for the share root, `FindFirstStock` what
happens when the tree is another one: impacket's own handler answers with as many
entries as it likes and keeps the rest in the same `connData["SIDs"]`, where the
hooked `FIND_NEXT2` (`FindNext`, for both kinds of search) finds it. The actions
are the whole handlers: level, result, encoding, paging, chaining, the update of
the dictionary; `page[s].by` says who made a page. `search[s]` is the client's view of
a search: what matched, what it has received, whether it was told EndOfSearch. A
SID without entries is one that is not in the dictionary (a search is stored
only when entries are left). `NonAscii` are games whose name cannot be encoded
for a client without Unicode: `virtual_entries` raises, and impacket answers
with an error or closes the connection, which takes every search with it.

**Smb1Session.** `opened` is the dictionary in insertion order, `held` is the
client's own record of what it opened, `reply` the last reply. `descriptors` are
the FIDs with an operating system's file descriptor, which real files have and
games do not. A handler asks `Own` whether the file is a game; if not, the stock
handler acts, which takes what it finds for a descriptor: it can neither read,
flush nor close a game, and a hook that took a real file for its own would leave
the descriptor open. `SearchShare` is the lookup `compat.py` patches in: the
name as sent, in upper and in lower case, in a configuration that has the served
share under two spellings. What a probe or a read comes to is nondeterministic
here: success, `RemoteFileError` (denied), any other exception (the connection
is dropped). A FID or a size that does not fit its field is an exception too, as
impacket refuses to pack it. Stock handlers (real files, unknown FIDs) are
modelled from how the code relies on them and marked external in the map.

**Smb2Session.** `opened` maps a FileID to its file and enumeration cursor,
`last` is the FileID of `LastRequest["SMB2_CREATE"]`, which an all-ones FileID
stands for; `held` is the client's record of what it opened and, for the share
directory, which entries it has been shown. `page` is the last directory page.
`List` is the whole hook: pattern, level, the cursor read, the paging loop, the
cursor written. Whether a record fits is asked of its length without padding
(`Fits`), while the total counts the padding (`PaddedLength`).
`UuidGenerates` says whether `uuid.generate` exists (`smb/server.py` 728-739).
In Python's library it does not: with `FALSE` an open of a game never succeeds
(it drops the connection or is denied), and no handle but those of the share
directory and the manifest exist. `smb2_safe` sets it to `TRUE`, which allows
success as well as failure and so contains the behaviours with `FALSE`; what is
shown about FileIDs of games holds once the name is corrected. `smb2_listing`
uses `FALSE`, the program as it is.

**Catalog, Sanitize, Scraper.** A name is a sequence of characters, one for each
kind `sanitize` tells apart; ".iso" is left out of filenames. `Sanitize` has one
operator per statement of the function. `Catalog` visits the entries with `Skip`
and `Add`, then `Serve` builds the table keyed by lower-cased filename. `Scraper`
says which rows of a page become entries and under which names; the catalogs it
makes are among those `catalog_safe` loads.

## 3. Runs

Each run has a `.cfg` of its own and takes two minutes at most with two workers.

| Run | Question | Result |
|---|---|---|
| `cache_faults` | two readers; bad transfers, full disk, deletion, kill, power loss: the inductive invariant, whole chunks, refinement of `ChunkStore`, no failure without a cause; a hanging transfer delays nobody else and an error frees the lock | holds |
| `remote_safe` | two clients and a worker, a failing transfer and a crash: the inductive invariant, exact reads, touched chunks only, pending set, one storer, no double download, index agrees with directory | holds |
| `remote_faults` | one client and a worker, every fault: ranges inside the file, reads refine `ChunkStore`, and they end while a prefetch hangs | holds |
| `probe_safe` | the inductive invariant, one probe, one final verdict, consistent status rows and listed sizes, every open is answered | holds |
| `search_safe` | the inductive invariant, pages, offsets, search IDs that hooks and impacket share, names that cannot be encoded, lost connections; searches end | holds |
| `session_safe` | the inductive invariant, FIDs mean what the client opened and end by their CLOSE only, no descriptor is left behind | holds |
| `smb2_safe` | the inductive invariant, FileIDs mean what the client opened, the first pass of a listing is complete | holds |
| `catalog_safe` | the inductive invariant, the list and its numbers are what the file determines, served names, legal filenames that keep their letters, scraped catalogs | holds |
| `cache_discard` | "prevents duplicate downloads" | violated: stale discard in `read_chunk` |
| `remote_resize` | "cache survives restarts" | violated after a change of `--chunk-mib` |
| `smb2_listing` | "query/list hooked for SMB1 + SMB2": a listing ends | violated: the cursor -1 is read as 0 |
| `catalog_numbered` | "unique filenames" | violated by a name that looks suffixed |

`PROJECT.json` quotes each claim under `findings`. The claims hold inside the
limits of another run: `NoDuplicateDownload` as long as chunk files do not
disappear or become unreadable under the server (`remote_safe`), `ReadsExact` as
long as the chunk size stays (`remote_safe`; `remote_faults` by way of
`ImplementsReads`), `PlainNamesServed` for catalogs whose names are plain
(`catalog_safe`), and an SMB2 listing is right up to the point where it should
end (`FirstPass`, `AllShown` in `smb2_safe`).

**Bounds.** One file is enough for the cache: files share no state (keys differ,
locks are per file and chunk). Three bytes with chunks of two give a full and a
partial chunk, five bytes a middle chunk too; chunk size three makes one partial
or one full chunk of the same file. Two threads meet in every pair of steps;
`remote_safe` has two clients and a worker, so that a chunk is asked for by all
three at once. At most one prefetch per chunk is pending, and a client that
finds no free worker waits until there is one: with a single worker prefetches
of different chunks do not overlap, but a prefetch overlaps with both clients,
and both clients can ask for the prefetch of one chunk (`Claim`), which is where
`prefetch` could go wrong. One fault of a kind reaches each error path;
`FaultBound` also keeps the behaviours finite, `SpawnFaults` does so for
`Thread.start`. In `search_safe` the buffers hold nothing or two of three
records, one game cannot be encoded, and the other tree has two files, so that a
search impacket starts may be left with none, one or both of them.
`catalog_safe` loads every catalog of up to three entries over five telling
names and three URLs, every single name of up to six characters, longer than the
shortened `MaxBaseLen`, and the catalogs of pages of up to two rows. `MaxFid` is
far below 65535 so that FIDs run out, `MaxSize` lies between the sizes of the
two games, `MaxOpen` limits the files a client holds, `MaxSid` the search IDs
(overlapping searches may push them up without end; three of them let an ID stay
in use while others come and go), `AbandonBound` the searches walked away from.
`smb2_safe` creates two handles (`MaxCreates`), enough for one listing to be
disturbed by another or by a game; its records have lengths with and without
padding (`Align` is 4), and its buffers are too small for any entry, large
enough for two but not for their padding, and large enough for all. Deadlock is
checked everywhere except in `Catalog`, which ends when its input does.

**Symmetry** is used in safety runs only: threads, clients and workers are
interchangeable there.

**Fairness.** Weak fairness of every thread's steps: the threads are operating
system threads that block only on a chunk's lock, the probe lock or a request.
Requests carry a timeout of 30 seconds, so that a transfer that has stopped
ends; the timeout is per read of the socket, so a host that sends a byte now and
then can hold a transfer for ever: `SlowKeys` are chunks without fairness, and
the liveness properties are about everything else. A chunk's lock needs weak
fairness only: while a thread waits for it, others can take it again and again
only if their transfers or writes keep failing, and the fault budgets bound
that; a host that fails for ever starves nobody in particular but serves nobody
either. The probe lock gets strong fairness: openers may take and free it
without end, and a Python lock hands it over only eventually; that it does is an
assumption. `search_safe` assumes a client that asks for the next page until it
is told EndOfSearch, `smb2_safe` and `smb2_listing` one that goes on asking for
pages of the directories it holds, at an information level the server knows. The
worker's finally clause and the handlers' steps are weakly fair for the same
reason as the threads.

## 4. Proofs

Every theorem holds for any values of the constants that satisfy the `ASSUME`s
of its module: any number of threads, files, games, handles or searches, any
sizes of files, chunks, records and buffers, any budget of faults. TLC evaluates
these assumptions in the runs. For each module there is one inductive invariant;
TLC checks it in the module's run, and the safety properties are read off it.

| Module | Invariant | Properties proved |
|---|---|---|
| `ChunkCacheProofs` | `CacheInv` | `OneStorer`, `FailuresCaused`; `ChunkFilesComplete`, `ReturnsOwnBytes`, `ImplementsStore` (1); `NoDuplicateDownload`, `IndexMatchesDisk` (2) |
| `RemoteFileProofs` | `RemoteInv` | `RangesInsideFile`, `OnlyTouchedChunks`; `ReadsExact`, `ImplementsReads` (1); `NoDuplicateDownload`, `IndexMatchesDisk` for the whole server (2); `PendingIsLive` (3); `SpecR => Spec` |
| `ProbeProofs` | `ProbeInv` | `OpensAgree`, `ProbedOnce`, `StatusRowConsistent`, `VerdictFinal` |
| `SearchProofs` | `SearchInv` | `PagesAddUp`, `PagesWellFormed`, `NoIdleSids` |
| `Smb1SessionProofs` | `SessionInv` | `FidsIncrease`, `HandlesAgree`, `DescriptorsAgree`, `HandlesServed` |
| `Smb2SessionProofs` | `HandlesInv` | `HandlesAgree`, `FirstPass` |
| `CatalogProofs` | `CatalogInv` | `PlainNamesServed`, `Sanitary`, `LoadsReference`; without a run, `SuffixesCount` |

Three theorems' hypotheses are more than the form of the constants:

1. `FixedChunkSize`: all processes are started with one `--chunk-mib`. Without it
   the claims are false (`remote_resize`).
2. `ReliableFiles`: no chunk file is deleted or unreadable under the running
   server; transfers and stores may fail and the process may be killed or lose
   power. Without it the claims are false (`cache_discard`).
3. `SpawnFaults = 0`: `Thread.start` does not raise. Without it the claim is
   false (section 5).

No run replaces these hypotheses by a narrower model: the invariants contain them
as implications (`FixedChunkSize => DataInv`, `ReliableFiles => IndexInv`).

**Cache.** `ControlInv` is inductive alone: types, `CallsInFile` (a thread inside
a call runs in a live process and asked for a chunk of the file), `LocksHeld` (a
lock has one holder, who is working on that chunk, and whoever stores holds it)
and `AnsweredOnce`. `OneStorer` follows. On top, `DataInv` says the bytes a
thread is about to store, its temporary file, every chunk file and every answer
are the whole chunk. Neither layer can be dropped: `ChunkFilesComplete` is not
inductive without `OneStorer`, since two writers of one temporary file would
rename each other's half-written bytes into place, nor without "synced", since a
power loss tears what is not. `IndexInv` needs `FilesKnown`: a thread found the
file it is about to read, and made the one it renames. The refinement maps each
step to a step of `ChunkStore` or a stutter: the call to `Ask`, `os.replace` to
`Store`, the step that decides the outcome to `Give` or `Fail`, and what a crash
or a deletion takes away to `Lose`. `FailuresCaused` counts: a step that adds a
thread to those answered with an error (`OneMoreFailure`) spends a transfer's or a
store's fault, and no step takes a fault back.

**Reads.** `RemoteInv` adds `HandlersLive` (where a handler is, and that it calls
the cache for the chunk its loop is at), `PendingClaims` (who claimed what is
pending, each chunk once) and `ReadsJoined`: what a read has joined is the file
from its offset up to the beginning of the next chunk. That the loop keeps it is
the arithmetic of `read`: lemmas on `Bytes` (two adjacent ranges joined are one;
a slice of a range) and on division by the chunk size. `StackIsCache` shows that
the composed system takes only steps the cache's specification allows; the
cache's theorems hold in it by implication and are not proved again.
`StackImplementsReads` maps the whole stack to `ChunkStore` a second time, with
reads as keys.

**Probe.** `LockGuards` (exactly the holder of the lock is inside the probe),
`Progress` (until there is a verdict, a size or a transferred byte is there only
because one thread is past the request that brought it) and `SeenIsFinal`. The
last is what makes reading without a lock safe: a reader that saw `probed` reads
the other fields after it, and a verdict does not change. The order in which
`status` reads the fields matters, and the invariant says at which field it does.

**SMB1 search.** `SidsApart` (no two open searches share a SID) and
`OrphansCounted` (a SID nobody holds belongs to a search walked away from).
`PagesAddUp` is not inductive without the first, `NoIdleSids` not without the
second. A page is cut at the least entry that overflows; that there is one,
and that it is not the first, is a lemma (`LeastNatural`).

**SMB1 session.** `FidsIncrease` is what keeps FIDs apart: the next is one more
than the last of the dictionary, which is the largest only while they increase;
removing an entry must keep it (`RemoveElements`). `FidsFit` is the bound of the
reply's field. That the descriptors are those of the real files (`DescriptorsAgree`)
is inductive only with distinct FIDs: a CLOSE takes one FID out of both.

**SMB2 session.** `SeenSoFar`: what a client was shown of a directory is the
listing up to the server's cursor, until it has been shown everything. `FirstPass`
follows, and would not be inductive without the cursor.

**Catalog.** `NumberedInOrder` says what the dictionary `seen` stands for: the
number of a game is the number of games with its base before it in the list. A
number is thus a rank in a set of places, and what is needed of ranks is proved
once (`RankSteps`, `RankGrows`, `PlacesInOrder`): they grow by one from place to
place, so that none is left out (`SuffixesCount`) and none is given twice.
`NoneMissed` relates the URLs of the list to the entries visited. Two games of
plain bases share a key of the table only if base and number agree, and then they
are one game (`NamesDiffer`); so the filenames are unique too
(`PlainFilenamesUnique`), which in general they are not (`catalog_numbered`).

For filenames, `sanitize` is taken statement by
statement: a substitution by nothing keeps the characters at some places, in
order, and strips and cuts keep a span; blanks do not meet because between two
that are kept the place after the first would be kept too (`CollapsedIsSpaced`).
That the letters survive in their order (`KeepsLetters`) is one fact about all of
these steps: each leaves out, or changes into one another, blanks and punctuation
only, so that some increasing function says where each character of the result
was in the name (`Thins`), and then the letters of both are the same
(`OthersKept`). A cut is a prefix, and the letters of a prefix are a prefix of the
letters (`OthersOfPrefix`); so is the base of a suffixed name.

`LoadsReference` says what the list is without the loop, its dictionary and its
set of URLs: a set of places of the file (`FirstUses`), with a number for each. It
is inductive on top of `CatalogInv`: `NoneMissed` tells that the loop takes exactly
the entries in that set (`FirstUseNext`), and one place more is one element more
(`AtAppend`). The list being a function of the file, two loads can be compared:
`GrowingCatalogRenamesNone` is about two files, one a prefix of the other, and so
about two runs of the server, which no property of one behaviour can say.

The assumptions: `MaxBaseLen` is at least 2 (it is 80 in the code), without which
a cut could leave a single blank and `rstrip` nothing; `Lower` gives one
character for each (Python's `lower` makes two of one capital letter, the dotted
I, which the model leaves out), and only "-" becomes "-"; a number counts as one
character, legal, not a blank and without case, and different numbers are
different characters.

**Sequences.** `SequenceLemmas` holds induction over the natural numbers, from the
library's fact that every non-empty set of them has a least element (a set takes
the place of the operator that the library's induction rule wants). On it rest
the facts on `Listing`: `Ends` is a running sum that grows and agrees on
prefixes, `Matching` returns entries of the listing. Both are recursive functions,
which the provers can unfold by one step when a function is known to satisfy its
definition (`StepsDefine`).

Only model-checked: liveness (`CallsReturn`, `ReadsReturn`, `OpensReturn`,
`SearchesEnd`, `AllShown`), which needs fairness and `ENABLED`. Every safety
property of a passing run is a theorem.

## 5. Not modelled

Layout of SMB records and replies, JSON, logging, argument parsing, HTML
parsing; `cached_chunks`, `cached_bytes` and `RemoteFile.stat`, which change
nothing; the wire logger; the third-party SMB library beyond what the hooks rely
on; HTTP redirects; what a `requests.Session` shared by threads does; the second
and later passes of an SMB2 listing beyond the fact that they happen. The HTTP
routes of the status page only format what `Poll` reads. A 206 that has the right
length and the wrong bytes is not modelled: `_fetch_range` looks at status and
length (`remote.py` 137-154), not at Content-Range, so that a host that answers
another range of that length is believed; what is said about bytes is said of
hosts that do not. A negative size, which a probe accepts and records, is
followed to the verdict in `Probe` only; `RemoteFile` starts from the true size.
Descriptors of real files that are open when a connection ends are impacket's to
close and leave the model with the connection.

SMB2 is off by default: impacket's `SimpleSMBServer` is started without it
(README line 44). Everything about `Smb2Session` (`smb2_safe`, `smb2_listing` and
the items on SMB2 below) is about the hooks as they would run once it is switched
on.

Disagreements between code and documentation met while modelling, for which no
run is kept:

- `prefetch` adds a chunk to `_pending_prefetch` before `Thread.start`
  (`remote.py` 195, 209). When `start` raises, the chunk stays pending, no one
  prefetches it, and the finished read ends in an exception (`SpawnFails`).
  `PendingIsLive` is checked without this fault and is false with it.
- The probe of a host without range support transfers the whole file
  (`remote.py` 88: the body of a 200 is read before its status is looked at),
  although README line 144 and the docstring of `remote.py` (11-12) say that
  whole ISOs are never downloaded. `ProbedOnce` shows that it happens once.
- A read of zero bytes inside a chunk downloads the chunk (`remote.py` 171:
  `last` equals `first`). `OnlyTouchedChunks` counts such a read as touching the
  chunk it lies in; it shows that one on a boundary downloads nothing.
- Listings show size 0 until a game has been opened (`smb/server.py` 155), while
  the module's docstring says they "supply correct sizes".
- The same docstring lists QUERY_PATH_INFO, which is not hooked (105-116).
- Of two games whose names differ by case only the table keeps the second
  (`smb/server.py` 83): the first is not listed, shown or opened, although README
  line 128 says that `/games` shows "every game" and the start-up message counts
  both ("Games visible to OPL", `ps2smb/server.py` 96).
- README line 160 speaks of "a global lock" and the docstring of `cache.py` (11)
  of "a per-file lock"; there is one lock for each chunk (`cache.py` 52-56), as
  the model has it. With either of the two a hanging transfer would delay other
  chunks: `ReadsReturn` fails with a lock for each file.
- `sanitize` strips blanks, then dots (`catalog.py` 37): `a .` keeps its blank.
- The generator of SMB2 FileIDs calls `uuid.generate` (`smb/server.py` 728-739),
  which Python's `uuid` does not have: no SMB2 open of a game succeeds, although
  README line 35 lists SMB2 as working.
- The hooked SMB2 CREATE does not set `LastRequest` (`smb/compat.py` 97-107 reads
  it): after the open of a game, an all-ones FileID means an older real file.
- CLOSE of SMB2 is not hooked: the entry of a game stays in `OpenedFiles` until
  the connection ends. `HandlesAgree` of `Smb2Session` says nothing else does.
- The last entry of an SMB2 page has a non-zero `NextEntryOffset`
  (`smb/server.py` 374), while the docstrings of `listing.py` (3-5, 138) promise
  both dialects links of which "0 marks the last"; the padding of that entry may
  pass the end of the client's buffer (372 asks before it is added). The
  links of SMB2 records are not modelled. The RESTART flags are ignored.
- One name with a letter that is not ASCII makes the whole search of a client
  without Unicode fail (`listing.py` 82).

## 6. Plan

1. The status interface with its `errors` deque, to which nothing is appended
   although README line 161 says errors appear there.
2. `Probe` composed with `RemoteFile`: opens and reads of one abstract virtual
   file.
3. Proofs: the refinement of an abstract virtual file once 2 exists.
