------------------------------- MODULE Catalog -------------------------------
(***************************************************************************)
(* Loading the catalog (ps2smb/catalog.py, load_catalog) and the table of   *)
(* games the SMB server serves from it (GameSMBServer.__init__).  The loop  *)
(* visits the entries of the file one by one.                               *)
(***************************************************************************)
EXTENDS Sanitize

CONSTANTS
    Urls,       \* valid download URLs
    Lower,      \* the lower-case form of each character
    Catalogs    \* the catalog files to load: sequences of entries

\* An entry has a display name and a URL; <<>> and "none" stand for a name and
\* a URL that are missing, "none" also for one that is not http(s).
ASSUME CatalogsAssumption ==
    \A entries \in Catalogs :
        entries \in Seq([name : Seq(DOMAIN Lower), url : Urls \cup {"none"}])

\* A number counts as one character; no letter but "-" has it as lower case.
ASSUME LowerAssumption ==
    /\ {" ", "u", "n", "-"} \subseteq DOMAIN Lower
    /\ \A c \in DOMAIN Lower : Lower[c] = "-" <=> c = "-"

ASSUME NumbersAssumption ==
    \A entries \in Catalogs : \A n \in 1 .. Len(entries) :
        /\ ToString(n) \in DOMAIN Lower \ {" ", ":", "*"}
        /\ Lower[ToString(n)] = ToString(n)
        /\ \A m \in 1 .. Len(entries) : ToString(m) = ToString(n) => m = n

VARIABLES
    entries,    \* the catalog file
    i,          \* entries visited
    games,      \* the list load_catalog builds
    seen,       \* how often each base has been used
    served      \* GameSMBServer.games: lower-cased filename -> game

vars == <<entries, i, games, seen, served>>

Usable(entry) == entry.name # <<>> /\ entry.url # "none"

\* seen.get(base, 0)
Uses(base) == IF base \in DOMAIN seen THEN seen[base] ELSE 0

\* base if n = 0, else base-n; ".iso" is left out.
Filename(base, n) == IF n = 0 THEN base ELSE base \o <<"-", ToString(n)>>

LowerName(name) == [j \in DOMAIN name |-> Lower[name[j]]]

NoUrlsSeen == {}    \* faulty variant
UrlsSeen == {games[j].url : j \in DOMAIN games}

-----------------------------------------------------------------------------

Skip ==
    /\ i < Len(entries)
    /\ ~Usable(entries[i + 1]) \/ entries[i + 1].url \in UrlsSeen
    /\ i' = i + 1
    /\ UNCHANGED <<entries, games, seen, served>>

\* The game of an entry, the n-th of its base.
GameOf(entry, n) ==
    [name |-> entry.name, url |-> entry.url,
     filename |-> Filename(SanitizedName(entry.name), n)]

SuffixNone(base) == 0    \* faulty variant

\* n = seen.get(base, 0)
Suffix(base) == Uses(base)

Add ==
    LET entry == entries[i + 1]
        base == SanitizedName(entry.name)
    IN  /\ i < Len(entries)
        /\ Usable(entry)
        /\ entry.url \notin UrlsSeen
        /\ seen' = [b \in DOMAIN seen \cup {base} |->
                       IF b = base THEN Uses(base) + 1 ELSE seen[b]]
        /\ games' = Append(games, GameOf(entry, Suffix(base)))
        /\ i' = i + 1
        /\ UNCHANGED <<entries, served>>

\* Faulty variant: the names are not lower-cased.
TableAsWritten(list) ==
    [name \in {list[j].filename : j \in DOMAIN list} |->
        list[Max({j \in DOMAIN list : list[j].filename = name})]]

\* {g.filename.lower(): g for g in games}: the last game of a name stays.
Table(list) ==
    [name \in {LowerName(list[j].filename) : j \in DOMAIN list} |->
        list[Max({j \in DOMAIN list : LowerName(list[j].filename) = name})]]

\* main() exits with an error if the catalog has no usable game.
Serve ==
    /\ i = Len(entries)
    /\ games # <<>>
    /\ DOMAIN served = {}
    /\ served' = Table(games)
    /\ UNCHANGED <<entries, i, games, seen>>

Init ==
    /\ entries \in Catalogs
    /\ i = 0
    /\ games = <<>>
    /\ seen = <<>>
    /\ served = <<>>

Next == Skip \/ Add \/ Serve

Spec == Init /\ [][Next]_vars

-----------------------------------------------------------------------------
(* Properties.                                                              *)

TypeOK ==
    /\ entries \in Catalogs
    /\ i \in 0 .. Len(entries)
    /\ games \in Seq([name : Seq(DOMAIN Lower), url : Urls, filename : Seq(DOMAIN Lower)])
    /\ Len(games) <= i
    /\ seen \in [DOMAIN seen -> Nat \ {0}]
    /\ \A name \in DOMAIN served : LowerName(served[name].filename) = name

\* If no base looks like a suffixed one, and no two differ by case only, every
\* game has a filename of its own and is served under it, and every usable
\* entry of the catalog file is served as one of them.
Suffixed(base) == Len(base) > 2 /\ base[Len(base) - 1] = "-"

PlainNames ==
    LET bases == DOMAIN seen
    IN  \A b, c \in bases : ~Suffixed(b) /\ (LowerName(b) = LowerName(c) => b = c)

PlainNamesServed ==
    PlainNames /\ DOMAIN served # {} =>
        /\ \A j \in DOMAIN games : served[LowerName(games[j].filename)] = games[j]
        /\ {entries[j].url : j \in {k \in DOMAIN entries : Usable(entries[k])}} =
               {served[name].url : name \in DOMAIN served}

\* A filename begins with the letters of the display name in their order. It has
\* all of them unless it was cut: then it has MaxBaseLen characters, or one less
\* and a blank was cut off with the rest, and perhaps a suffix after them.
Letter(c) == c \notin {" ", ".", ":", "*"}
Letters(s) == At(s, {j \in DOMAIN s : Letter(s[j])})

CutFrom(s, wanted) == Len(s) >= MaxBaseLen - 1 /\ IsPrefix(Letters(s), wanted)

KeepsLetters(game) ==
    LET s == game.filename
        wanted == Letters(game.name)
    IN  wanted # <<>> =>
            \/ IsPrefix(wanted, Letters(s))
            \/ CutFrom(s, wanted)
            \/ Suffixed(s) /\ CutFrom(SubSeq(s, 1, Len(s) - 2), wanted)

\* A filename is never empty or illegal, and has no two blanks in a row; a
\* suffix is all that may follow MaxBaseLen characters.
WellNamed(game) ==
    LET s == game.filename
    IN  /\ Len(s) \in 1 .. MaxBaseLen + 2
        /\ Range(s) \cap {":", "*"} = {}
        /\ \A k \in 2 .. Len(s) : ~(s[k - 1] = " " /\ s[k] = " ")

\* sanitize and the suffix make a good filename of every display name, one that
\* still spells the name's letters (whether two games share one is the subject
\* of PlainNamesServed and FilenamesUnique).
Sanitary == \A j \in DOMAIN games : WellNamed(games[j]) /\ KeepsLetters(games[j])

\* What load_catalog should make of the first n entries of a file, whatever else
\* is in it: the first usable entry of each URL, in the order of the file, with
\* the number of those of its base before it.
Base(entry) == SanitizedName(entry.name)

FirstUses(file) ==
    {k \in DOMAIN file :
        /\ Usable(file[k])
        /\ \A m \in 1 .. k - 1 : Usable(file[m]) => file[m].url # file[k].url}

UsesIn(file, n, base) == {m \in FirstUses(file) \cap (1 .. n) : Base(file[m]) = base}

Loaded(file, n) ==
    LET game(k) == GameOf(file[k], Cardinality(UsesIn(file, k - 1, Base(file[k]))))
    IN  At([k \in DOMAIN file |-> game(k)], FirstUses(file) \cap (1 .. n))

\* load_catalog: "deterministic" filenames.  The list is what the entries visited
\* make it, and so are the counts of used names.
LoadsReference ==
    /\ games = Loaded(entries, i)
    /\ \A k \in DOMAIN entries :
          LET base == Base(entries[k])
          IN  Uses(base) = Cardinality(UsesIn(entries, i, base))

\* load_catalog: "assign deterministic, unique filenames".
FilenamesUnique ==
    \A j, k \in DOMAIN games : games[j].filename = games[k].filename => j = k

-----------------------------------------------------------------------------
(* The invariant the proofs of module CatalogProofs rest on.                *)

\* The places of the games with a base, and how many come before a place.
Places(base) == {k \in DOMAIN games : Base(games[k]) = base}
Number(j) == Cardinality(Places(Base(games[j])) \cap (1 .. j - 1))

\* A game is numbered by the games of its base before it, and seen counts all.
NumberedInOrder ==
    /\ \A j \in DOMAIN games : games[j].filename = Filename(Base(games[j]), Number(j))
    /\ DOMAIN seen = {Base(games[j]) : j \in DOMAIN games}
    /\ \A base \in DOMAIN seen : seen[base] = Cardinality(Places(base))

\* Every usable URL so far has its game, and the table is that of all games.
NoneMissed ==
    /\ UrlsSeen = {entries[k].url : k \in {m \in 1 .. i : Usable(entries[m])}}
    /\ DOMAIN served # {} => i = Len(entries) /\ served = Table(games)

\* The inductive invariant of load_catalog's loop and of the table.
CatalogInv == TypeOK /\ NumberedInOrder /\ NoneMissed
===============================================================================
