------------------------------- MODULE Scraper -------------------------------
(***************************************************************************)
(* The catalog that archive_scraper/scraper.py (build_catalog) makes of a   *)
(* directory page: a row of the page's table becomes an entry or nothing.   *)
(* A text is a sequence of characters as in module Sanitize, the ending     *)
(* ".iso" one of them.                                                      *)
(***************************************************************************)
EXTENDS SequencesExt

\* A row has some cells and, in the first, a link or none.  A link has a text
\* and leads to a URL, which may be a page of the site and may end in ".iso".
RowsOf(cells, urls, texts) ==
    [cells : cells, linked : BOOLEAN, url : urls, text : texts,
     page : BOOLEAN, iso : BOOLEAN]

\* href starts with "/details/" or ends with "/"; only ISO files are listed.
Listed(row) == row.cells >= 3 /\ row.linked /\ ~row.page /\ row.iso

\* name[:-4] if name.lower().endswith(".iso") else name
NameOf(text) == IF text # <<>> /\ Last(text) = ".iso" THEN Front(text) ELSE text

EntryOf(row) == [name |-> NameOf(row.text), url |-> row.url]

\* The rows are taken in the order of the page; nothing is looked at twice.
CatalogOf(page) ==
    LET rows == SelectSeq(page, Listed)
    IN  [j \in DOMAIN rows |-> EntryOf(rows[j])]
===============================================================================
