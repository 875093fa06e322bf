------------------------------ MODULE MCCatalog ------------------------------
(* Constants for checking Catalog on small instances.                       *)
EXTENDS Catalog, Scraper

CONSTANTS u1, u2, u3

Alphabet == {"a", "b", "u", "n", "-", "1", "2", "3", ".iso"}
LowerCase == "A" :> "a" @@ [c \in Alphabet \cup {" ", ".", ":", "*"} |-> c]

\* Names that differ by case, one that looks suffixed, one with punctuation,
\* one of which nothing is left.
Names == {<<"a">>, <<"A">>, <<"a", "-", "1">>, <<"b", ":", "*">>, <<".">>}
Entry(name, url) == [name |-> name, url |-> url]
Missing == {Entry(<<>>, u1), Entry(<<"a">>, "none")}

\* All catalogs of up to three entries with these names, and those of one entry
\* with any name of up to six characters that sanitize tells apart.
Mixed == SeqOf({Entry(name, url) : name \in Names, url \in {u1, u2, u3}} \cup Missing, 3)
Single ==
    {<<Entry(name, u1)>> : name \in SeqOf({"a", " ", ".", ":", "*"}, 6)}

\* The catalogs the scraper makes of pages of up to two rows: a row that is
\* no file, a text without ".iso" and one with nothing else.
Rows == RowsOf({2, 3}, {u1, u2}, {<<"a", ".iso">>, <<"b">>, <<".iso">>})
Scraped == {CatalogOf(page) : page \in SeqOf(Rows, 2)}

AllCatalogs == Mixed \cup Single \cup Scraped

Numbered == SeqOf({Entry(name, url) : name \in {<<"a">>, <<"a", "-", "1">>},
                                      url \in {u1, u2, u3}}, 3)
===============================================================================
