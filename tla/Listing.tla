------------------------------- MODULE Listing -------------------------------
(***************************************************************************)
(* What the SMB1 and SMB2 listings of ps2smb/smb have in common: which       *)
(* games match a pattern, and where the records of a page end.               *)
(***************************************************************************)
EXTENDS Integers, SequencesExt

\* virtual_entries goes through the games and appends those that match.
Matching(games, glob) ==
    LET entries[j \in 0 .. Len(games)] ==
            IF j = 0 THEN <<>>
            ELSE IF games[j] \in glob THEN Append(entries[j - 1], games[j])
                                      ELSE entries[j - 1]
    IN  entries[Len(games)]

\* The running total of a page: where each of its records ends.
Ends(entries, size) ==
    LET total[j \in 0 .. Len(entries)] ==
            IF j = 0 THEN 0 ELSE total[j - 1] + size[entries[j]]
    IN  total
===============================================================================
