------------------------------- MODULE MCSearch -------------------------------
(* Constants for checking Search on small instances.                        *)
EXTENDS Search

CONSTANTS g1, g2, g3, f1, f2, s1, s2

\* Three games whose records take 2, 3 and 1 units of the client's buffer, and
\* two files of another tree.
ThreeGames == <<g1, g2, g3>>
TwoFiles == <<f1, f2>>
Sizes == g1 :> 2 @@ g2 :> 3 @@ g3 :> 1 @@ f1 :> 3 @@ f2 :> 2

\* One game has a name that no ASCII client can be told.
OneForeign == {g3}

AllOrOne == {{g1, g2, g3}, {g2}}
===============================================================================
