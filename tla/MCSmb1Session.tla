---------------------------- MODULE MCSmb1Session ----------------------------
(* Constants for checking Smb1Session on small instances.                   *)
EXTENDS Smb1Session

CONSTANTS a, b, manifest

\* A game that fits the size field of OPEN_ANDX, and one that does not.
Sizes == a :> 2 @@ b :> 5

File(word, upper) == [word |-> word, upper |-> upper]
PathMix == {<<File(a, FALSE)>>, <<File("dvd", TRUE), File(b, TRUE)>>,
            <<File(manifest, FALSE)>>, <<File("cd", TRUE), File(manifest, FALSE)>>}
===============================================================================
