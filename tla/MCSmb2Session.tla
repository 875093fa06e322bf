---------------------------- MODULE MCSmb2Session ----------------------------
(* Constants for checking Smb2Session on small instances.                   *)
EXTENDS Smb2Session

CONSTANTS a, b, c, root, manifest

\* Records of lengths that need padding, and one that needs none.
ThreeGames == <<a, b, c>>
Lengths == a :> 3 @@ b :> 2 @@ c :> 4

AllOrSome == {{a, b, c}, {a, c}}
AllGames == {{a, b, c}}

\* Too small for an entry, enough for two but not for their padding, and large.
BufferMix == {1, 7, 20}
===============================================================================
