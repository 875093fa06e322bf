------------------------------ MODULE ChunkStore ------------------------------
(***************************************************************************)
(* What the chunk cache promises its callers, without threads' steps, locks *)
(* or temporary files: a caller asks for a chunk and is given exactly that  *)
(* chunk or an error; only a chunk someone is asking for is ever stored,    *)
(* and only whole; stored chunks may be lost, never altered.                *)
(***************************************************************************)
CONSTANTS
    Callers,    \* who may ask
    Keys,       \* the chunks
    Contents    \* the bytes of each chunk

VARIABLES
    files,      \* the stored chunks, as pairs <<chunk, bytes>>
    asked,      \* the chunk each caller is waiting for, if any
    answer      \* the last answer each caller was given, if any

storeVars == <<files, asked, answer>>

NoAnswer == [kind |-> "none", data |-> <<>>]
Failure == [kind |-> "error", data |-> <<>>]

Init ==
    /\ files = {}
    /\ asked = [c \in Callers |-> {}]
    /\ answer = [c \in Callers |-> NoAnswer]

Ask(c, k) ==
    /\ asked[c] = {}
    /\ asked' = [asked EXCEPT ![c] = {k}]
    /\ answer' = [answer EXCEPT ![c] = NoAnswer]
    /\ UNCHANGED files

Store(c) ==
    /\ \E k \in asked[c] : files' = files \cup {<<k, Contents[k]>>}
    /\ UNCHANGED <<asked, answer>>

\* A caller is answered once, with the chunk it asked for.
Give(c) ==
    /\ \E k \in asked[c] :
          answer' = [answer EXCEPT ![c] = [kind |-> "data", data |-> Contents[k]]]
    /\ asked' = [asked EXCEPT ![c] = {}]
    /\ UNCHANGED files

Fail(c) ==
    /\ asked[c] # {}
    /\ answer' = [answer EXCEPT ![c] = Failure]
    /\ asked' = [asked EXCEPT ![c] = {}]
    /\ UNCHANGED files

Lose == files' \subseteq files /\ UNCHANGED <<asked, answer>>

Crash ==
    /\ files' \subseteq files
    /\ asked' = [c \in Callers |-> {}]
    /\ answer' = [c \in Callers |-> NoAnswer]

Next ==
    \/ \E c \in Callers :
         \/ \E k \in Keys : Ask(c, k)
         \/ Store(c) \/ Give(c) \/ Fail(c)
    \/ Lose
    \/ Crash

Spec == Init /\ [][Next]_storeVars
===============================================================================
