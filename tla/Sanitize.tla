------------------------------- MODULE Sanitize -------------------------------
(***************************************************************************)
(* sanitize (ps2smb/catalog.py): from a game's display name to the base of  *)
(* its filename.  A name is a sequence of characters: letters, digits and   *)
(* "-" are as good as one another, a blank stands for white space, ":" for  *)
(* the separators (":", "/" and "\") and "*" for what is illegal in a name. *)
(***************************************************************************)
EXTENDS Integers, SequencesExt

CONSTANT MaxBaseLen    \* MAX_BASE_LEN

ASSUME MaxBaseLenAssumption == MaxBaseLen \in Nat /\ MaxBaseLen > 1

\* s.strip(c), s.rstrip(c): the span between the first and last other character.
Others(s, c) == {j \in DOMAIN s : s[j] # c}
StripRight(s, c) == IF Others(s, c) = {} THEN <<>> ELSE SubSeq(s, 1, Max(Others(s, c)))
Strip(s, c) ==
    IF Others(s, c) = {} THEN <<>> ELSE SubSeq(s, Min(Others(s, c)), Max(Others(s, c)))

Separated(s) == [j \in DOMAIN s |-> IF s[j] = ":" THEN " " ELSE s[j]]

\* What a substitution by "" leaves: the characters at the places J.
Place(J, k) == CHOOSE j \in J : Cardinality(J \cap (1 .. j)) = k
At(s, J) == [k \in 1 .. Cardinality(J) |-> s[Place(J, k)]]

Legal(s) == At(s, Others(s, "*"))

\* re.sub(r"\s+", " ", s): a run of blanks becomes one blank.
Collapsed(s) == At(s, {j \in DOMAIN s : j = 1 \/ s[j] # " " \/ s[j - 1] # " "})

EdgesTrimmed(s) == Strip(Strip(s, " "), ".")

Unnamed == <<"u", "n", "n">>
NamedAnything(s) == s    \* faulty variant
Named(s) == IF s = <<>> THEN Unnamed ELSE s
Truncated(s) == IF Len(s) > MaxBaseLen THEN StripRight(SubSeq(s, 1, MaxBaseLen), " ") ELSE s

SanitizedName(s) ==
    Truncated(Named(EdgesTrimmed(Collapsed(Legal(Separated(Strip(s, " ")))))))
===============================================================================
