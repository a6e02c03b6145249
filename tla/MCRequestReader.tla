-------------------------- MODULE MCRequestReader --------------------------
(* Every text up to a length is read, and what is read is compared with     *)
(* what RLI defines.                                                        *)
EXTENDS RequestReader

CONSTANT MaxText   \* bound: length of a text

MCChars == Parens \cup Blanks \cup {Quote, "'", "f"}
MCTexts == UNION {[1 .. n -> Chars] : n \in 0 .. MaxText}
=============================================================================
