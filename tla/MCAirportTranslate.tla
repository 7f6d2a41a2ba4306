------------------------- MODULE MCAirportTranslate -------------------------
(* Every edge of every interval of translate, from both sides.             *)
EXTENDS AirportTranslate

CONSTANT Text

Edges == {-82, -66, -5, 14, -90, 90, -180, 180}
MCRawValues == {Text, TooLarge, 0, 4, -74, 45} \cup UNION {{e - 1, e, e + 1} : e \in Edges}
=============================================================================
