------------------------------ MODULE MCUnitIndex ------------------------------
(* Two texts, two statuses, two dimensions, and callers that embed two     *)
(* fields, one of them in the other dimension, or none.                      *)
EXTENDS UnitIndex

CONSTANTS t1, t2, verified, deprecated

TwoTexts   == {t1, t2}
TwoStatuses == {verified, deprecated}
TwoDims    == {2, 3}
Embed(p, c) == [f \in Fields |-> IF f = "problem" THEN p ELSE IF f = "content" THEN c ELSE None]
MostlyOpen == {Features, Features \ {"ik"}}
SomeShapes == {Embed(2, 2), Embed(2, 3), Embed(None, None)}
=============================================================================
