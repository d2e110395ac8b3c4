---------------------------- MODULE MCSourceRefresh ----------------------------
(* Two requests at a time and one reference pack.                           *)
EXTENDS SourceRefresh

CONSTANTS r1, r2, p1

TwoRequests == {r1, r2}
OnePack     == {p1}
Refreshes   == {"refresh"}
AllKinds    == {"refresh", "research"}
=============================================================================
