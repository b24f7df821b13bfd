----------------------------- MODULE MCGateway -----------------------------
(* Small instances of Gateway for TLC. *)
EXTENDS Gateway

CONSTANTS r1, r2, r3, p1, s1

TwoRequests   == {r1, r2}
ThreeRequests == {r1, r2, r3}
OneEmbedder   == {p1}
OneSaver      == {s1}
NoOne         == {}

UpToTwo   == {0, 1, 2}
AlwaysOne == {1}
=============================================================================
