----------------------- MODULE MCSearchResponseCache -----------------------
(***************************************************************************)
(* Instances of SearchResponseCache for TLC: a few calls for one key.      *)
(***************************************************************************)
EXTENDS SearchResponseCache

CONSTANTS r1, r2, r3

TwoRequests == {r1, r2}
ThreeRequests == {r1, r2, r3}
OneWarmup == {r1}
=============================================================================
