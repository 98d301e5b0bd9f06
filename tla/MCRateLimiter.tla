--------------------------- MODULE MCRateLimiter ---------------------------
(* Model values for checking RateLimiter with TLC.                         *)
EXTENDS RateProperties

CONSTANTS c1, c2, c3

OneCall == {c1}
TwoCalls == {c1, c2}
ThreeCalls == {c1, c2, c3}
=============================================================================
