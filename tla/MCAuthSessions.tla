--------------------------- MODULE MCAuthSessions ---------------------------
(* AuthSessions with a few requests, one of which may be a logout.         *)
EXTENDS AuthSessions, TLC

CONSTANTS r1, r2, r3, out

\* API requests are interchangeable.
RequestSymmetry == Permutations(Requests \ Logouts)
=============================================================================
