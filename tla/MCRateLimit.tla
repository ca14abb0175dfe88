---------------------------- MODULE MCRateLimit ----------------------------
(***************************************************************************)
(* RateLimit with two applications of one user, every choice of two rates   *)
(* for them, and requests that carry the key of a user without              *)
(* applications.  The longer interval is three ticks: a window has a start, *)
(* a middle, a last moment and an end, and a stretch of that length can see *)
(* the end of one window and the start of the next.                         *)
(***************************************************************************)
EXTENDS RateLimit

CONSTANTS u1, u2, a1, a2

R(l, i) == [limits |-> l, interval |-> i]

MCOwner == {[a \in App |-> u1]}

MCRate == {R(1, 3)}
MCDefaultRate == R(2, 1)

\* For the violation: the same limit in nine times the default's interval.
MCRateSlow == {R(2, 9)}
=============================================================================
