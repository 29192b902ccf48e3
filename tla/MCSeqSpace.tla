----------------------------- MODULE MCSeqSpace -----------------------------
(***************************************************************************)
(* Checks the comparisons of SeqSpace against reference definitions, for   *)
(* every triple of positions on a small circle.  Each triple is an initial *)
(* state; a step slides all three positions by one, so that the action     *)
(* property compares each verdict with the one on the other side of a wrap. *)
(***************************************************************************)
EXTENDS SeqSpace

VARIABLES lo,    \* start of an interval, or the receive edge
          x,     \* the sequence number under test
          hi,    \* end of an interval
          wnd    \* a receive window

vars == <<lo, x, hi, wnd>>

Init == lo \in SeqNum /\ x \in SeqNum /\ hi \in SeqNum /\ wnd \in Windows

Slide == /\ lo' = Plus(lo, 1)
         /\ x'  = Plus(x, 1)
         /\ hi' = Plus(hi, 1)
         /\ UNCHANGED wnd

Spec == Init /\ [][Slide]_vars

-----------------------------------------------------------------------------
\* Positions reached from n by walking forward by the distances in D.
Ahead(n, D) == {y \in SeqNum : \E d \in D : y = n + d \/ y = n + d - Modulus}

\* wrapping_lt (tcp.c:228) is exactly "rhs lies in the half circle in front of
\* lhs", as the RFC 1323 comment above it says: less than 2^31 ahead, and never
\* at the half-way point itself, so that two numbers are never both less than
\* each other.
LtIsHalfCircle == wrapping_lt(lo, x) <=> x \in Ahead(lo, 1 .. (HalfSpace - 1))

\* is_between_wrapped (tcp.c:233) on an interval shorter than half the circle
\* is membership of the open arc from start to end, also when the arc wraps.
BetweenIsArc ==
  LET arc == Minus(hi, lo) IN
  arc < HalfSpace =>
    (is_between_wrapped(lo, x, hi) <=> x \in Ahead(lo, 1 .. (arc - 1)))

\* segment_check (tcp.c:204) accepts an empty segment exactly when it starts in
\* the receive window, the left edge included; a closed window accepts the
\* edge alone.
EmptyAcceptedInWindow ==
  segment_check(lo, wnd, 0, x)
    <=> x \in Ahead(lo, IF wnd = 0 THEN {0} ELSE 0 .. (wnd - 1))

\* No verdict depends on where on the circle the numbers lie: sliding all of
\* them by one, across a wrap or not, changes none of the comparisons.
WrapInvariant ==
  [][/\ wrapping_lt(lo, x)' <=> wrapping_lt(lo, x)
     /\ is_between_wrapped(lo, x, hi)' <=> is_between_wrapped(lo, x, hi)
     /\ segment_check(lo, wnd, 0, x)' <=> segment_check(lo, wnd, 0, x)]_vars

=============================================================================
