--------------------------- MODULE SeqSpaceProofs ---------------------------
(***************************************************************************)
(* Proofs about the sequence-number comparisons, for every size of the     *)
(* circle and every window that fits in half of it: what MCSeqSpace checks *)
(* on a circle of 16 numbers holds on the circle of 2^32.                  *)
(***************************************************************************)
EXTENDS MCSeqSpace, SeqSpaceLemmas

\* The positions stay on the circle.
PositionsOK == lo \in SeqNum /\ x \in SeqNum /\ hi \in SeqNum /\ wnd \in Windows

LEMMA Positions == Spec => []PositionsOK
<1>1. Init => PositionsOK
  BY DEF Init, PositionsOK
<1>2. PositionsOK /\ [Slide]_vars => PositionsOK'
  BY PlusType, HalfSpacePositive DEF PositionsOK, Slide, vars, Modulus
<1> QED
  BY <1>1, <1>2, PTL DEF Spec

\* wrapping_lt is "less than half of the circle ahead", on every circle.
THEOREM LtCorrect == Spec => []LtIsHalfCircle
<1>1. PositionsOK => LtIsHalfCircle
  BY HalfSpacePositive
  DEF PositionsOK, LtIsHalfCircle, wrapping_lt, Minus, Ahead, SeqNum, Modulus
<1> QED
  BY <1>1, Positions, PTL

\* is_between_wrapped is membership of the open arc, on every circle.
THEOREM BetweenCorrect == Spec => []BetweenIsArc
<1>1. PositionsOK => BetweenIsArc
  BY HalfSpacePositive
  DEF PositionsOK, BetweenIsArc, is_between_wrapped, wrapping_lt, Minus, Ahead, SeqNum, Modulus
<1> QED
  BY <1>1, Positions, PTL

\* segment_check accepts an empty segment exactly when it starts in the window,
\* for every window up to MaxWindow.  This is where MaxWindow + 2 <= HalfSpace is
\* needed: the window and one number on each side must fit in half of the circle.
THEOREM WindowCorrect == Spec => []EmptyAcceptedInWindow
<1>1. ASSUME PositionsOK PROVE EmptyAcceptedInWindow
  <2>1. lo \in SeqNum /\ x \in SeqNum /\ wnd \in Nat /\ wnd <= MaxWindow
    BY <1>1, SeqAssumption DEF PositionsOK, Windows
  <2>2. CASE wnd = 0
    BY <2>1, <2>2, HalfSpacePositive
    DEF EmptyAcceptedInWindow, segment_check, Ahead, SeqNum, Modulus
  <2>3. CASE wnd # 0
    <3>1. segment_check(lo, wnd, 0, x) <=> Minus(x, lo) < wnd
      BY <2>1, <2>3, SeqAssumption
      DEF segment_check, is_between_wrapped, wrapping_lt, Plus, Minus, SeqNum, Modulus
    <3>2. Minus(x, lo) < wnd <=> \E d \in 0 .. (wnd - 1) : x = lo + d \/ x = lo + d - Modulus
      <4>1. /\ Minus(x, lo) \in Nat
            /\ x = lo + Minus(x, lo) \/ x = lo + Minus(x, lo) - Modulus
        BY <2>1, SeqAssumption DEF Minus, SeqNum, Modulus
      <4>2. ASSUME NEW d \in 0 .. (wnd - 1), x = lo + d \/ x = lo + d - Modulus
            PROVE  Minus(x, lo) < wnd
        BY <2>1, <4>2, SeqAssumption DEF Minus, SeqNum, Modulus
      <4>3. ASSUME Minus(x, lo) < wnd
            PROVE  Minus(x, lo) \in 0 .. (wnd - 1)
        BY <2>1, <4>1, <4>3
      <4> QED
        BY <4>1, <4>2, <4>3
    <3> QED
      BY <2>1, <2>3, <3>1, <3>2 DEF EmptyAcceptedInWindow, Ahead
  <2> QED
    BY <2>2, <2>3
<1> QED
  BY <1>1, Positions, PTL

\* No comparison changes its verdict when all its arguments slide by one.
THEOREM WrapCorrect == Spec => WrapInvariant
<1> DEFINE Same == /\ wrapping_lt(lo, x)' <=> wrapping_lt(lo, x)
                   /\ is_between_wrapped(lo, x, hi)' <=> is_between_wrapped(lo, x, hi)
                   /\ segment_check(lo, wnd, 0, x)' <=> segment_check(lo, wnd, 0, x)
<1>1. PositionsOK /\ Slide => Same
  BY SeqAssumption
  DEF PositionsOK, Slide, segment_check, is_between_wrapped, wrapping_lt,
      Plus, Minus, SeqNum, Windows, Modulus
<1>2. PositionsOK /\ [Slide]_vars => [Same]_vars
  BY <1>1
<1> QED
  BY <1>2, Positions, PTL DEF Spec, WrapInvariant

=============================================================================
