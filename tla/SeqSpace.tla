------------------------------ MODULE SeqSpace ------------------------------
(***************************************************************************)
(* Sequence-number arithmetic of src/src/tcp/tcp.c.                        *)
(*                                                                         *)
(* Sequence numbers are uint32_t in the code: additions and subtractions   *)
(* wrap at 2^32 and the comparisons split the circle at 1 << 31.  The      *)
(* module keeps the wrap and makes its size a parameter: HalfSpace stands  *)
(* for 1 << 31, Modulus for 2^32.  Plus and Minus are written with IF      *)
(* instead of % because both arguments are already in range, which is also *)
(* the form the provers can reason about for every HalfSpace.              *)
(***************************************************************************)
EXTENDS Integers

CONSTANTS HalfSpace,     \* 1 << 31
          MaxWindow      \* UINT16_MAX, the largest value of a window field

\* A window must fit in half of the circle with a number to spare on each side;
\* 65535 + 2 <= 2^31 does so by a wide margin.
ASSUME SeqAssumption ==
  /\ HalfSpace \in Nat
  /\ MaxWindow \in Nat \ {0}
  /\ MaxWindow + 2 <= HalfSpace

Modulus == 2 * HalfSpace
SeqNum  == 0 .. (Modulus - 1)
Windows == 0 .. MaxWindow

\* uint32_t addition and subtraction.
Plus(a, b)  == IF a + b >= Modulus THEN a + b - Modulus ELSE a + b
Minus(a, b) == IF a >= b THEN a - b ELSE a - b + Modulus

-----------------------------------------------------------------------------
\* Mutant: the half-way point counts as "less than".
wrapping_lt_closed(lhs, rhs) == Minus(lhs, rhs) >= HalfSpace
\* Mutant: compares as if the counter never wrapped.
wrapping_lt_flat(lhs, rhs) == lhs < rhs

wrapping_lt(lhs, rhs) == Minus(lhs, rhs) > HalfSpace

\* Strictly between on the circle.
is_between_wrapped(start, x, end) ==
  wrapping_lt(start, x) /\ wrapping_lt(x, end)

\* Mutant: the left edge of the window is excluded.
segment_check_open(nxt, wnd, slen, seqn) ==
  IF slen = 0
  THEN IF wnd = 0 THEN seqn = nxt ELSE is_between_wrapped(nxt, seqn, Plus(nxt, wnd))
  ELSE wnd # 0

\* nxt and wnd are receiveSequenceSpace.nxt and .wnd.  A segment that carries
\* data is accepted whatever its sequence number is ("more rigours check later").
segment_check(nxt, wnd, slen, seqn) ==
  IF slen = 0
  THEN IF wnd = 0
       THEN seqn = nxt
       ELSE is_between_wrapped(Minus(nxt, 1), seqn, Plus(nxt, wnd))
  ELSE wnd # 0

=============================================================================
