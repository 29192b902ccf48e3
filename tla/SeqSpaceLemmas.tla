--------------------------- MODULE SeqSpaceLemmas ---------------------------
(***************************************************************************)
(* What the arithmetic of SeqSpace returns: lemmas for the proofs about    *)
(* the modules that use it.                                                *)
(***************************************************************************)
EXTENDS SeqSpace, TLAPS

LEMMA HalfSpacePositive == HalfSpace \in Nat /\ MaxWindow \in Nat /\ HalfSpace >= 3
BY SeqAssumption

\* Adding a distance of less than the circle stays on the circle.
LEMMA PlusType ==
  ASSUME NEW a \in SeqNum, NEW n \in 0 .. Modulus
  PROVE  Plus(a, n) \in SeqNum
BY HalfSpacePositive DEF SeqNum, Modulus, Plus

LEMMA MinusType ==
  ASSUME NEW a \in SeqNum, NEW b \in SeqNum
  PROVE  Minus(a, b) \in SeqNum
BY HalfSpacePositive DEF SeqNum, Modulus, Minus

LEMMA WindowsFit == Windows \subseteq 0 .. Modulus /\ 0 \in SeqNum /\ 1 \in SeqNum
BY SeqAssumption DEF Windows, SeqNum, Modulus

\* Stepping back undoes stepping forward.
LEMMA MinusPlus ==
  ASSUME NEW a \in SeqNum
  PROVE  Minus(Plus(a, 1), 1) = a /\ Plus(Minus(a, 1), 1) = a
BY HalfSpacePositive DEF SeqNum, Modulus, Plus, Minus

\* handle_tcp_syn_sent first sets the receive edge to the segment's own number, so
\* its segment_check never fails, as the question in its comment suspects.
LEMMA SynSentCheckPasses ==
  ASSUME NEW seq \in SeqNum, NEW w \in Windows
  PROVE  segment_check(seq, w, 0, seq)
BY SeqAssumption
DEF segment_check, is_between_wrapped, wrapping_lt, Plus, Minus, SeqNum, Windows, Modulus

=============================================================================
