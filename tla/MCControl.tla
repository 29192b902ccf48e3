----------------------------- MODULE MCControl -----------------------------
(***************************************************************************)
(* Instances of Control for TLC: what two clients type.                    *)
(***************************************************************************)
EXTENDS Control, TLC

CONSTANTS a, b

\* Line l, n bytes long, and its newline.
Row(l, n) == [i \in 1 .. (n + 1) |-> [line |-> l, newline |-> i = n + 1]]

\* Two clients, whole lines of every length up to MaxLen, an "exit" among them.
Calmly == [clients |-> {a, b},
           input   |-> (a :> Row(1, 2) \o Row(2, 1)) @@ (b :> Row(3, 1) \o Row(4, 0)),
           meaning |-> <<"start", "reply", "exit", "quiet">>,
           wholeLines |-> TRUE, fallible |-> FALSE, signals |-> FALSE]

\* One client, whose bytes arrive as they may: a line that is too long, "exit", and
\* a "connect" that lacks its arguments; calls fail, and signals come.
Faulty == [clients |-> {a},
           input   |-> (a :> Row(1, 4) \o Row(2, 1) \o Row(3, 1)) @@ (b :> <<>>),
           meaning |-> <<"reply", "exit", "fatal", "quiet">>,
           wholeLines |-> FALSE, fallible |-> TRUE, signals |-> TRUE]

\* One client whose bytes arrive as they may, more than one read takes; nothing fails.
Lone == [clients |-> {a},
         input   |-> (a :> Row(1, 2) \o Row(2, 0) \o Row(3, 1) \o Row(4, 1)) @@ (b :> <<>>),
         meaning |-> <<"reply", "start", "quiet", "exit">>,
         wholeLines |-> FALSE, fallible |-> FALSE, signals |-> FALSE]

All        == {Calmly, Lone, Faulty}
OnlyFaulty == {Faulty}

=============================================================================
