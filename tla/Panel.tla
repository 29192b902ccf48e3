------------------------------- MODULE Panel -------------------------------
(***************************************************************************)
(* What the control panel promises its clients, with sockets, buffers and  *)
(* the life of the process left out: the lines a client types are run one  *)
(* by one in the order they were typed, each once, each exactly as typed.  *)
(* The promise is kept to orderly clients only; see Calm in Control.       *)
(***************************************************************************)
EXTENDS Naturals, Sequences

CONSTANT Clients

VARIABLES typed,     \* the bytes each client types
          orderly,   \* whether the promise holds
          upTo,      \* where the last line of each client that was run ends
          run        \* what was run in the last step, if anything

Init == upTo = [c \in Clients |-> 0] /\ run = {}

\* The next line of c is what lies before its next newline.
RunLine(c) ==
  \E n \in (upTo[c] + 1) .. Len(typed[c]) :
    /\ typed[c][n].newline
    /\ \A i \in (upTo[c] + 1) .. (n - 1) : ~typed[c][i].newline
    /\ upTo' = [upTo EXCEPT ![c] = n]
    /\ run' = {[text |-> SubSeq(typed[c], upTo[c] + 1, n - 1), line |-> typed[c][n].line]}

Quiet == run' = {} /\ UNCHANGED upTo

Next == /\ orderly => Quiet \/ \E c \in Clients : RunLine(c)
        /\ UNCHANGED <<typed, orderly>>

Spec == Init /\ [][Next]_<<typed, orderly, upTo, run>>

=============================================================================
