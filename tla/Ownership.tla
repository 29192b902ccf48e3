------------------------------ MODULE Ownership ------------------------------
(***************************************************************************)
(* What the threads promise each other about the address of a connection:  *)
(* it is handed out to one thread, which fills it and shares it through a  *)
(* table once; it is taken out of the table before it is given back; and   *)
(* what was taken out is never shared again.                               *)
(***************************************************************************)
CONSTANT Ids

VARIABLE owner

Init == owner = [x \in Ids |-> "free"]

Take(x)    == owner[x] = "free"    /\ owner' = [owner EXCEPT ![x] = "private"]
Share(x)   == owner[x] = "private" /\ owner' = [owner EXCEPT ![x] = "filed"]
Unshare(x) == owner[x] = "filed"   /\ owner' = [owner EXCEPT ![x] = "loose"]
Refuse(x)  == owner[x] = "private" /\ owner' = [owner EXCEPT ![x] = "loose"]
Return(x)  == owner[x] = "loose"   /\ owner' = [owner EXCEPT ![x] = "free"]

\* x takes the place of y in a table.
Replace(x, y) == /\ owner[x] = "private" /\ owner[y] = "filed"
                 /\ owner' = [owner EXCEPT ![x] = "filed", ![y] = "loose"]

Next == \E x \in Ids :
          \/ Take(x) \/ Share(x) \/ Unshare(x) \/ Refuse(x) \/ Return(x)
          \/ \E y \in Ids : Replace(x, y)

Spec == Init /\ [][Next]_owner

=============================================================================
