------------------------------ MODULE IdSource ------------------------------
(***************************************************************************)
(* What a persistent id sequence promises: ids are reserved in the         *)
(* database before they are handed out, the reserve never goes back, and   *)
(* an id that is handed out is larger than all before it.  A crash is no   *)
(* step of it: what it loses are ids nobody has.                           *)
(***************************************************************************)
EXTENDS Naturals, Sequences

VARIABLES reserved, \* the largest id the database keeps from being given again
          given     \* the ids handed out, oldest first

vars == <<reserved, given>>

Init == reserved \in Nat /\ given = <<>>

Reserve == /\ reserved' \in Nat /\ reserved' > reserved
           /\ UNCHANGED given

HandOut == \E id \in 1 .. reserved :
              /\ \A i \in 1 .. Len(given) : given[i] < id
              /\ given' = Append(given, id)
              /\ UNCHANGED reserved

Next == Reserve \/ HandOut

Spec == Init /\ [][Next]_vars
=============================================================================
