--------------------------- MODULE MCNotifications ---------------------------
(* TLC instances of Notifications: sessions, connections and threads are   *)
(* model values, and those of a kind are interchangeable.                  *)
EXTENDS Notifications, TLC

Symmetry == Permutations(Sessions) \cup Permutations(Conns)
=============================================================================
