------------------------ MODULE MCDeferredUpdates ------------------------
(* Instances of DeferredUpdates for TLC. *)
EXTENDS DeferredUpdates, TLC

\* Folders, messages and workers are interchangeable.
Symmetry == Permutations(Folders) \cup Permutations(Messages) \cup Permutations(Workers)

\* Nobody reads a table: the purges do not depend on it.
UnreadSpec == Init /\ [][PurgeThread \/ AdminCall \/ Write]_vars /\ Fairness
=============================================================================
