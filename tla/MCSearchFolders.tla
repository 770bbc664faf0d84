--------------------------- MODULE MCSearchFolders ---------------------------
(* TLC instances of SearchFolders: each worker has a search folder of its  *)
(* own to work on.  The objects are interchangeable, and so are the        *)
(* workers when each takes its search folder along.                        *)
EXTENDS SearchFolders, TLC

ServesOne == CHOOSE s \in [Workers -> SUBSET Folders] :
    /\ \A w \in Workers : Cardinality(s[w]) = 1
    /\ \A v, w \in Workers : v # w => s[v] \cap s[w] = {}
ASSUME ServesOne = Serves /\ Apart
Symmetry == {p @@ q : p \in Permutations(Objs),
                      q \in {r @@ t : r \in Permutations(Workers), t \in Permutations(Folders)}}
Together == {p \in Symmetry :
                \A w \in Workers : ServesOne[p[w]] = {p[f] : f \in ServesOne[w]}}

\* Messages match at first and are made in a place that is searched, for a
\* smaller state space.
MCInit == /\ Init /\ hit = [m \in Messages |-> TRUE]
          /\ \A m \in Messages : life[m] = "none" => loc[m] \in Target

\* The properties of the results say nothing of a message that is overtaken, and
\* it is the only one.  So, again for a smaller state space, that happens when no
\* call is under way; from then on searches end and are cancelled, and none are
\* started.  What goes on with events and objects is all there.
Short == /\ errors' = 0
         /\ overtaken = {} => \A w \in Workers : wpc[w] = "idle"
         /\ \A w \in Workers : wop'[w] \in {wop[w], "none", "cancel"}
MCSpec == MCInit /\ [][Next /\ (overtaken' = {} \/ Short)]_vars
=============================================================================
