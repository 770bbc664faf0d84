---------------------------- MODULE MCDispatcher ----------------------------
EXTENDS Dispatcher, TLC

\* Workers are interchangeable, and so are connections of one kind.
Symmetry == Permutations(Workers) \cup Permutations(Conns \ PrioConns)
=============================================================================
