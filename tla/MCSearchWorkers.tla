-------------------------- MODULE MCSearchWorkers --------------------------
EXTENDS SearchWorkers, TLC

\* Workers are interchangeable; used by the runs without a temporal property.
Symmetry == Permutations(Worker)
=============================================================================
