-------------------------- MODULE MCEditingService --------------------------
EXTENDS EditingService, TLC

\* Managers and owners of a kind are interchangeable (safety runs only).
Symmetry == Permutations(Managers) \cup Permutations(Tasks) \cup Permutations(Plans)
=============================================================================
