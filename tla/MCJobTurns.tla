----------------------------- MODULE MCJobTurns -----------------------------
\* Model values and symmetry for checking JobTurns with TLC.
EXTENDS JobTurns, TLC

Symmetry == Permutations(Digests)

=============================================================================
