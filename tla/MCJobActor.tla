----------------------------- MODULE MCJobActor -----------------------------
\* Model values and symmetry for checking JobActor with TLC.
EXTENDS JobActor, TLC

Symmetry == Permutations(Digests) \cup Permutations(Clients)

\* Stacks of one lane, all leased, differ in nothing but their name.
SymmetryStacks == Symmetry \cup Permutations(Stacks)

=============================================================================
